-------------------------- MODULE WorkspaceProofs --------------------------
(***************************************************************************)
(* What a composed workspace keeps in files, together: whatever holds of   *)
(* the update lock, the deletion lease, the dist overlay and the member    *)
(* mount by themselves holds of them side by side.                         *)
(***************************************************************************)
EXTENDS MCWorkspace, LockProofs, DistOverlayProofs, MemberMountProofs

\* The side by side of the four is each of them, so that every theorem about one of them
\* carries over: none of the four protocols takes a step of another's files.
THEOREM SideBySide == Spec => UpdateSpec /\ LeaseSpec /\ OverlaySpec /\ MountSpec
<1> DEFINE allVars == <<updateVars, leaseVars, overlayVars, mountVars, subject>>
<1>1. Init => UpdateInit /\ LeaseInit /\ OverlayInit /\ MountInit
  BY DEF Init
<1>2. [Next]_allVars => [UpdateNext]_updateVars
  BY DEF Next
<1>3. [Next]_allVars => [LeaseNext]_leaseVars
  BY DEF Next
<1>4. [Next]_allVars => [OverlayNext]_overlayVars
  BY DEF Next
<1>5. [Next]_allVars => [MountNext]_mountVars
  BY DEF Next
<1> QED
  BY <1>1, <1>2, <1>3, <1>4, <1>5, PTL DEF Spec, UpdateSpec, LeaseSpec, OverlaySpec, MountSpec

\* Locks, leases, journals and trees are well typed in every reachable state (FilesTypeOK),
\* for any number of calls, directories, artifacts and sources.
THEOREM FileTypes == Spec => []FilesTypeOK
<1>1. UpdateIInv /\ LeaseIInv /\ OverlayIInv /\ MountIInv => FilesTypeOK
  BY DEF UpdateIInv, LeaseIInv, OverlayIInv, MountIInv, FilesTypeOK
<1> QED
  BY <1>1, SideBySide, UpdateInvariant, LeaseInvariant, OverlayInvariant, MountInvariant, PTL
=============================================================================
