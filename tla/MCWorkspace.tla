---------------------------- MODULE MCWorkspace ----------------------------
\* Small instances of what a composed workspace keeps in files: the update lock, the
\* deletion lease of a worktree, a dist overlay and the mount of a member.  They share no
\* state: one runs.
EXTENDS WorkspaceUpdateLock, DeletionLease, DistOverlay, MemberMount, TLC

CONSTANT Distant

VARIABLE subject

Init ==
  /\ UpdateInit /\ LeaseInit /\ OverlayInit /\ MountInit
  /\ subject \in {"update", "lease", "overlay", "mount"}
  /\ subject # "mount" => mount = Absent

Next ==
  /\ \/ subject = "update" /\ UpdateNext /\ UNCHANGED <<leaseVars, overlayVars, mountVars>>
     \/ subject = "lease" /\ LeaseNext /\ UNCHANGED <<updateVars, overlayVars, mountVars>>
     \/ subject = "overlay" /\ OverlayNext /\ UNCHANGED <<updateVars, leaseVars, mountVars>>
     \/ subject = "mount" /\ MountNext /\ UNCHANGED <<updateVars, leaseVars, overlayVars>>
  /\ UNCHANGED subject

Spec == Init /\ [][Next]_<<updateVars, leaseVars, overlayVars, mountVars, subject>>

FilesTypeOK == UpdateTypeOK /\ LeaseTypeOK /\ OverlayTypeOK /\ MountTypeOK

\* Four processes with one attempt each; the distant one runs on another host.
OwnPid == [a \in Attempts |-> a]
TwoHosts == [a \in Attempts |-> IF a = Distant THEN "there" ELSE "here"]

\* Only one of the four runs, so they can share their interchangeable names.
Interchangeable == Permutations(Attempts \ {Distant}) \cup Permutations(Recoveries)
=============================================================================
