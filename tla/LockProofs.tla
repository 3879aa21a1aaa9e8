------------------------------ MODULE LockProofs ------------------------------
(***************************************************************************)
(* The two locks of a composed workspace.  The workspace update lock       *)
(* excludes, for any number of acquisitions, recoveries and deaths, and    *)
(* every unlink by path hits its target.  The deletion lease of a worktree *)
(* excludes, for any number of attempts, processes and hosts, and whenever *)
(* processes die.                                                          *)
(***************************************************************************)
EXTENDS WorkspaceUpdateLock, DeletionLease, TLAPS

\* A recovery that has removed the owner file of its target.
Claimed(v) == step[v] \in {"confirm", "unlink"}

Chosen(v) == step[v] \in {"identify", "claim", "confirm", "unlink"}

\* A living owner has the lock; the target of a recovery is dead, and claimed once.
UpdateInv ==
  /\ \A u \in Updates : Relies(u) => updateLock = u
  /\ \A v \in Recoveries : Chosen(v) => target[v] \in down
  /\ \A v \in Recoveries : Claimed(v) => target[v] \notin ownerFiles
  /\ \A v, w \in Recoveries : Claimed(v) /\ Claimed(w) /\ target[v] = target[w] => v = w
  /\ \A v \in Recoveries : step[v] = "unlink" => updateLock = target[v]

UpdateIInv == UpdateTypeOK /\ UpdateInv

LEMMA UpdateInit0 == UpdateInit => UpdateIInv
BY UpdateAssumption
DEF UpdateInit, UpdateIInv, UpdateTypeOK, UpdateInv, Relies, Chosen, Claimed, Calls,
    UpdateSteps, RecoverySteps

\* The types: every step moves a call within the steps of its kind.
LEMMA UpdateTypeStep ==
  ASSUME UpdateTypeOK, [UpdateNext]_updateVars
  PROVE  UpdateTypeOK'
<1> USE UpdateAssumption DEF UpdateTypeOK, Calls, UpdateSteps, RecoverySteps, Next2, Is
<1>1. ASSUME NEW u \in Updates,
             \/ CreateOwner(u) \/ LinkLock(u) \/ SyncLock(u) \/ UndoLink(u) \/ CleanUp(u)
             \/ CheckOwnership(u) \/ Unlock(u) \/ Disown(u)
      PROVE  UpdateTypeOK'
  BY <1>1 DEF CreateOwner, LinkLock, SyncLock, UndoLink, CleanUp, CheckOwnership, Unlock, Disown
<1>2. ASSUME NEW v \in Recoveries, ReadOwner(v)
      PROVE  UpdateTypeOK'
  BY <1>2 DEF ReadOwner
<1>3. ASSUME NEW v \in Recoveries,
             Identify(v) \/ ClaimOwner(v) \/ Confirm(v) \/ UnlinkStale(v)
      PROVE  UpdateTypeOK'
  BY <1>3 DEF Identify, ClaimOwner, Confirm, UnlinkStale
<1>4. ASSUME NEW c \in Calls, Die(c)
      PROVE  UpdateTypeOK'
  BY <1>4 DEF Die
<1>5. CASE UNCHANGED updateVars
  BY <1>5 DEF updateVars
<1> QED BY <1>1, <1>2, <1>3, <1>4, <1>5 DEF UpdateNext

LEMMA UpdateInvStep ==
  ASSUME UpdateIInv, [UpdateNext]_updateVars
  PROVE  UpdateInv'
<1> USE UpdateAssumption DEF UpdateIInv, UpdateTypeOK, UpdateInv, Calls, Next2, Is,
        Relies, Chosen, Claimed
<1>1. ASSUME NEW u \in Updates, CreateOwner(u)
      PROVE  UpdateInv'
  BY <1>1 DEF CreateOwner
<1>2. ASSUME NEW u \in Updates, LinkLock(u)
      PROVE  UpdateInv'
  BY <1>2 DEF LinkLock
<1>3. ASSUME NEW u \in Updates, SyncLock(u) \/ CleanUp(u) \/ CheckOwnership(u) \/ Disown(u)
      PROVE  UpdateInv'
  BY <1>3 DEF SyncLock, CleanUp, CheckOwnership, Disown
\* The unlinks by path: the living owner has the lock, and its recovery would need it dead.
<1>4. ASSUME NEW u \in Updates, UndoLink(u) \/ Unlock(u)
      PROVE  UpdateInv'
  BY <1>4 DEF UndoLink, Unlock
<1>5. ASSUME NEW v \in Recoveries, ReadOwner(v)
      PROVE  UpdateInv'
  BY <1>5 DEF ReadOwner
<1>6. ASSUME NEW v \in Recoveries, Identify(v)
      PROVE  UpdateInv'
  BY <1>6 DEF Identify
\* Who removes the owner file is the only one to have removed it.
<1>7. ASSUME NEW v \in Recoveries, ClaimOwner(v)
      PROVE  UpdateInv'
  BY <1>7 DEF ClaimOwner
<1>8. ASSUME NEW v \in Recoveries, Confirm(v)
      PROVE  UpdateInv'
  BY <1>8 DEF Confirm
<1>9. ASSUME NEW v \in Recoveries, UnlinkStale(v)
      PROVE  UpdateInv'
  BY <1>9 DEF UnlinkStale
<1>10. ASSUME NEW c \in Calls, Die(c)
       PROVE  UpdateInv'
  BY <1>10 DEF Die
<1>11. CASE UNCHANGED updateVars
  BY <1>11 DEF updateVars
<1> QED
  BY <1>1, <1>2, <1>3, <1>4, <1>5, <1>6, <1>7, <1>8, <1>9, <1>10, <1>11 DEF UpdateNext

\* Every reachable state satisfies the inductive invariant.
THEOREM UpdateInvariant == UpdateSpec => []UpdateIInv
<1>1. UpdateIInv /\ [UpdateNext]_updateVars => UpdateIInv'
  BY UpdateTypeStep, UpdateInvStep DEF UpdateIInv
<1> QED BY UpdateInit0, <1>1, PTL DEF UpdateSpec

\* The variables of workspace-update-lock.ts keep their types.
THEOREM UpdateTypes == UpdateSpec => []UpdateTypeOK
BY UpdateInvariant, PTL DEF UpdateIInv

\* Two living owners never both rely on the lock.
THEOREM UpdateExclusion == UpdateSpec => []OneUpdater
<1>1. UpdateIInv => OneUpdater
  BY DEF UpdateIInv, UpdateInv, OneUpdater
<1> QED BY UpdateInvariant, <1>1, PTL

\* No unlink by path removes a lock other than the one it was checked for.
THEOREM UpdateUnlinks == UpdateSpec => []UnlinksItsTarget
<1>1. UpdateIInv => UnlinksItsTarget
  BY DEF UpdateIInv, UpdateInv, UnlinksItsTarget, Is, Chosen, Relies
<1> QED BY UpdateInvariant, <1>1, PTL
-----------------------------------------------------------------------------
\* The steps of a recovery under its lock.
InRecovery(a) == at[a] \in {"recheck", "remove", "relink", "reclaim", "unlockRecovery"}

\* A living attempt that linked the lease and has not removed it.
LeaseLinked(a) ==
  Live(a) /\ \/ at[a] \in {"claim", "reclaim", "release"}
             \/ won[a] /\ at[a] # "over"

\* Recoveries exclude each other, and the lease to be removed is that of the dead.
LeaseInv ==
  /\ \A a \in Attempts : LeaseLinked(a) => lease = a
  /\ \A a \in Attempts : InRecovery(a) => recoverLock = a
  /\ \A a \in Attempts : at[a] = "remove" => lease \in Attempts /\ ~ Live(lease)
  /\ \A a \in Attempts :
       won[a] => at[a] \in {"unlockRecovery", "unstage", "held", "release", "over"}

LeaseIInv == LeaseTypeOK /\ LeaseInv

LEMMA LeaseInit0 == LeaseInit => LeaseIInv
BY LeaseAssumption
DEF LeaseInit, LeaseIInv, LeaseTypeOK, LeaseInv, LeaseLinked, InRecovery, LeaseSteps, Processes

LEMMA LeaseTypeStep ==
  ASSUME LeaseTypeOK, [LeaseNext]_leaseVars
  PROVE  LeaseTypeOK'
<1> USE LeaseAssumption DEF LeaseTypeOK, LeaseSteps, On, Move
<1>1. ASSUME NEW a \in Attempts, WriteStaging(a) \/ LinkLease(a)
      PROVE  LeaseTypeOK'
  BY <1>1 DEF WriteStaging, LinkLease
<1>6. ASSUME NEW a \in Attempts, ClaimLease(a)
      PROVE  LeaseTypeOK'
  <2>1. won' \in [Attempts -> BOOLEAN]
    BY <1>6, Zenon DEF ClaimLease
  <2>2. at' \in [Attempts -> LeaseSteps]
    BY <1>6 DEF ClaimLease
  <2> QED BY <1>6, <2>1, <2>2 DEF ClaimLease
<1>7. ASSUME NEW a \in Attempts, Inspect(a)
      PROVE  LeaseTypeOK'
  BY <1>7 DEF Inspect
<1>2. ASSUME NEW a \in Attempts, LockRecovery(a) \/ Recheck(a) \/ RemoveDead(a) \/ UnlockRecovery(a)
      PROVE  LeaseTypeOK'
  BY <1>2 DEF LockRecovery, Recheck, RemoveDead, UnlockRecovery
<1>3. ASSUME NEW a \in Attempts, DropStaging(a) \/ ReadBack(a) \/ RemoveLease(a)
      PROVE  LeaseTypeOK'
  BY <1>3 DEF DropStaging, ReadBack, RemoveLease
<1>4. ASSUME NEW i \in Processes, Exit(i)
      PROVE  LeaseTypeOK'
  BY <1>4 DEF Exit
<1>5. CASE UNCHANGED leaseVars
  BY <1>5 DEF leaseVars
<1> QED BY <1>1, <1>2, <1>3, <1>4, <1>5, <1>6, <1>7 DEF LeaseNext

LEMMA LeaseInvStep ==
  ASSUME LeaseIInv, [LeaseNext]_leaseVars
  PROVE  LeaseInv'
<1> USE LeaseAssumption
    DEF LeaseIInv, LeaseTypeOK, LeaseInv, On, Move, Live, LeaseLinked, InRecovery
<1>1. ASSUME NEW a \in Attempts, WriteStaging(a)
      PROVE  LeaseInv'
  BY <1>1 DEF WriteStaging
<1>2. ASSUME NEW a \in Attempts, LinkLease(a)
      PROVE  LeaseInv'
  BY <1>2 DEF LinkLease
<1>3. ASSUME NEW a \in Attempts, ClaimLease(a)
      PROVE  LeaseInv'
  BY <1>3 DEF ClaimLease
<1>4. ASSUME NEW a \in Attempts, Inspect(a)
      PROVE  LeaseInv'
  BY <1>4 DEF Inspect
<1>5. ASSUME NEW a \in Attempts, LockRecovery(a)
      PROVE  LeaseInv'
  BY <1>5 DEF LockRecovery
<1>6. ASSUME NEW a \in Attempts, Recheck(a)
      PROVE  LeaseInv'
  BY <1>6 DEF Recheck, Releasable
\* The removal by path hits the lease of the dead: nobody has it linked.
<1>7. ASSUME NEW a \in Attempts, RemoveDead(a)
      PROVE  LeaseInv'
  BY <1>7 DEF RemoveDead
<1>8. ASSUME NEW a \in Attempts, UnlockRecovery(a)
      PROVE  LeaseInv'
  BY <1>8 DEF UnlockRecovery
<1>9. ASSUME NEW a \in Attempts, DropStaging(a)
      PROVE  LeaseInv'
  BY <1>9 DEF DropStaging
<1>10. ASSUME NEW a \in Attempts, ReadBack(a)
       PROVE  LeaseInv'
  BY <1>10 DEF ReadBack
<1>11. ASSUME NEW a \in Attempts, RemoveLease(a)
       PROVE  LeaseInv'
  BY <1>11 DEF RemoveLease
<1>12. ASSUME NEW i \in Processes, Exit(i)
       PROVE  LeaseInv'
  BY <1>12 DEF Exit
<1>13. CASE UNCHANGED leaseVars
  BY <1>13 DEF leaseVars
<1> QED
  BY <1>1, <1>2, <1>3, <1>4, <1>5, <1>6, <1>7, <1>8, <1>9, <1>10, <1>11, <1>12, <1>13
  DEF LeaseNext

\* Every reachable state satisfies the inductive invariant.
THEOREM LeaseInvariant == LeaseSpec => []LeaseIInv
<1>1. LeaseIInv /\ [LeaseNext]_leaseVars => LeaseIInv'
  BY LeaseTypeStep, LeaseInvStep DEF LeaseIInv
<1> QED BY LeaseInit0, <1>1, PTL DEF LeaseSpec

\* The variables of store-deletion-lease.ts keep their types.
THEOREM LeaseTypes == LeaseSpec => []LeaseTypeOK
BY LeaseInvariant, PTL DEF LeaseIInv

\* No two living processes both believe to hold the lease of one worktree.
THEOREM LeaseExclusion == LeaseSpec => []OneHolder
<1>1. LeaseIInv => OneHolder
  BY DEF LeaseIInv, LeaseInv, OneHolder, Holding, LeaseLinked
<1> QED BY LeaseInvariant, <1>1, PTL

\* A recovery never takes away the lease of a living process.
THEOREM LeaseIsKept == LeaseSpec => LiveLeaseKept
<1>1. LeaseIInv /\ [LeaseNext]_leaseVars => [LosesOwnOnly]_leaseVars
  <2> SUFFICES ASSUME LeaseIInv, LeaseNext, NEW b \in Attempts,
                      lease = b, lease' # b, Live(b)
               PROVE  On(b, "release")
    BY DEF leaseVars, LosesOwnOnly
  <2> USE LeaseAssumption DEF LeaseIInv, LeaseInv, LeaseTypeOK, On, Live, LeaseLinked
  <2>1. ASSUME NEW a \in Attempts,
               \/ WriteStaging(a) \/ LinkLease(a) \/ ClaimLease(a) \/ Inspect(a)
               \/ LockRecovery(a) \/ Recheck(a) \/ UnlockRecovery(a)
               \/ DropStaging(a) \/ ReadBack(a)
        PROVE  FALSE
    BY <2>1 DEF WriteStaging, LinkLease, ClaimLease, Inspect, LockRecovery, Recheck,
                UnlockRecovery, DropStaging, ReadBack
  <2>2. ASSUME NEW a \in Attempts, RemoveDead(a)
        PROVE  FALSE
    BY <2>2 DEF RemoveDead
  <2>3. ASSUME NEW a \in Attempts, RemoveLease(a)
        PROVE  On(b, "release")
    BY <2>3 DEF RemoveLease
  <2>4. ASSUME NEW i \in Processes, Exit(i)
        PROVE  FALSE
    BY <2>4 DEF Exit
  <2> QED BY <2>1, <2>2, <2>3, <2>4 DEF LeaseNext
<1> QED BY LeaseInvariant, <1>1, PTL DEF LeaseSpec, LiveLeaseKept
=============================================================================
