--------------------------- MODULE DeletionLease ---------------------------
(***************************************************************************)
(* The lease that excludes deleting a store worktree's artifacts while the *)
(* worktree is activated (store-deletion-lease.ts): a staging file linked  *)
(* onto the lease path, and, for the lease of a process that is provably   *)
(* dead, a recovery under a lock of its own.                               *)
(*                                                                         *)
(* One action is one call of the file system with what the code decides    *)
(* from it, and any of these calls may fail; a process, and with it all    *)
(* its attempts, may die at any point.  Names are prefixed so that a       *)
(* composition can extend several modules.                                 *)
(***************************************************************************)
EXTENDS Naturals

CONSTANTS
  Attempts,   \* bound: calls of acquireDeletionLease for one owner path, by token
  Pid,        \* Pid[a]: the process that makes the call
  Host,       \* Host[i]: the host process i runs on
  Free        \* no file

Processes == {Pid[a] : a \in Attempts}

ASSUME LeaseAssumption == Free \notin Attempts

VARIABLES
  lease,       \* the record at the lease path, by its token
  recoverLock, \* the record linked at <lease>.recover
  staging,     \* attempts whose staging file exists
  alive,       \* processes that have not died
  at,          \* at[a]: where attempt a is
  won,         \* won[a]: linkAndClaim returned true
  existing     \* existing[a]: the record judged releasable before the recovery

leaseVars == <<lease, recoverLock, staging, alive, at, won, existing>>

LeaseSteps == {"stage", "link", "claim", "inspect", "lockRecovery", "recheck", "remove",
               "relink", "reclaim", "unlockRecovery", "unstage", "held", "release", "over"}

LeaseInit ==
  /\ lease = Free /\ recoverLock = Free
  /\ staging = {}
  /\ alive = Processes
  /\ at = [a \in Attempts |-> "stage"]
  /\ won = [a \in Attempts |-> FALSE]
  /\ existing = [a \in Attempts |-> Free]

Live(a) == Pid[a] \in alive
On(a, l) == at[a] = l /\ Live(a)
Move(a, l) == at' = [at EXCEPT ![a] = l]

\* isProvablyReleasable, asked by attempt a: same host, another pid, and it is gone.
Releasable(a, b) == Host[Pid[b]] = Host[Pid[a]] /\ Pid[b] # Pid[a] /\ ~ Live(b)

-----------------------------------------------------------------------------
\* acquireDeletionLease.

WriteStaging(a) ==
  /\ On(a, "stage")
  /\ \/ staging' = staging \cup {a} /\ Move(a, "link")
     \/ Move(a, "over") /\ UNCHANGED staging
  /\ UNCHANGED <<lease, recoverLock, alive, won, existing>>

\* link(2) of the staging file; linkAndClaim runs before and inside a recovery.
LinkLease(a) ==
  /\ On(a, "link") \/ On(a, "relink")
  /\ \/ /\ lease = Free
        /\ lease' = a
        /\ Move(a, IF at[a] = "link" THEN "claim" ELSE "reclaim")
     \/ /\ Move(a, IF at[a] = "link" THEN "inspect" ELSE "unlockRecovery")
        /\ UNCHANGED lease
  /\ UNCHANGED <<recoverLock, staging, alive, won, existing>>

\* The record is read back; a failed read counts as not claimed, and the lease stays.
ClaimLease(a) ==
  /\ On(a, "claim") \/ On(a, "reclaim")
  /\ \/ /\ lease = a
        /\ won' = [won EXCEPT ![a] = TRUE]
        /\ Move(a, IF at[a] = "claim" THEN "unstage" ELSE "unlockRecovery")
     \/ /\ Move(a, IF at[a] = "claim" THEN "inspect" ELSE "unlockRecovery")
        /\ UNCHANGED won
  /\ UNCHANGED <<lease, recoverLock, staging, alive, existing>>

Inspect(a) ==
  /\ On(a, "inspect")
  /\ \/ /\ lease # Free /\ Releasable(a, lease)
        /\ existing' = [existing EXCEPT ![a] = lease]
        /\ Move(a, "lockRecovery")
     \/ Move(a, "unstage") /\ UNCHANGED existing
  /\ UNCHANGED <<lease, recoverLock, staging, alive, won>>

\* Mutant of LockRecovery: recoveries do not exclude each other.
SkipRecoveryLock(a) ==
  /\ On(a, "lockRecovery")
  /\ recoverLock' = a /\ Move(a, "recheck")
  /\ UNCHANGED <<lease, staging, alive, won, existing>>

LockRecovery(a) ==
  /\ On(a, "lockRecovery")
  /\ \/ recoverLock = Free /\ recoverLock' = a /\ Move(a, "recheck")
     \/ Move(a, "unstage") /\ UNCHANGED recoverLock
  /\ UNCHANGED <<lease, staging, alive, won, existing>>

\* Mutant of Recheck: the record is not read again.
TrustExisting(a) ==
  /\ On(a, "recheck")
  /\ Move(a, "remove")
  /\ UNCHANGED <<lease, recoverLock, staging, alive, won, existing>>

Recheck(a) ==
  /\ On(a, "recheck")
  /\ \/ /\ lease # Free /\ lease = existing[a] /\ Releasable(a, lease)
        /\ Move(a, "remove")
     \/ Move(a, "unlockRecovery")
  /\ UNCHANGED <<lease, recoverLock, staging, alive, won, existing>>

\* remove(leasePath), whatever is there by now.
RemoveDead(a) ==
  /\ On(a, "remove")
  /\ \/ lease # Free /\ lease' = Free /\ Move(a, "relink")
     \/ Move(a, "unlockRecovery") /\ UNCHANGED lease
  /\ UNCHANGED <<recoverLock, staging, alive, won, existing>>

\* The ensuring of withRecoveryLock; the removal itself may fail.
UnlockRecovery(a) ==
  /\ On(a, "unlockRecovery")
  /\ recoverLock' = Free \/ UNCHANGED recoverLock
  /\ Move(a, "unstage")
  /\ UNCHANGED <<lease, staging, alive, won, existing>>

DropStaging(a) ==
  /\ On(a, "unstage")
  /\ staging' = staging \ {a} \/ UNCHANGED staging
  /\ Move(a, IF won[a] THEN "held" ELSE "over")
  /\ UNCHANGED <<lease, recoverLock, alive, won, existing>>

-----------------------------------------------------------------------------
\* releaseDeletionLease: the token is read again, the removal goes by path.

ReadBack(a) ==
  /\ On(a, "held")
  /\ (lease = a /\ Move(a, "release")) \/ Move(a, "over")
  /\ UNCHANGED <<lease, recoverLock, staging, alive, won, existing>>

RemoveLease(a) ==
  /\ On(a, "release")
  /\ lease' = Free \/ UNCHANGED lease
  /\ Move(a, "over")
  /\ UNCHANGED <<recoverLock, staging, alive, won, existing>>

Exit(i) ==
  /\ i \in alive
  /\ alive' = alive \ {i}
  /\ UNCHANGED <<lease, recoverLock, staging, at, won, existing>>

LeaseNext ==
  \/ \E a \in Attempts :
       \/ WriteStaging(a) \/ LinkLease(a) \/ ClaimLease(a) \/ Inspect(a)
       \/ LockRecovery(a) \/ Recheck(a) \/ RemoveDead(a) \/ UnlockRecovery(a)
       \/ DropStaging(a) \/ ReadBack(a) \/ RemoveLease(a)
  \/ \E i \in Processes : Exit(i)

LeaseSpec == LeaseInit /\ [][LeaseNext]_leaseVars

-----------------------------------------------------------------------------
\* The types; a recovery has a record in mind.
LeaseTypeOK ==
  /\ lease \in Attempts \cup {Free}
  /\ recoverLock \in Attempts \cup {Free}
  /\ staging \subseteq Attempts
  /\ alive \subseteq Processes
  /\ at \in [Attempts -> LeaseSteps]
  /\ won \in [Attempts -> BOOLEAN]
  /\ existing \in [Attempts -> Attempts \cup {Free}]

\* Attempt a was told that the lease is its own, and has not given it back.
Holding(a) == Live(a) /\ won[a] /\ at[a] # "over"

\* The comment's two believed holders: never, however recoveries and deaths interleave.
OneHolder == \A a, b \in Attempts : Holding(a) /\ Holding(b) => a = b

\* Only its own attempt takes away the lease of a living process.
LosesOwnOnly == \A a \in Attempts : lease = a /\ lease' # a /\ Live(a) => On(a, "release")

LiveLeaseKept == [][LosesOwnOnly]_leaseVars
=============================================================================
