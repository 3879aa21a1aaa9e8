------------------------ MODULE WorkspaceUpdateLock ------------------------
(***************************************************************************)
(* The lock under which megarepo updates a composed workspace              *)
(* (workspace-update-lock.ts): an owner file per acquisition, hard-linked  *)
(* onto the lock path, and the recovery of a dead owner's lock by whoever  *)
(* first removes its owner file.                                           *)
(*                                                                         *)
(* One action is one call of the file system with what the code decides    *)
(* from it.  Each call of the module is made by a process of its own, and  *)
(* any process may die at any point, and any of the calls may fail.  Names *)
(* are prefixed so that a composition can extend several lock modules.     *)
(***************************************************************************)
EXTENDS Naturals

CONSTANTS
  Updates,     \* bound: acquisitions, each named by its token
  Recoveries,  \* bound: calls of recoverStaleWorkspaceUpdateLock
  Unlocked     \* no lock file

ASSUME UpdateAssumption ==
  Unlocked \notin Updates \cup Recoveries /\ Updates \cap Recoveries = {}

Calls == Updates \cup Recoveries

VARIABLES
  updateLock,  \* the owner record behind workspace-update.lock
  ownerFiles,  \* tokens whose file workspace-update.lock.owner-<token> exists
  step,        \* step[c]: where call c is
  target,      \* target[v]: the owner that recovery v read from the lock
  down         \* calls whose process has died

updateVars == <<updateLock, ownerFiles, step, target, down>>

UpdateSteps   == {"create", "link", "sync", "undo", "cleanup", "held", "unlock", "disown", "over"}
RecoverySteps == {"read", "identify", "claim", "confirm", "unlink", "over"}

UpdateInit ==
  /\ updateLock = Unlocked
  /\ ownerFiles = {}
  /\ step = [c \in Calls |-> IF c \in Updates THEN "create" ELSE "read"]
  /\ target = [v \in Recoveries |-> Unlocked]
  /\ down = {}

\* The living call c is at l.
Is(c, l) == step[c] = l /\ c \notin down
Next2(c, l) == step' = [step EXCEPT ![c] = l]

-----------------------------------------------------------------------------
\* acquireWorkspaceUpdateLock.

\* open(ownerPath, 'wx'); a failed write removes the file again.
CreateOwner(u) ==
  /\ Is(u, "create")
  /\ \/ ownerFiles' = ownerFiles \cup {u} /\ (Next2(u, "link") \/ Next2(u, "cleanup"))
     \/ Next2(u, "over") /\ UNCHANGED ownerFiles
  /\ UNCHANGED <<updateLock, target, down>>

\* Mutant of LinkLock: the owner file is renamed onto the lock path.
RenameLock(u) ==
  /\ Is(u, "link")
  /\ updateLock' = u /\ Next2(u, "sync")
  /\ UNCHANGED <<ownerFiles, target, down>>

\* link(2) fails if the lock exists.
LinkLock(u) ==
  /\ Is(u, "link")
  /\ \/ updateLock = Unlocked /\ updateLock' = u /\ Next2(u, "sync")
     \/ Next2(u, "cleanup") /\ UNCHANGED updateLock
  /\ UNCHANGED <<ownerFiles, target, down>>

SyncLock(u) ==
  /\ Is(u, "sync")
  /\ Next2(u, "held") \/ Next2(u, "undo")
  /\ UNCHANGED <<updateLock, ownerFiles, target, down>>

\* The clean-up of a failed acquisition unlinks by path, and goes on if that fails.
UndoLink(u) ==
  /\ Is(u, "undo")
  /\ updateLock' = Unlocked \/ UNCHANGED updateLock
  /\ Next2(u, "cleanup")
  /\ UNCHANGED <<ownerFiles, target, down>>

CleanUp(u) ==
  /\ Is(u, "cleanup")
  /\ ownerFiles' = ownerFiles \ {u} \/ UNCHANGED ownerFiles
  /\ Next2(u, "over")
  /\ UNCHANGED <<updateLock, target, down>>

-----------------------------------------------------------------------------
\* releaseWorkspaceUpdateLock: the checks, then unlink by path.

CheckOwnership(u) ==
  /\ Is(u, "held")
  /\ (updateLock = u /\ u \in ownerFiles /\ Next2(u, "unlock")) \/ Next2(u, "over")
  /\ UNCHANGED <<updateLock, ownerFiles, target, down>>

Unlock(u) ==
  /\ Is(u, "unlock")
  /\ \/ updateLock' = Unlocked /\ Next2(u, "disown")
     \/ Next2(u, "over") /\ UNCHANGED updateLock
  /\ UNCHANGED <<ownerFiles, target, down>>

Disown(u) ==
  /\ Is(u, "disown")
  /\ ownerFiles' = ownerFiles \ {u} \/ UNCHANGED ownerFiles
  /\ Next2(u, "over")
  /\ UNCHANGED <<updateLock, target, down>>

-----------------------------------------------------------------------------
\* recoverStaleWorkspaceUpdateLock.

\* Mutant of ReadOwner: a missing lock is read as a record.
ReadAnything(v) ==
  /\ Is(v, "read")
  /\ target' = [target EXCEPT ![v] = updateLock] /\ Next2(v, "identify")
  /\ UNCHANGED <<updateLock, ownerFiles, down>>

\* Reads the record and asks whether its process is dead; a wrong token, a missing
\* lock and a living owner are refused.
ReadOwner(v) ==
  /\ Is(v, "read")
  /\ \/ /\ updateLock \in down
        /\ target' = [target EXCEPT ![v] = updateLock] /\ Next2(v, "identify")
     \/ Next2(v, "over") /\ UNCHANGED target
  /\ UNCHANGED <<updateLock, ownerFiles, down>>

\* Both links are the same file: a token is never used twice.
Identify(v) ==
  /\ Is(v, "identify")
  /\ \/ updateLock = target[v] /\ target[v] \in ownerFiles /\ Next2(v, "claim")
     \/ Next2(v, "over")
  /\ UNCHANGED <<updateLock, ownerFiles, target, down>>

\* Mutant of ClaimOwner: a missing owner file is no obstacle.
ForceClaim(v) ==
  /\ Is(v, "claim")
  /\ ownerFiles' = ownerFiles \ {target[v]} /\ Next2(v, "confirm")
  /\ UNCHANGED <<updateLock, target, down>>

\* unlink(ownerPath) succeeds for one recovery only.
ClaimOwner(v) ==
  /\ Is(v, "claim")
  /\ \/ /\ target[v] \in ownerFiles
        /\ ownerFiles' = ownerFiles \ {target[v]} /\ Next2(v, "confirm")
     \/ Next2(v, "over") /\ UNCHANGED ownerFiles
  /\ UNCHANGED <<updateLock, target, down>>

Confirm(v) ==
  /\ Is(v, "confirm")
  /\ (updateLock = target[v] /\ Next2(v, "unlink")) \/ Next2(v, "over")
  /\ UNCHANGED <<updateLock, ownerFiles, target, down>>

UnlinkStale(v) ==
  /\ Is(v, "unlink")
  /\ updateLock' = Unlocked \/ UNCHANGED updateLock
  /\ Next2(v, "over")
  /\ UNCHANGED <<ownerFiles, target, down>>

Die(c) ==
  /\ c \notin down
  /\ down' = down \cup {c}
  /\ UNCHANGED <<updateLock, ownerFiles, step, target>>

UpdateNext ==
  \/ \E u \in Updates :
       \/ CreateOwner(u) \/ LinkLock(u) \/ SyncLock(u) \/ UndoLink(u) \/ CleanUp(u)
       \/ CheckOwnership(u) \/ Unlock(u) \/ Disown(u)
  \/ \E v \in Recoveries :
       ReadOwner(v) \/ Identify(v) \/ ClaimOwner(v) \/ Confirm(v) \/ UnlinkStale(v)
  \/ \E c \in Calls : Die(c)

UpdateSpec == UpdateInit /\ [][UpdateNext]_updateVars

-----------------------------------------------------------------------------
\* The types; a recovery that has read the lock has an owner in mind.
UpdateTypeOK ==
  /\ updateLock \in Updates \cup {Unlocked}
  /\ ownerFiles \subseteq Updates
  /\ step \in [Calls -> UpdateSteps \cup RecoverySteps]
  /\ \A u \in Updates : step[u] \in UpdateSteps
  /\ \A v \in Recoveries : step[v] \in RecoverySteps
  /\ target \in [Recoveries -> Updates \cup {Unlocked}]
  /\ \A v \in Recoveries : step[v] \notin {"read", "over"} => target[v] \in Updates
  /\ down \subseteq Calls

\* From the link to the unlink the living owner relies on the lock.
Relies(u) == u \notin down /\ step[u] \in {"sync", "undo", "held", "unlock"}

\* At most one living process updates the workspace.
OneUpdater == \A u, w \in Updates : Relies(u) /\ Relies(w) => u = w

\* Every unlink of the lock by path hits the lock it is meant for, although time has
\* passed since the last look at it: the dead owner's, or the process's own.
UnlinksItsTarget ==
  /\ \A v \in Recoveries : Is(v, "unlink") => updateLock = target[v] /\ target[v] \in down
  /\ \A u \in Updates : Is(u, "unlock") \/ Is(u, "undo") => updateLock = u
=============================================================================
