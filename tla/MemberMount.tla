---------------------------- MODULE MemberMount ----------------------------
(***************************************************************************)
(* A member of a composed workspace (megarepo, member-mount-cp-a.ts): a     *)
(* protected copy of an immutable source under repos/, published by a move, *)
(* advanced by an exchange of two directories, and taken down on request.  *)
(* A transaction file binds both paths and both identities; recovery looks  *)
(* at the two directories and rolls back or forward.                       *)
(*                                                                         *)
(* One action is one change of the file system with the checks the code    *)
(* makes right before it.  One process at a time works on a mount (the     *)
(* workspace update lock); its call may end, with an error or a death, at  *)
(* any point.  Metadata stand for the source they describe.                *)
(***************************************************************************)
CONSTANTS
  Sources,     \* what a member can be locked to: commit, capabilities, overlays
  MountInodes, \* bound: the directories created, by identity
  TheirInodes, \* bound: the directories of somebody else that a copy fills, by identity
  Absent,      \* no directory, no metadata, no transaction
  Foreign,     \* what somebody else put there, whatever has been written into it
  Linked,      \* the legacy mount: a symlink to the source
  Partial,     \* a tree that is being copied, protected or deleted
  Darwin       \* TRUE: roots must be writable to be moved

ASSUME MountAssumption ==
  /\ Sources \cap {Absent, Linked, Partial} = {}
  /\ Absent # Linked /\ Absent # Partial /\ Linked # Partial
  /\ Absent \notin MountInodes \cup TheirInodes /\ MountInodes \cap TheirInodes = {}
  /\ Darwin \in BOOLEAN

\* A path of the protocol that exists.  Its identity is the inode; open says that the
\* root was made writable for a move and has not been protected again.
Tree == [ino : MountInodes \cup TheirInodes, content : Sources \cup {Linked, Partial}, open : BOOLEAN]

OldIdentity == [ino : MountInodes \cup TheirInodes, content : Sources \cup {Linked}]

\* The transaction.  Its operation follows from the old identity.
Transaction == [old : OldIdentity \cup {Absent}, candidate : MountInodes \cup {Absent},
                new : Sources \cup {Absent}]

ASSUME SpotAssumption ==
  /\ Absent \notin Tree /\ Foreign \notin Tree /\ Absent # Foreign
  /\ Absent \notin Transaction /\ Absent \notin OldIdentity

Spot == Tree \cup {Absent, Foreign}

VARIABLES
  mount,      \* the destination under repos/
  staged,     \* the stage of the transaction, next to it
  recorded,   \* the owned metadata of the member
  intent,     \* the transaction file
  inodes,     \* identities in use or used before
  point,       \* where the call at work is
  plan,       \* its transaction
  rest,       \* what it has seen at the stage that is to be deleted
  recovering  \* it is a recovery

mountVars == <<mount, staged, recorded, intent, inodes, point, plan, rest, recovering>>

MountSteps == {"idle", "intent", "mkdir", "identify", "copy", "check", "open", "move", "close",
               "verify", "record", "delete", "discard", "finish", "unmount", "forget",
               "observe", "reobserve"}

MountInit ==
  /\ \/ mount = Absent /\ inodes = {}
     \/ \E i \in MountInodes :
          mount = [ino |-> i, content |-> Linked, open |-> FALSE] /\ inodes = {i}
  /\ staged = Absent /\ recorded = Absent /\ intent = Absent
  /\ point = "idle" /\ plan = Absent /\ rest = "Missing" /\ recovering = FALSE

First(r) == r.old = Absent
Conversion(r) == r.old # Absent /\ r.old.content = Linked

AtStep(l) == point = l
GoTo(l) == point' = l /\ UNCHANGED <<plan, rest, recovering>>

\* The call returns or ends; it leaves nothing but files.
Return == point' = "idle" /\ plan' = Absent /\ rest' = "Missing" /\ recovering' = FALSE

\* The R6 scan of a protected mount finds what the metadata say.
Whole(d, ino, content) == d \in Tree /\ d.ino = ino /\ d.content = content /\ ~ d.open

Movable(d) == IF d \in Tree /\ d.content # Linked THEN [d EXCEPT !.open = TRUE] ELSE d
Reprotected(d) == IF d \in Tree THEN [d EXCEPT !.open = FALSE] ELSE d

-----------------------------------------------------------------------------
\* materializeCpAMemberMount: transaction and candidate.

\* classifyDestination: a directory has to be the one the metadata describe.
OwnedMount == mount \in Tree /\ recorded # Absent /\ Whole(mount, mount.ino, recorded)
LegacyMount == mount \in Tree /\ mount.content = Linked

PlanMount(s) ==
  /\ AtStep("idle") /\ intent = Absent
  /\ \/ mount = Absent \/ LegacyMount
     \/ OwnedMount /\ s # recorded
  /\ plan' = [old |-> IF mount = Absent THEN Absent
                      ELSE [ino |-> mount.ino, content |-> mount.content],
              candidate |-> Absent, new |-> s]
  /\ point' = "intent"
  /\ UNCHANGED <<mount, staged, recorded, intent, inodes, rest, recovering>>

\* writeExclusiveTransaction links a complete file: it is there whole or not at all.
WriteTransaction ==
  /\ AtStep("intent") /\ intent = Absent
  /\ intent' = plan
  /\ GoTo("mkdir")
  /\ UNCHANGED <<mount, staged, recorded, inodes>>

MakeCandidate(i) ==
  /\ AtStep("mkdir") /\ staged = Absent /\ i \notin inodes
  /\ staged' = [ino |-> i, content |-> Partial, open |-> FALSE]
  /\ inodes' = inodes \cup {i}
  /\ plan' = [plan EXCEPT !.candidate = i]
  /\ point' = "identify"
  /\ UNCHANGED <<mount, recorded, intent, rest, recovering>>

\* updatePhase; an update that fails may have replaced the file, and takes the
\* candidate with it.
RecordCandidate ==
  /\ AtStep("identify")
  /\ \/ intent' = plan /\ GoTo("copy")
     \/ intent' \in {intent, plan} /\ GoTo("discard")
  /\ UNCHANGED <<mount, staged, recorded, inodes>>

\* cp -a, the capabilities replaced and checked, protectTree, the scan of the result, all
\* of whatever is at the stage: a directory of somebody else that was empty ends up as a
\* whole tree too, under an identity of its own.  A failure of any of them, or a source
\* that changes meanwhile, ends in the clean-up.
Materialize ==
  /\ AtStep("copy")
  /\ \/ /\ staged \in Tree
        /\ staged' = [staged EXCEPT !.content = plan.new]
        /\ GoTo("check") /\ UNCHANGED inodes
     \/ /\ staged = Foreign
        /\ \E i \in TheirInodes \ inodes :
             /\ staged' = [ino |-> i, content |-> plan.new, open |-> FALSE]
             /\ inodes' = inodes \cup {i}
        /\ GoTo("check")
     \/ GoTo("discard") /\ UNCHANGED <<staged, inodes>>
  /\ UNCHANGED <<mount, recorded, intent>>

-----------------------------------------------------------------------------
\* The move.

\* Only a first publication looks at the destination again.
CheckVacant ==
  /\ AtStep("check")
  /\ First(plan) => mount = Absent
  /\ GoTo("open")
  /\ UNCHANGED <<mount, staged, recorded, intent, inodes>>

\* withDarwinMovableProtectedRoots; when a chmod fails, what was opened may stay open.
OpenRoot(s, d) ==
  /\ AtStep("open")
  /\ Darwin /\ s => staged \in Tree /\ staged.ino = plan.candidate
  /\ Darwin /\ d => First(plan) \/ Conversion(plan) \/ (mount \in Tree /\ mount.ino = plan.old.ino)
  /\ staged' = IF Darwin /\ s THEN Movable(staged) ELSE staged
  /\ mount' = IF Darwin /\ d THEN Movable(mount) ELSE mount
  /\ IF s /\ d THEN GoTo("move") ELSE Return
  /\ UNCHANGED <<recorded, intent, inodes>>

\* mv --no-clobber for a first publication, else mv --exchange.  The roots are closed
\* after a failure too, and the look that follows finds it.
MoveMount ==
  /\ AtStep("move")
  /\ \/ /\ staged # Absent /\ (mount = Absent <=> First(plan))
        /\ mount' = staged /\ staged' = mount
     \/ UNCHANGED <<mount, staged>>
  /\ GoTo("close")
  /\ UNCHANGED <<recorded, intent, inodes>>

\* A recovery looks at both paths of an exchange afresh.
NextLook == IF recovering /\ ~ First(plan) THEN "reobserve" ELSE "verify"

CloseRoot(s, d) ==
  /\ AtStep("close")
  /\ staged' = IF Darwin /\ s THEN Reprotected(staged) ELSE staged
  /\ mount' = IF Darwin /\ d THEN Reprotected(mount) ELSE mount
  /\ IF s /\ d THEN GoTo(NextLook) ELSE Return
  /\ UNCHANGED <<recorded, intent, inodes>>

\* The candidate is in place, or the old mount at the stage (assertOldAtStage).
VerifyMove ==
  /\ AtStep("verify")
  /\ IF First(plan)
     THEN staged = Absent /\ mount \in Tree /\ mount.ino = plan.candidate
     ELSE Whole(staged, plan.old.ino, plan.old.content)
  /\ rest' = IF First(plan) THEN "Missing" ELSE "Old"
  /\ point' = "record"
  /\ UNCHANGED <<mount, staged, recorded, intent, inodes, plan, recovering>>

\* writeOwnedCpAMountMetadata is atomic.
WriteMetadata ==
  /\ AtStep("record")
  /\ recorded' = plan.new
  /\ GoTo(IF rest = "Missing" THEN "finish" ELSE "delete")
  /\ UNCHANGED <<mount, staged, intent, inodes>>

-----------------------------------------------------------------------------
\* Deletion.

\* teardownBoundDirectory: the inode has to be the one meant; an interruption leaves
\* part of the tree, or all of it unprotected.
TearsDown(ino, next) ==
  /\ staged \in Tree /\ staged.ino = ino
  /\ \/ staged' = Absent /\ GoTo(next)
     \/ staged' = [staged EXCEPT !.content = Partial] /\ Return

\* deleteOldAtStage: a link, the whole old tree, or what is left of it.
DeleteOld ==
  /\ AtStep("delete")
  /\ Whole(staged, plan.old.ino, plan.old.content)
       \/ (rest = "OldPartial" /\ ~ Conversion(plan))
  /\ IF Conversion(plan) THEN staged' = Absent /\ GoTo("finish")
                         ELSE TearsDown(plan.old.ino, "finish")
  /\ UNCHANGED <<mount, recorded, intent, inodes>>

DiscardCandidate ==
  /\ AtStep("discard") /\ TearsDown(plan.candidate, "finish")
  /\ UNCHANGED <<mount, recorded, intent, inodes>>

RemoveTransaction ==
  /\ AtStep("finish")
  /\ intent' = Absent /\ Return
  /\ UNCHANGED <<mount, staged, recorded, inodes>>

-----------------------------------------------------------------------------
\* recoverCpAMemberMount.

\* restoreTransactionRootProtection; the roots that can be open are those it names.
Reprotect ==
  /\ AtStep("idle") /\ intent # Absent
  /\ mount' = IF Darwin THEN Reprotected(mount) ELSE mount
  /\ staged' = IF Darwin THEN Reprotected(staged) ELSE staged
  /\ plan' = intent
  /\ recovering' = TRUE
  /\ point' = "observe"
  /\ UNCHANGED <<recorded, intent, inodes, rest>>

\* observeTransactionPath.
Observed(d, r) ==
  IF d = Absent THEN "Missing"
  ELSE IF d = Foreign THEN "Other"
  ELSE IF d.ino = r.candidate
       THEN IF d.content = r.new /\ ~ d.open THEN "New" ELSE "NewPartial"
  ELSE IF r.old # Absent /\ d.ino = r.old.ino
       THEN IF d.content = r.old.content /\ ~ d.open THEN "Old" ELSE "OldPartial"
  ELSE "Other"

\* What a recovery does about (mount, stage), as observed.
Unmoved(r, m) == m = IF First(r) THEN "Missing" ELSE "Old"
BackFrom(r, m, s) == Unmoved(r, m) /\ s \in {"Missing", "NewPartial"}
OnFrom(r, m, s) == Unmoved(r, m) /\ s = "New"

\* Mutant of ForthFrom: a half-deleted old mount is not expected.
WholeForthFrom(r, m, s) ==
  m = "New" /\ s \in (IF First(r) THEN {"Missing"} ELSE {"Old", "Missing"})

ForthFrom(r, m, s) ==
  m = "New" /\ s \in (IF First(r) THEN {"Missing"} ELSE {"Old", "OldPartial", "Missing"})

\* Mutant of RollBack: the transaction goes, the candidate stays.
DropTransaction ==
  /\ AtStep("observe") /\ BackFrom(plan, Observed(mount, plan), Observed(staged, plan))
  /\ GoTo("finish")
  /\ UNCHANGED <<mount, staged, recorded, intent, inodes>>

RollBack ==
  /\ AtStep("observe") /\ BackFrom(plan, Observed(mount, plan), Observed(staged, plan))
  /\ GoTo(IF staged = Absent THEN "finish" ELSE "discard")
  /\ UNCHANGED <<mount, staged, recorded, intent, inodes>>

\* Mutant of MoveAgain: an incomplete candidate is good enough.
MoveAnything ==
  /\ AtStep("observe") /\ Unmoved(plan, Observed(mount, plan))
  /\ Observed(staged, plan) \in {"New", "NewPartial"}
  /\ GoTo("open")
  /\ UNCHANGED <<mount, staged, recorded, intent, inodes>>

MoveAgain ==
  /\ AtStep("observe") /\ OnFrom(plan, Observed(mount, plan), Observed(staged, plan))
  /\ GoTo("open")
  /\ UNCHANGED <<mount, staged, recorded, intent, inodes>>

RollForward ==
  /\ AtStep("observe") \/ AtStep("reobserve")
  /\ ForthFrom(plan, Observed(mount, plan), Observed(staged, plan))
  /\ rest' = Observed(staged, plan)
  /\ point' = "record"
  /\ UNCHANGED <<mount, staged, recorded, intent, inodes, plan, recovering>>

-----------------------------------------------------------------------------
\* teardownCpAMemberMount, which keeps no transaction.

PlanTeardown ==
  /\ AtStep("idle") /\ intent = Absent /\ OwnedMount
  /\ plan' = [old |-> [ino |-> mount.ino, content |-> mount.content],
              candidate |-> Absent, new |-> Absent]
  /\ point' = "unmount"
  /\ UNCHANGED <<mount, staged, recorded, intent, inodes, rest, recovering>>

Unmount ==
  /\ AtStep("unmount") /\ Whole(mount, plan.old.ino, plan.old.content)
  /\ \/ mount' = Absent /\ GoTo("forget")
     \/ mount' = [mount EXCEPT !.content = Partial] /\ Return
  /\ UNCHANGED <<staged, recorded, intent, inodes>>

Forget ==
  /\ AtStep("forget")
  /\ recorded' = Absent /\ Return
  /\ UNCHANGED <<mount, staged, intent, inodes>>

-----------------------------------------------------------------------------
\* The call ends here, by a death, an error or a check that did not pass.
MountEnds ==
  /\ point # "idle"
  /\ Return
  /\ UNCHANGED <<mount, staged, recorded, intent, inodes>>

\* Somebody puts something of his own in the place of the mount or the stage.
Intrude ==
  /\ \/ mount # Foreign /\ mount' = Foreign /\ UNCHANGED staged
     \/ staged # Foreign /\ staged' = Foreign /\ UNCHANGED mount
  /\ UNCHANGED <<recorded, intent, inodes, point, plan, rest, recovering>>

MountNext ==
  \/ \E s \in Sources : PlanMount(s)
  \/ \E i \in MountInodes : MakeCandidate(i)
  \/ WriteTransaction \/ RecordCandidate \/ Materialize
  \/ \E s, d \in BOOLEAN : OpenRoot(s, d) \/ CloseRoot(s, d)
  \/ CheckVacant \/ MoveMount \/ VerifyMove \/ WriteMetadata
  \/ DeleteOld \/ DiscardCandidate \/ RemoveTransaction
  \/ Reprotect \/ RollBack \/ MoveAgain \/ RollForward
  \/ PlanTeardown \/ Unmount \/ Forget
  \/ MountEnds \/ Intrude

MountSpec == MountInit /\ [][MountNext]_mountVars

-----------------------------------------------------------------------------
\* The types; a call at work has a transaction.
MountTypeOK ==
  /\ mount \in Spot /\ staged \in Spot
  /\ recorded \in Sources \cup {Absent}
  /\ intent \in Transaction \cup {Absent}
  /\ inodes \subseteq MountInodes \cup TheirInodes
  /\ point \in MountSteps
  /\ IF point = "idle" THEN plan = Absent ELSE plan \in Transaction
  /\ rest \in {"Missing", "Old", "OldPartial"}
  /\ recovering \in BOOLEAN

\* Nobody has intruded, and no directory of somebody else has been filled.
Unintruded == mount # Foreign /\ staged # Foreign /\ inodes \cap TheirInodes = {}

\* Without a transaction nothing is left at the stage, and a mounted tree is the one the
\* metadata describe, protected: whatever was interrupted, no later call is refused
\* because of it.
MountSettled ==
  intent = Absent /\ Unintruded =>
    /\ staged = Absent
    /\ mount \in Tree /\ mount.content \in Sources
         => Whole(mount, mount.ino, recorded)

\* Whatever an interrupted call, recovery included, leaves, a recovery knows what to do
\* about it, once it has protected the roots; unless the candidate has not been recorded.
MountRecoverable ==
  intent # Absent /\ Unintruded /\ (staged \in Tree => intent.candidate # Absent) =>
    LET m == Observed(Reprotected(mount), intent)
        s == Observed(Reprotected(staged), intent)
    IN BackFrom(intent, m, s) \/ OnFrom(intent, m, s) \/ ForthFrom(intent, m, s)

\* Readers of a member see whole states only: what was mounted is replaced by another
\* whole tree in one step, in publication as in recovery, until it is taken down.
Complete(d) == d \in Tree /\ d.content # Partial

MountStaysWhole ==
  [][Unintruded' /\ ~ AtStep("unmount") /\ mount' # mount
       => Complete(mount')]_mountVars

\* A directory of somebody else that was filled.
Taken(d) == d \in Tree /\ d.ino \in TheirInodes

OfOthers(d) == d = Foreign \/ Taken(d)

\* What somebody else put there is never removed, and while a directory of his that was
\* filled is there, nothing is recorded and the transaction stays for somebody to look at.
\* Not so where roots need not be opened by their identity to be moved: an advance
\* exchanges it in, records it, and may delete it later as the old mount.
ForeignRefused ==
  [][/\ OfOthers(mount) \/ OfOthers(staged) => OfOthers(mount)' \/ OfOthers(staged)'
     /\ OfOthers(mount) /\ OfOthers(staged) => OfOthers(mount)' /\ OfOthers(staged)'
     /\ Taken(mount) \/ Taken(staged) => UNCHANGED <<recorded, intent>>]_mountVars
=============================================================================
