------------------------- MODULE MemberMountProofs -------------------------
(***************************************************************************)
(* A member mount survives every interruption, for any number of sources,  *)
(* directories, failures and recoveries, with and without movable roots.   *)
(*                                                                         *)
(* The argument: as long as nobody intrudes, the two directories are in    *)
(* one of three arrangements of the transaction (MountBegun, MountSwapped, *)
(* MountWritten), and the point of the call at work says in which.         *)
(***************************************************************************)
EXTENDS MemberMount, TLAPS

\* d is what the transaction replaces, what it publishes, what it is still making, or
\* what is left to delete.
OldTree(r, d) ==
  IF First(r) THEN d = Absent
              ELSE d \in Tree /\ d.ino = r.old.ino /\ d.content = r.old.content
NewTree(r, d) == d \in Tree /\ d.ino = r.candidate /\ d.content = r.new
Unfinished(r, d) ==
  d = Absent \/ (d \in Tree /\ d.content = Partial /\ r.candidate \in {Absent, d.ino})
Remains(r, d) ==
  \/ d = Absent
  \/ ~ First(r) /\ ~ Conversion(r) /\ d \in Tree /\ d.ino = r.old.ino /\ d.content = Partial

\* The metadata describe what the transaction replaces.
Described(r) == ~ First(r) /\ ~ Conversion(r) => recorded = r.old.content

\* Nothing moved; nothing moved and the candidate is whole; the two directories changed
\* places; and the metadata say so.
MountBegun(r) ==
  Described(r) /\ OldTree(r, mount) /\ (Unfinished(r, staged) \/ NewTree(r, staged))
MountReady(r) == Described(r) /\ OldTree(r, mount) /\ NewTree(r, staged)
MountSwapped(r) == NewTree(r, mount) /\ OldTree(r, staged)
MountWritten(r) ==
  recorded = r.new /\ NewTree(r, mount) /\ (Remains(r, staged) \/ OldTree(r, staged))

MountAtRest ==
  /\ staged = Absent
  /\ mount \in Tree /\ mount.content \in Sources => mount.content = recorded

BothShut == (mount \in Tree => ~ mount.open) /\ (staged \in Tree => ~ staged.open)

MountWellFormed(r) ==
  r.old # Absent => r.old.ino # r.candidate /\ r.old.ino \in inodes

\* The transaction file and the transaction of the call at work are one, but for the
\* steps before it is written, and for a candidate that is not recorded.
Unrecorded == intent = [plan EXCEPT !.candidate = Absent]

FileInv ==
  /\ mount \in Tree => mount.ino \in inodes
  /\ staged \in Tree => staged.ino \in inodes
  /\ point # "idle" => MountWellFormed(plan)
  /\ intent # Absent => MountWellFormed(intent) /\ intent.new \in Sources
  /\ point \in {"intent", "unmount", "forget"} => intent = Absent
  /\ point = "intent" => plan.new \in Sources
  /\ point \in {"intent", "mkdir"} => plan.candidate = Absent
  /\ point \notin {"idle", "intent", "unmount", "forget"} =>
       /\ intent # Absent
       /\ \/ intent = plan /\ point # "identify"
          \/ Unrecorded /\ point \in {"identify", "discard", "finish"}

\* What rest says is at the stage.
RestInv ==
  /\ rest = "Missing" => staged = Absent
  /\ rest = "Old" => ~ First(plan) /\ OldTree(plan, staged)
  /\ rest = "OldPartial" => ~ First(plan) /\ staged # Absent /\ Remains(plan, staged)

\* Where the directories are at each point.
PointInv ==
  /\ \/ BothShut
     \/ Darwin /\ (point \in {"move", "close"} \/ (point = "idle" /\ intent # Absent))
  /\ point = "idle" =>
       IF intent = Absent THEN MountAtRest
                          ELSE MountBegun(intent) \/ MountSwapped(intent) \/ MountWritten(intent)
  /\ point = "intent" => MountAtRest /\ Described(plan) /\ OldTree(plan, mount)
  /\ point = "mkdir" => MountBegun(plan) /\ staged = Absent
  /\ point \in {"identify", "copy", "discard"} =>
       /\ Described(plan) /\ OldTree(plan, mount)
       /\ staged \in Tree /\ staged.content = Partial /\ staged.ino = plan.candidate
  /\ point \in {"check", "open", "move"} => MountReady(plan)
  /\ point \in {"close", "verify", "reobserve"} => MountReady(plan) \/ MountSwapped(plan)
  /\ point = "observe" => MountBegun(plan) \/ MountSwapped(plan) \/ MountWritten(plan)
  /\ point = "record" => (MountSwapped(plan) \/ MountWritten(plan)) /\ RestInv
  /\ point = "delete" => MountWritten(plan) /\ RestInv /\ rest # "Missing"
  /\ point = "finish" => staged = Absent /\ (MountBegun(plan) \/ (MountWritten(plan) /\ intent = plan))
  /\ point \in {"unmount", "forget"} => MountAtRest
  /\ point = "forget" => mount = Absent

MountIInv == MountTypeOK /\ FileInv /\ (Unintruded => PointInv)

-----------------------------------------------------------------------------
\* Opening and protecting a root changes neither its identity nor its content.
LEMMA Roots ==
  ASSUME NEW d \in Spot
  PROVE  /\ Movable(d) \in Spot /\ Reprotected(d) \in Spot
         /\ d \in Tree =>
              /\ Movable(d) \in Tree /\ Movable(d).ino = d.ino /\ Movable(d).content = d.content
              /\ Reprotected(d) \in Tree /\ Reprotected(d).ino = d.ino
              /\ Reprotected(d).content = d.content /\ ~ Reprotected(d).open
         /\ d \notin Tree => Movable(d) = d /\ Reprotected(d) = d
<1>1. CASE d \in Tree
  BY <1>1 DEF Movable, Reprotected, Spot, Tree
<1>2. CASE d \notin Tree
  BY <1>2 DEF Movable, Reprotected
<1> QED BY <1>1, <1>2

LEMMA MountTypeStep ==
  ASSUME MountTypeOK, FileInv, [MountNext]_mountVars
  PROVE  MountTypeOK'
<1> USE MountAssumption, SpotAssumption DEF MountTypeOK, AtStep, GoTo, Return, MountSteps
<1>1. ASSUME NEW s \in Sources, PlanMount(s) PROVE MountTypeOK'
  <2>1. mount = Absent \/ [ino |-> mount.ino, content |-> mount.content] \in OldIdentity
    BY <1>1 DEF PlanMount, OwnedMount, LegacyMount, Whole, Tree, OldIdentity
  <2>2. plan' \in Transaction
    BY <1>1, <2>1 DEF PlanMount, Transaction
  <2> QED BY <1>1, <2>2 DEF PlanMount
<1>2. WriteTransaction => MountTypeOK'
  BY DEF WriteTransaction
<1>3. ASSUME NEW i \in MountInodes, MakeCandidate(i) PROVE MountTypeOK'
  <2>1. staged' \in Tree
    BY <1>3 DEF MakeCandidate, Tree
  <2>2. plan' \in Transaction
    BY <1>3 DEF MakeCandidate, Transaction
  <2> QED BY <1>3, <2>1, <2>2 DEF MakeCandidate, Spot
<1>4. RecordCandidate => MountTypeOK'
  BY DEF RecordCandidate
<1>5. Materialize => MountTypeOK'
  <2>1. ASSUME Materialize PROVE plan.new \in Sources
    BY <2>1 DEF Materialize, FileInv
  <2>2. ASSUME Materialize, staged \in Tree PROVE staged' \in Spot
    <3>1. [staged EXCEPT !.content = plan.new] \in Tree
      BY <2>1, <2>2 DEF Tree
    <3> QED BY <2>2, <3>1 DEF Materialize, Spot
  <2>3. ASSUME Materialize, staged \notin Tree PROVE staged' \in Spot
    <3>1. ASSUME NEW i \in TheirInodes
          PROVE  [ino |-> i, content |-> plan.new, open |-> FALSE] \in Tree
      BY <2>1, <2>3 DEF Tree
    <3> QED BY <2>3, <3>1 DEF Materialize, Spot
  <2> QED BY <2>2, <2>3 DEF Materialize
<1>6. CheckVacant => MountTypeOK'
  BY DEF CheckVacant
<1>7. ASSUME NEW s \in BOOLEAN, NEW d \in BOOLEAN, OpenRoot(s, d) PROVE MountTypeOK'
  BY <1>7, Roots DEF OpenRoot
<1>8. ASSUME NEW s \in BOOLEAN, NEW d \in BOOLEAN, CloseRoot(s, d) PROVE MountTypeOK'
  BY <1>8, Roots DEF CloseRoot, NextLook
<1>9. MoveMount => MountTypeOK'
  BY DEF MoveMount
<1>10. VerifyMove => MountTypeOK'
  BY DEF VerifyMove
<1>11. WriteMetadata => MountTypeOK'
  BY DEF WriteMetadata, Transaction
<1>12. DeleteOld => MountTypeOK'
  <2>1. ASSUME staged \in Tree PROVE [staged EXCEPT !.content = Partial] \in Spot
    BY <2>1 DEF Tree, Spot
  <2> QED BY <2>1 DEF DeleteOld, TearsDown, Spot
<1>13. DiscardCandidate => MountTypeOK'
  <2>1. ASSUME staged \in Tree PROVE [staged EXCEPT !.content = Partial] \in Spot
    BY <2>1 DEF Tree, Spot
  <2> QED BY <2>1 DEF DiscardCandidate, TearsDown, Spot
<1>14. RemoveTransaction => MountTypeOK'
  BY DEF RemoveTransaction
<1>15. Reprotect => MountTypeOK'
  BY Roots DEF Reprotect
<1>16. RollBack => MountTypeOK'
  BY DEF RollBack
<1>17. MoveAgain => MountTypeOK'
  BY DEF MoveAgain
<1>18. RollForward => MountTypeOK'
  BY DEF RollForward, ForthFrom
<1>19. PlanTeardown => MountTypeOK'
  <2>1. ASSUME PlanTeardown PROVE plan' \in Transaction
    <3>1. [ino |-> mount.ino, content |-> mount.content] \in OldIdentity
      BY <2>1 DEF PlanTeardown, OwnedMount, Whole, Tree, OldIdentity
    <3> QED BY <2>1, <3>1 DEF PlanTeardown, Transaction
  <2> QED BY <2>1 DEF PlanTeardown
<1>20. Unmount => MountTypeOK'
  <2>1. ASSUME mount \in Tree PROVE [mount EXCEPT !.content = Partial] \in Spot
    BY <2>1 DEF Tree, Spot
  <2> QED BY <2>1 DEF Unmount, Whole, Spot
<1>21. Forget => MountTypeOK'
  BY DEF Forget
<1>22. MountEnds => MountTypeOK'
  BY DEF MountEnds
<1>23. Intrude => MountTypeOK'
  BY DEF Intrude, Spot
<1>24. UNCHANGED mountVars => MountTypeOK'
  BY DEF mountVars
<1> QED
  BY <1>1, <1>2, <1>3, <1>4, <1>5, <1>6, <1>7, <1>8, <1>9, <1>10, <1>11, <1>12, <1>13, <1>14,
     <1>15, <1>16, <1>17, <1>18, <1>19, <1>20, <1>21, <1>22, <1>23, <1>24 DEF MountNext

\* Every removal compares the identity of a tree, and every move exchanges the two places
\* or goes to an empty one: so what is foreign stays, until it is filled, and a state
\* nobody intruded in comes from such a state.
LEMMA ForeignStep ==
  ASSUME MountTypeOK, FileInv, MountNext
  PROVE  /\ inodes \subseteq inodes'
         /\ mount = Foreign \/ staged = Foreign =>
              \/ mount' = Foreign \/ staged' = Foreign
              \/ Materialize /\ Taken(staged)'
         /\ mount = Foreign /\ staged = Foreign =>
              mount' = Foreign /\ (staged' = Foreign \/ Taken(staged)')
         /\ Unintruded' => Unintruded
<1> DEFINE Fills == /\ Materialize /\ UNCHANGED mount /\ inodes \subseteq inodes'
                    /\ Taken(staged)' /\ inodes' \cap TheirInodes # {}
           P == /\ inodes \subseteq inodes'
                /\ mount = Foreign \/ staged = Foreign => mount' = Foreign \/ staged' = Foreign
                /\ mount = Foreign /\ staged = Foreign => mount' = Foreign /\ staged' = Foreign
<1> USE SpotAssumption DEF MountTypeOK
<1>1. ASSUME NEW s \in Sources, PlanMount(s) PROVE P
  BY <1>1 DEF PlanMount
<1>2. WriteTransaction \/ RecordCandidate \/ CheckVacant \/ VerifyMove \/ WriteMetadata
        \/ RemoveTransaction \/ RollBack \/ MoveAgain \/ RollForward \/ PlanTeardown
        \/ Forget \/ MountEnds => P
  BY DEF WriteTransaction, RecordCandidate, CheckVacant, VerifyMove, WriteMetadata,
         RemoveTransaction, RollBack, MoveAgain, RollForward, PlanTeardown, Forget, MountEnds
<1>3. ASSUME NEW i \in MountInodes, MakeCandidate(i) PROVE P
  BY <1>3 DEF MakeCandidate
<1>4. ASSUME Materialize PROVE P \/ Fills
  <2>1. CASE staged \in Tree \/ UNCHANGED <<staged, inodes>>
    BY <1>4, <2>1 DEF Materialize
  <2>2. CASE staged \notin Tree /\ ~ UNCHANGED <<staged, inodes>>
    <3>1. PICK i \in TheirInodes \ inodes :
             /\ staged' = [ino |-> i, content |-> plan.new, open |-> FALSE]
             /\ inodes' = inodes \cup {i}
      BY <1>4, <2>2 DEF Materialize
    <3>2. plan.new \in Sources
      BY <1>4, MountAssumption DEF Materialize, FileInv, AtStep
    <3>3. staged' \in Tree
      BY <3>1, <3>2 DEF Tree
    <3> QED BY <1>4, <3>1, <3>3 DEF Materialize, Taken
  <2> QED BY <2>1, <2>2
<1>5. ASSUME NEW s \in BOOLEAN, NEW d \in BOOLEAN, OpenRoot(s, d) \/ CloseRoot(s, d) PROVE P
  BY <1>5, Roots DEF OpenRoot, CloseRoot
<1>6. MoveMount => P
  BY DEF MoveMount
<1>7. DeleteOld => P
  BY DEF DeleteOld, TearsDown, Whole, Conversion
<1>8. DiscardCandidate => P
  BY DEF DiscardCandidate, TearsDown
<1>9. Reprotect => P
  BY Roots DEF Reprotect
<1>10. Unmount => P
  BY DEF Unmount, Whole
<1>11. Intrude => P
  BY DEF Intrude
<1>12. P \/ Fills
  BY <1>1, <1>2, <1>3, <1>4, <1>5, <1>6, <1>7, <1>8, <1>9, <1>10, <1>11 DEF MountNext
<1>13. Unintruded' => Unintruded
  BY <1>12 DEF Unintruded
<1> QED BY <1>12, <1>13

-----------------------------------------------------------------------------
\* The transaction file and the call's own transaction.
LEMMA FileStep ==
  ASSUME MountTypeOK, FileInv, [MountNext]_mountVars
  PROVE  FileInv'
<1> USE MountAssumption, SpotAssumption DEF MountTypeOK, FileInv, MountWellFormed, AtStep, GoTo, Return,
        Unrecorded
<1>1. ASSUME NEW s \in Sources, PlanMount(s) PROVE FileInv'
  <2>1. mount # Absent => mount \in Tree
    BY <1>1 DEF PlanMount, OwnedMount, LegacyMount
  <2>2. MountWellFormed(plan')
    BY <1>1, <2>1 DEF PlanMount, Tree
  <2> QED BY <1>1, <2>2 DEF PlanMount
<1>2. WriteTransaction => FileInv'
  BY DEF WriteTransaction
<1>3. ASSUME NEW i \in MountInodes, MakeCandidate(i) PROVE FileInv'
  <2>1. intent = plan /\ plan.candidate = Absent /\ plan \in Transaction
    BY <1>3 DEF MakeCandidate
  <2>2. plan' = [plan EXCEPT !.candidate = i] /\ plan'.old = plan.old /\ plan'.candidate = i
    BY <1>3, <2>1 DEF MakeCandidate, Transaction
  <2>3. intent' = [plan' EXCEPT !.candidate = Absent]
    BY <1>3, <2>1, <2>2 DEF MakeCandidate, Transaction
  <2>4. MountWellFormed(plan)' /\ MountWellFormed(intent)'
    BY <1>3, <2>1, <2>2 DEF MakeCandidate
  <2>5. (staged \in Tree => staged.ino \in inodes)' /\ (mount \in Tree => mount.ino \in inodes)'
    BY <1>3 DEF MakeCandidate, Tree
  <2> QED BY <1>3, <2>1, <2>3, <2>4, <2>5 DEF MakeCandidate
<1>4. RecordCandidate => FileInv'
  <2>1. ASSUME RecordCandidate PROVE plan.new \in Sources
    BY <2>1 DEF RecordCandidate, Transaction
  <2> QED BY <2>1 DEF RecordCandidate
<1>5. Materialize => FileInv'
  <2>1. ASSUME Materialize PROVE (staged \in Tree => staged.ino \in inodes)'
    BY <2>1 DEF Materialize, Tree
  <2> QED BY <2>1 DEF Materialize
<1>6. CheckVacant => FileInv'
  BY DEF CheckVacant
<1>7. ASSUME NEW s \in BOOLEAN, NEW d \in BOOLEAN, OpenRoot(s, d) PROVE FileInv'
  <2>1. staged' \in {staged, Movable(staged)} /\ mount' \in {mount, Movable(mount)}
    BY <1>7 DEF OpenRoot
  <2>2. (staged \in Tree => staged.ino \in inodes)' /\ (mount \in Tree => mount.ino \in inodes)'
    BY <1>7, <2>1, Roots DEF OpenRoot
  <2> QED BY <1>7, <2>2 DEF OpenRoot
<1>8. ASSUME NEW s \in BOOLEAN, NEW d \in BOOLEAN, CloseRoot(s, d) PROVE FileInv'
  <2>1. staged' \in {staged, Reprotected(staged)} /\ mount' \in {mount, Reprotected(mount)}
    BY <1>8 DEF CloseRoot
  <2>2. (staged \in Tree => staged.ino \in inodes)' /\ (mount \in Tree => mount.ino \in inodes)'
    BY <1>8, <2>1, Roots DEF CloseRoot
  <2> QED BY <1>8, <2>2 DEF CloseRoot, NextLook
<1>9. MoveMount => FileInv'
  BY DEF MoveMount
<1>10. VerifyMove => FileInv'
  BY DEF VerifyMove
<1>11. WriteMetadata => FileInv'
  BY DEF WriteMetadata
<1>12. DeleteOld => FileInv'
  BY DEF DeleteOld, TearsDown, Tree
<1>13. DiscardCandidate => FileInv'
  BY DEF DiscardCandidate, TearsDown, Tree
<1>14. RemoveTransaction => FileInv'
  BY DEF RemoveTransaction
<1>15. Reprotect => FileInv'
  BY Roots DEF Reprotect
<1>16. RollBack => FileInv'
  BY DEF RollBack
<1>17. MoveAgain => FileInv'
  BY DEF MoveAgain
<1>18. RollForward => FileInv'
  BY DEF RollForward
<1>19. PlanTeardown => FileInv'
  <2>1. ASSUME PlanTeardown PROVE MountWellFormed(plan')
    BY <2>1 DEF PlanTeardown, OwnedMount, Tree
  <2> QED BY <2>1 DEF PlanTeardown
<1>20. Unmount => FileInv'
  BY DEF Unmount, Whole, Tree
<1>21. Forget => FileInv'
  BY DEF Forget
<1>22. MountEnds => FileInv'
  BY DEF MountEnds
<1>23. Intrude => FileInv'
  BY DEF Intrude
<1>24. UNCHANGED mountVars => FileInv'
  BY DEF mountVars
<1> QED
  BY <1>1, <1>2, <1>3, <1>4, <1>5, <1>6, <1>7, <1>8, <1>9, <1>10, <1>11, <1>12, <1>13, <1>14,
     <1>15, <1>16, <1>17, <1>18, <1>19, <1>20, <1>21, <1>22, <1>23, <1>24 DEF MountNext

-----------------------------------------------------------------------------
\* What a path is to a transaction depends on its identity and content only.
SameTree(d, e) == IF d \in Tree THEN e \in Tree /\ e.ino = d.ino /\ e.content = d.content
                                ELSE e = d

LEMMA SameTreeKeeps ==
  ASSUME NEW d \in Spot, NEW e \in Spot, SameTree(d, e), NEW r
  PROVE  /\ OldTree(r, e) = OldTree(r, d) /\ NewTree(r, e) = NewTree(r, d)
         /\ Unfinished(r, e) = Unfinished(r, d) /\ Remains(r, e) = Remains(r, d)
<1> USE SpotAssumption
<1>1. CASE d \in Tree
  BY <1>1 DEF SameTree, OldTree, NewTree, Unfinished, Remains
<1>2. CASE d \notin Tree
  BY <1>2 DEF SameTree
<1> QED BY <1>1, <1>2

\* What recovery sees of a protected path, and what that means.
LEMMA MountSeenMeans ==
  ASSUME NEW r \in Transaction, MountWellFormed(r), NEW d \in Spot, d # Foreign,
         d \in Tree => ~ d.open
  PROVE  /\ Observed(d, r) = "Missing" <=> d = Absent
         /\ Observed(d, r) = "New" <=> NewTree(r, d)
         /\ Observed(d, r) = "NewPartial" <=>
              d \in Tree /\ d.ino = r.candidate /\ d.content # r.new
         /\ Observed(d, r) = "Old" <=> ~ First(r) /\ OldTree(r, d)
         /\ Observed(d, r) = "OldPartial" =>
              ~ First(r) /\ d \in Tree /\ d.ino = r.old.ino /\ d.content # r.old.content
         /\ ~ First(r) /\ d # Absent /\ Remains(r, d) => Observed(d, r) = "OldPartial"
<1> USE MountAssumption, SpotAssumption DEF MountWellFormed, Observed, NewTree, OldTree, First, Remains
<1>1. CASE d = Absent
  BY <1>1
<1>2. CASE d \in Tree
  <2>1. d # Absent
    BY <1>2
  <2>2. CASE r.old = Absent
    BY <1>2, <2>1, <2>2
  <2>3. CASE r.old # Absent
    <3>1. r.old.content # Partial
      BY <2>3 DEF Transaction, OldIdentity
    <3> QED BY <1>2, <2>1, <2>3, <3>1
  <2> QED BY <2>2, <2>3
<1> QED BY <1>1, <1>2 DEF Spot

\* The old and the new are never the same.
LEMMA Apart ==
  ASSUME NEW r \in Transaction, MountWellFormed(r), NEW d
  PROVE  ~ (OldTree(r, d) /\ NewTree(r, d))
BY SpotAssumption DEF MountWellFormed, OldTree, NewTree, First

LEMMA PointStep ==
  ASSUME MountTypeOK, FileInv, Unintruded, PointInv, [MountNext]_mountVars, Unintruded'
  PROVE  PointInv'
<1> USE MountAssumption, SpotAssumption DEF AtStep, GoTo, Return
<1>0. /\ mount \in Spot /\ staged \in Spot /\ mount # Foreign /\ staged # Foreign
      /\ point # "idle" => plan \in Transaction /\ MountWellFormed(plan)
      /\ intent # Absent => intent \in Transaction /\ MountWellFormed(intent)
  BY DEF MountTypeOK, FileInv, Unintruded
<1>1. ASSUME NEW s \in Sources, PlanMount(s) PROVE PointInv'
  <2>1. intent = Absent /\ MountAtRest /\ BothShut
    BY <1>1 DEF PlanMount, PointInv
  <2>2. ASSUME mount = Absent PROVE OldTree(plan', mount) /\ Described(plan')
    BY <1>1, <2>2 DEF PlanMount, OldTree, Described, First
  <2>3. ASSUME mount # Absent PROVE OldTree(plan', mount) /\ Described(plan')
    <3>1. mount \in Tree /\ (mount.content = Linked \/ mount.content = recorded)
      BY <1>1, <2>3 DEF PlanMount, OwnedMount, LegacyMount, Whole
    <3>2. plan'.old = [ino |-> mount.ino, content |-> mount.content] /\ plan'.old # Absent
      <4>1. [ino |-> mount.ino, content |-> mount.content] \in OldIdentity
        BY <3>1 DEF Tree, OldIdentity, MountTypeOK
      <4> QED BY <1>1, <2>3, <4>1 DEF PlanMount
    <3> QED BY <3>1, <3>2 DEF OldTree, Described, First, Conversion
  <2>4. (MountAtRest /\ BothShut /\ OldTree(plan, mount) /\ Described(plan))'
    BY <1>1, <2>1, <2>2, <2>3 DEF PlanMount, MountAtRest, BothShut, Described
  <2> QED BY <1>1, <2>4 DEF PlanMount, PointInv
<1>2. ASSUME WriteTransaction PROVE PointInv'
  <2>1. (MountAtRest /\ BothShut /\ OldTree(plan, mount) /\ Described(plan))'
    BY <1>2 DEF WriteTransaction, PointInv, MountAtRest, BothShut, Described
  <2>2. (MountBegun(plan) /\ staged = Absent)'
    BY <2>1 DEF MountAtRest, MountBegun, Unfinished
  <2> QED BY <1>2, <2>1, <2>2 DEF WriteTransaction, PointInv
<1>3. ASSUME NEW i \in MountInodes, MakeCandidate(i) PROVE PointInv'
  <2>1. Described(plan) /\ OldTree(plan, mount) /\ BothShut
    BY <1>3 DEF MakeCandidate, PointInv, MountBegun
  <2>2. plan'.old = plan.old /\ plan'.candidate = i
    BY <1>0, <1>3 DEF MakeCandidate, Transaction
  <2>3. (Described(plan) /\ OldTree(plan, mount))'
    BY <1>3, <2>1, <2>2 DEF MakeCandidate, Described, OldTree, First, Conversion
  <2>4. (BothShut /\ staged \in Tree /\ staged.content = Partial /\ staged.ino = plan.candidate)'
    BY <1>3, <2>1, <2>2 DEF MakeCandidate, BothShut, Tree
  <2> QED BY <1>3, <2>3, <2>4 DEF MakeCandidate, PointInv
<1>4. ASSUME RecordCandidate PROVE PointInv'
  BY <1>4 DEF RecordCandidate, PointInv, BothShut, Described
<1>5. ASSUME Materialize PROVE PointInv'
  <2>1. /\ Described(plan) /\ OldTree(plan, mount) /\ BothShut
        /\ staged \in Tree /\ staged.content = Partial /\ staged.ino = plan.candidate
    BY <1>5 DEF Materialize, PointInv
  <2>2. (BothShut /\ Described(plan) /\ OldTree(plan, mount))'
    BY <1>5, <2>1 DEF Materialize, BothShut, Described, Tree
  <2>3. CASE point' = "check"
    <3>1. plan.new \in Sources
      BY <1>5 DEF Materialize, FileInv
    <3>2. NewTree(plan, staged)'
      BY <1>5, <2>1, <2>3, <3>1 DEF Materialize, NewTree, Tree
    <3> QED BY <2>2, <2>3, <3>2 DEF PointInv, MountReady
  <2>4. CASE point' = "discard" /\ UNCHANGED staged
    BY <1>5, <2>1, <2>2, <2>4 DEF Materialize, PointInv
  <2> QED BY <1>5, <2>3, <2>4 DEF Materialize
<1>6. ASSUME CheckVacant PROVE PointInv'
  <2>1. MountReady(plan) /\ BothShut
    BY <1>6 DEF CheckVacant, PointInv
  <2>2. (MountReady(plan) /\ BothShut)'
    BY <1>6, <2>1 DEF CheckVacant, MountReady, Described, BothShut
  <2> QED BY <1>6, <2>2 DEF CheckVacant, PointInv
<1>7. ASSUME NEW s \in BOOLEAN, NEW d \in BOOLEAN, OpenRoot(s, d) PROVE PointInv'
  <2>1. MountReady(plan) /\ BothShut /\ intent = plan /\ intent # Absent
    BY <1>7 DEF OpenRoot, PointInv, FileInv
  <2>2. SameTree(staged, staged') /\ SameTree(mount, mount') /\ staged' \in Spot /\ mount' \in Spot
    BY <1>0, <1>7, Roots DEF OpenRoot, SameTree
  <2>3. /\ OldTree(intent, mount') = OldTree(intent, mount)
        /\ NewTree(intent, staged') = NewTree(intent, staged)
    BY <1>0, <2>1, <2>2, SameTreeKeeps
  <2>4. MountReady(intent)'
    BY <1>7, <2>1, <2>3 DEF OpenRoot, MountReady, Described
  <2>5. ~ Darwin => BothShut'
    BY <1>7, <2>1 DEF OpenRoot, BothShut
  <2>6. intent' # Absent /\ point' \in {"move", "idle"} /\ (Darwin \/ BothShut')
    BY <1>7, <2>1, <2>5 DEF OpenRoot
  <2>7. CASE point' = "move"
    <3>1. MountReady(plan)'
      BY <1>7, <2>1, <2>4, <2>7 DEF OpenRoot, MountReady, Described
    <3> QED BY <2>6, <2>7, <3>1 DEF PointInv
  <2>8. CASE point' = "idle"
    <3>1. MountBegun(intent)'
      BY <2>4 DEF MountReady, MountBegun
    <3> QED BY <2>6, <2>8, <3>1 DEF PointInv
  <2> QED BY <2>6, <2>7, <2>8
<1>8. ASSUME NEW s \in BOOLEAN, NEW d \in BOOLEAN, CloseRoot(s, d) PROVE PointInv'
  <2>1. (MountReady(plan) \/ MountSwapped(plan)) /\ intent = plan /\ intent # Absent
    BY <1>8 DEF CloseRoot, PointInv, FileInv
  <2>2. SameTree(staged, staged') /\ SameTree(mount, mount') /\ staged' \in Spot /\ mount' \in Spot
    BY <1>0, <1>8, Roots DEF CloseRoot, SameTree
  <2>3. OldTree(intent, mount') = OldTree(intent, mount) /\ NewTree(intent, mount') = NewTree(intent, mount)
    BY <1>0, <2>2, SameTreeKeeps
  <2>4. OldTree(intent, staged') = OldTree(intent, staged) /\ NewTree(intent, staged') = NewTree(intent, staged)
    BY <1>0, <2>2, SameTreeKeeps
  <2>5. (MountReady(intent) \/ MountSwapped(intent))'
    BY <1>8, <2>1, <2>3, <2>4 DEF CloseRoot, MountReady, MountSwapped, Described
  <2>6. ~ Darwin \/ (s /\ d) => BothShut'
    BY <1>0, <1>8, Roots DEF CloseRoot, BothShut, PointInv
  <2> QED BY <1>8, <2>1, <2>5, <2>6 DEF CloseRoot, NextLook, PointInv, MountReady, MountBegun
<1>9. ASSUME MoveMount PROVE PointInv'
  <2>1. MountReady(plan)
    BY <1>9 DEF MoveMount, PointInv
  <2>2. MountReady(plan)' \/ MountSwapped(plan)'
    BY <1>9, <2>1 DEF MoveMount, MountReady, MountSwapped, Described
  <2>3. ~ Darwin => BothShut'
    BY <1>9 DEF MoveMount, BothShut, PointInv
  <2> QED BY <1>9, <2>2, <2>3 DEF MoveMount, PointInv
<1>10. ASSUME VerifyMove PROVE PointInv'
  <2>1. (MountReady(plan) \/ MountSwapped(plan)) /\ BothShut
    BY <1>10 DEF VerifyMove, PointInv
  <2>2. First(plan) => staged = Absent
    BY <1>10 DEF VerifyMove
  <2>3. ~ First(plan) => OldTree(plan, staged)
    BY <1>10 DEF VerifyMove, OldTree, Whole
  <2>4. ~ NewTree(plan, staged)
    BY <1>0, <1>10, <2>2, <2>3, Apart DEF VerifyMove, NewTree
  <2>5. MountSwapped(plan)
    BY <2>1, <2>4 DEF MountReady
  <2>6. (MountSwapped(plan) /\ BothShut)'
    BY <1>10, <2>1, <2>5 DEF VerifyMove, MountSwapped, BothShut
  <2>7. RestInv'
    BY <1>10, <2>2, <2>3 DEF VerifyMove, RestInv
  <2> QED BY <1>10, <2>6, <2>7 DEF VerifyMove, PointInv
<1>11. ASSUME WriteMetadata PROVE PointInv'
  <2>1. (MountSwapped(plan) \/ MountWritten(plan)) /\ RestInv /\ BothShut
    BY <1>11 DEF WriteMetadata, PointInv
  <2>2. (MountWritten(plan) /\ RestInv /\ BothShut)'
    BY <1>11, <2>1 DEF WriteMetadata, MountSwapped, MountWritten, RestInv, BothShut
  <2>3. rest = "Missing" => staged' = Absent
    BY <1>11, <2>1 DEF WriteMetadata, RestInv
  <2>4. (intent = plan)'
    BY <1>11 DEF WriteMetadata, FileInv
  <2> QED BY <1>11, <2>2, <2>3, <2>4 DEF WriteMetadata, PointInv
<1>12. ASSUME DeleteOld PROVE PointInv'
  <2>1. MountWritten(plan) /\ RestInv /\ rest # "Missing" /\ BothShut /\ intent = plan /\ intent # Absent
    BY <1>12 DEF DeleteOld, PointInv, FileInv
  <2>2. CASE staged' = Absent /\ point' = "finish" /\ UNCHANGED plan
    <3>1. (MountWritten(plan) /\ BothShut)'
      BY <1>12, <2>1, <2>2 DEF DeleteOld, MountWritten, Remains, BothShut
    <3>2. (intent = plan)'
      BY <1>12, <2>1, <2>2 DEF DeleteOld
    <3> QED BY <2>2, <3>1, <3>2 DEF PointInv
  <2>3. CASE ~ Conversion(plan) /\ TearsDown(plan.old.ino, "finish") /\ point' = "idle"
    <3>1. ~ First(plan)
      BY <1>0, <1>12, <2>1 DEF DeleteOld, RestInv, MountTypeOK
    <3>2. Remains(intent, staged')
      BY <2>1, <2>3, <3>1 DEF TearsDown, Remains, Tree
    <3>3. (MountWritten(intent) /\ BothShut)'
      BY <1>12, <2>1, <2>3, <3>2 DEF DeleteOld, TearsDown, MountWritten, BothShut, Tree
    <3> QED BY <1>12, <2>1, <2>3, <3>3 DEF DeleteOld, PointInv
  <2> QED BY <1>12, <2>2, <2>3 DEF DeleteOld, TearsDown
<1>13. ASSUME DiscardCandidate PROVE PointInv'
  <2>1. /\ Described(plan) /\ OldTree(plan, mount) /\ BothShut
        /\ staged \in Tree /\ staged.content = Partial /\ staged.ino = plan.candidate
    BY <1>13 DEF DiscardCandidate, PointInv
  <2>2. CASE staged' = Absent /\ point' = "finish" /\ UNCHANGED plan
    <3>1. (MountBegun(plan) /\ BothShut)'
      BY <1>13, <2>1, <2>2 DEF DiscardCandidate, MountBegun, Unfinished, Described, BothShut
    <3> QED BY <2>2, <3>1 DEF PointInv
  <2>3. CASE TearsDown(plan.candidate, "finish") /\ point' = "idle"
    <3>1. intent # Absent /\ intent.old = plan.old /\ intent.candidate \in {Absent, plan.candidate}
      BY <1>0, <1>13 DEF DiscardCandidate, FileInv, Unrecorded, Transaction
    <3>2. staged' \in Tree /\ staged'.content = Partial /\ staged'.ino = plan.candidate /\ ~ staged'.open
      BY <2>1, <2>3 DEF TearsDown, BothShut, Tree
    <3>3. (MountBegun(intent) /\ BothShut)'
      BY <1>13, <2>1, <3>1, <3>2
      DEF DiscardCandidate, MountBegun, Unfinished, Described, OldTree, First, Conversion, BothShut
    <3> QED BY <1>13, <2>3, <3>1, <3>3 DEF DiscardCandidate, PointInv
  <2> QED BY <1>13, <2>2, <2>3 DEF DiscardCandidate, TearsDown
<1>14. ASSUME RemoveTransaction PROVE PointInv'
  <2>1. staged = Absent /\ (MountBegun(plan) \/ MountWritten(plan)) /\ BothShut /\ plan \in Transaction
    BY <1>0, <1>14 DEF RemoveTransaction, PointInv
  <2>2. mount \in Tree /\ mount.content \in Sources => mount.content = recorded
    BY <2>1 DEF MountBegun, MountWritten, Described, OldTree, NewTree, First, Conversion
  <2>3. (MountAtRest /\ BothShut)'
    BY <1>14, <2>1, <2>2 DEF RemoveTransaction, MountAtRest, BothShut
  <2> QED BY <1>14, <2>3 DEF RemoveTransaction, PointInv
<1>15. ASSUME Reprotect PROVE PointInv'
  <2>1. /\ intent # Absent /\ intent \in Transaction
        /\ MountBegun(intent) \/ MountSwapped(intent) \/ MountWritten(intent)
    BY <1>0, <1>15 DEF Reprotect, PointInv
  <2>2. SameTree(staged, staged') /\ SameTree(mount, mount') /\ staged' \in Spot /\ mount' \in Spot
    BY <1>0, <1>15, Roots DEF Reprotect, SameTree
  <2>3. /\ OldTree(intent, mount') = OldTree(intent, mount) /\ NewTree(intent, mount') = NewTree(intent, mount)
        /\ OldTree(intent, staged') = OldTree(intent, staged)
        /\ NewTree(intent, staged') = NewTree(intent, staged)
        /\ Unfinished(intent, staged') = Unfinished(intent, staged)
        /\ Remains(intent, staged') = Remains(intent, staged)
    BY <1>0, <2>2, SameTreeKeeps
  <2>4. (MountBegun(plan) \/ MountSwapped(plan) \/ MountWritten(plan))'
    BY <1>15, <2>1, <2>3 DEF Reprotect, MountBegun, MountSwapped, MountWritten, Described
  <2>5. BothShut'
    BY <1>0, <1>15, Roots DEF Reprotect, BothShut, PointInv
  <2> QED BY <1>15, <2>4, <2>5 DEF Reprotect, PointInv
<1>16. ASSUME point \in {"observe", "reobserve"}, Unmoved(plan, Observed(mount, plan))
       PROVE  MountBegun(plan)
  <2>1. OldTree(plan, mount)
    BY <1>0, <1>16, MountSeenMeans DEF Unmoved, PointInv, BothShut, OldTree, First
  <2>2. ~ NewTree(plan, mount)
    BY <1>0, <1>16, <2>1, Apart
  <2> QED BY <1>16, <2>2 DEF PointInv, MountSwapped, MountWritten, MountReady, MountBegun
<1>17. ASSUME RollBack PROVE PointInv'
  <2>1. MountBegun(plan) /\ BothShut
    BY <1>16, <1>17 DEF RollBack, BackFrom, PointInv
  <2>2. (MountBegun(plan) /\ BothShut)'
    BY <1>17, <2>1 DEF RollBack, MountBegun, Described, BothShut
  <2>3. CASE staged = Absent
    BY <1>17, <2>2, <2>3 DEF RollBack, PointInv
  <2>4. CASE staged # Absent
    <3>1. staged \in Tree /\ staged.ino = plan.candidate /\ staged.content # plan.new
      BY <1>0, <1>17, <2>1, <2>4, MountSeenMeans DEF RollBack, BackFrom, BothShut
    <3>2. staged.content = Partial
      BY <2>1, <2>4, <3>1 DEF MountBegun, Unfinished, NewTree
    <3> QED BY <1>17, <2>2, <2>4, <3>1, <3>2 DEF RollBack, PointInv, MountBegun
  <2> QED BY <2>3, <2>4
<1>18. ASSUME MoveAgain PROVE PointInv'
  <2>1. MountBegun(plan) /\ BothShut
    BY <1>16, <1>18 DEF MoveAgain, OnFrom, PointInv
  <2>2. NewTree(plan, staged)
    BY <1>0, <1>18, <2>1, MountSeenMeans DEF MoveAgain, OnFrom, BothShut
  <2>3. (MountReady(plan) /\ BothShut)'
    BY <1>18, <2>1, <2>2 DEF MoveAgain, MountReady, MountBegun, Described, BothShut
  <2> QED BY <1>18, <2>3 DEF MoveAgain, PointInv
<1>19. ASSUME RollForward PROVE PointInv'
  <2>1. BothShut /\ (MountBegun(plan) \/ MountSwapped(plan) \/ MountWritten(plan))
    BY <1>19 DEF RollForward, PointInv, MountReady, MountBegun
  <2>2. NewTree(plan, mount)
    BY <1>0, <1>19, <2>1, MountSeenMeans DEF RollForward, ForthFrom, BothShut
  <2>3. MountSwapped(plan) \/ MountWritten(plan)
    BY <1>0, <1>19, <2>1, <2>2, Apart DEF RollForward, MountBegun
  <2>4. (MountSwapped(plan) \/ MountWritten(plan))' /\ BothShut'
    BY <1>19, <2>1, <2>3 DEF RollForward, MountSwapped, MountWritten, BothShut
  <2>5. OldTree(plan, staged) \/ Remains(plan, staged)
    BY <2>3 DEF MountSwapped, MountWritten
  <2>6. rest' = "Missing" => staged = Absent
    BY <1>0, <1>19, <2>1, MountSeenMeans DEF RollForward, BothShut
  <2>7. rest' = "Old" => ~ First(plan) /\ OldTree(plan, staged)
    BY <1>0, <1>19, <2>1, MountSeenMeans DEF RollForward, BothShut
  <2>8. rest' = "OldPartial" => ~ First(plan) /\ staged # Absent /\ Remains(plan, staged)
    <3>1. rest' = "OldPartial" =>
            ~ First(plan) /\ staged \in Tree /\ staged.content # plan.old.content
      BY <1>0, <1>19, <2>1, MountSeenMeans DEF RollForward, BothShut
    <3> QED BY <2>5, <3>1 DEF OldTree
  <2>9. RestInv'
    BY <1>19, <2>6, <2>7, <2>8 DEF RollForward, RestInv
  <2> QED BY <1>19, <2>4, <2>9 DEF RollForward, PointInv
<1>20. ASSUME PlanTeardown PROVE PointInv'
  <2>1. (MountAtRest /\ BothShut)'
    BY <1>20 DEF PlanTeardown, PointInv, MountAtRest, BothShut
  <2> QED BY <1>20, <2>1 DEF PlanTeardown, PointInv
<1>21. ASSUME Unmount PROVE PointInv'
  <2>1. (MountAtRest /\ BothShut)'
    BY <1>21 DEF Unmount, Whole, PointInv, MountAtRest, BothShut, Tree
  <2>2. intent' = Absent
    BY <1>21 DEF Unmount, FileInv
  <2> QED BY <1>21, <2>1, <2>2 DEF Unmount, PointInv
<1>22. ASSUME Forget PROVE PointInv'
  <2>1. (MountAtRest /\ BothShut)' /\ intent' = Absent
    BY <1>22 DEF Forget, PointInv, FileInv, MountAtRest, BothShut
  <2> QED BY <1>22, <2>1 DEF Forget, PointInv
<1>23. ASSUME MountEnds PROVE PointInv'
  <2>1. UNCHANGED <<mount, staged, recorded, intent>> /\ point' = "idle"
    BY <1>23 DEF MountEnds
  <2>2. BothShut' \/ (Darwin /\ intent' # Absent)
    BY <1>23, <2>1 DEF MountEnds, PointInv, FileInv, BothShut
  <2>3. CASE intent = Absent
    <3>1. MountAtRest
      BY <1>23, <2>3 DEF MountEnds, PointInv, FileInv, MountTypeOK, MountSteps
    <3>2. MountAtRest'
      BY <2>1, <3>1 DEF MountAtRest
    <3> QED BY <2>1, <2>2, <2>3, <3>2 DEF PointInv
  <2>4. CASE intent # Absent
    <3>1. MountBegun(intent) \/ MountSwapped(intent) \/ MountWritten(intent)
      <4>1. CASE intent = plan
        BY <1>23, <2>4, <4>1
        DEF MountEnds, PointInv, FileInv, MountTypeOK, MountSteps, MountBegun, MountReady, Unfinished
      <4>2. CASE Unrecorded /\ point \in {"identify", "discard", "finish"}
        <5>1. intent.old = plan.old /\ intent.new = plan.new /\ intent.candidate = Absent
          BY <1>0, <1>23, <4>2 DEF Unrecorded, Transaction, MountEnds
        <5>3. CASE Described(plan) /\ OldTree(plan, mount) /\ Unfinished(intent, staged)
          BY <5>1, <5>3 DEF MountBegun, Described, OldTree, First, Conversion
        <5> QED BY <4>2, <5>1, <5>3 DEF PointInv, MountBegun, Unfinished, MountWritten, NewTree
      <4> QED BY <1>23, <2>4, <4>1, <4>2 DEF MountEnds, FileInv
    <3>2. (MountBegun(intent) \/ MountSwapped(intent) \/ MountWritten(intent))'
      BY <2>1, <3>1 DEF MountBegun, MountSwapped, MountWritten, Described
    <3> QED BY <2>1, <2>2, <2>4, <3>2 DEF PointInv
  <2> QED BY <2>3, <2>4
<1>24. ASSUME Intrude PROVE FALSE
  BY <1>24 DEF Intrude, Unintruded
<1>25. ASSUME UNCHANGED mountVars PROVE PointInv'
  BY <1>25 DEF mountVars, PointInv, MountAtRest, BothShut, Described, MountBegun, MountReady, MountSwapped, MountWritten,
               RestInv
<1> QED
  BY <1>1, <1>2, <1>3, <1>4, <1>5, <1>6, <1>7, <1>8, <1>9, <1>10, <1>11, <1>12, <1>13, <1>14,
     <1>15, <1>17, <1>18, <1>19, <1>20, <1>21, <1>22, <1>23, <1>24, <1>25 DEF MountNext

-----------------------------------------------------------------------------
\* The inductive invariant: the transaction file and the call at work are one
\* transaction, and the two directories are where the point of the call says, unless
\* somebody intruded.
THEOREM MountInvariant == MountSpec => []MountIInv
<1>1. MountInit => MountIInv
  <2> USE MountAssumption, SpotAssumption
  <2> SUFFICES ASSUME MountInit PROVE MountIInv
    OBVIOUS
  <2>1. MountTypeOK
    <3>1. mount \in Spot /\ inodes \subseteq MountInodes
      <4>1. CASE mount = Absent /\ inodes = {}
        BY <4>1 DEF Spot
      <4>2. ASSUME NEW i \in MountInodes,
                   mount = [ino |-> i, content |-> Linked, open |-> FALSE] /\ inodes = {i}
            PROVE  mount \in Tree /\ inodes \subseteq MountInodes
        BY <4>2 DEF Tree
      <4> QED BY <4>1, <4>2 DEF MountInit, Spot
    <3>2. point \in MountSteps /\ rest \in {"Missing", "Old", "OldPartial"} /\ recovering \in BOOLEAN
      BY DEF MountInit, MountSteps
    <3> QED BY <3>1, <3>2 DEF MountInit, MountTypeOK, Spot
  <2>2. FileInv
    BY DEF MountInit, FileInv
  <2>3. PointInv
    BY DEF MountInit, PointInv, MountAtRest, BothShut
  <2> QED BY <2>1, <2>2, <2>3 DEF MountIInv
<1>2. MountIInv /\ [MountNext]_mountVars => MountIInv'
  <2> SUFFICES ASSUME MountIInv, [MountNext]_mountVars PROVE MountIInv'
    OBVIOUS
  <2>1. MountTypeOK' /\ FileInv'
    BY MountTypeStep, FileStep DEF MountIInv
  <2>2. Unintruded' => Unintruded
    BY ForeignStep DEF MountIInv, Unintruded, mountVars
  <2>3. Unintruded' => PointInv'
    BY <2>2, PointStep DEF MountIInv
  <2> QED BY <2>1, <2>3 DEF MountIInv
<1> QED BY <1>1, <1>2, PTL DEF MountSpec

\* Whatever was interrupted, once the transaction file is gone (removeTransaction comes
\* last) the stage is empty and the mounted tree is the one the metadata describe: no
\* later call refuses it.
THEOREM MountSettles == MountSpec => []MountSettled
<1>1. MountIInv => MountSettled
  <2> SUFFICES ASSUME MountIInv, intent = Absent, Unintruded
               PROVE  /\ staged = Absent
                      /\ mount \in Tree /\ mount.content \in Sources
                           => Whole(mount, mount.ino, recorded)
    BY DEF MountSettled
  <2>1. point \in {"idle", "intent", "unmount", "forget"} /\ PointInv
    BY DEF MountIInv, FileInv
  <2>2. MountAtRest /\ BothShut
    BY <2>1 DEF PointInv
  <2> QED BY <2>2 DEF MountAtRest, BothShut, Whole
<1> QED BY <1>1, MountInvariant, PTL

\* Whatever a publication or an earlier recovery left, with the roots open or shut,
\* recoverCpAMemberMount finds one of the states it knows.
THEOREM MountRecovers == MountSpec => []MountRecoverable
<1>1. MountIInv => MountRecoverable
  <2> DEFINE d == Reprotected(mount)
             e == Reprotected(staged)
             m == Observed(d, intent)
             s == Observed(e, intent)
  <2> USE MountAssumption, SpotAssumption
  <2> SUFFICES ASSUME MountIInv, intent # Absent, Unintruded,
                      staged \in Tree => intent.candidate # Absent
               PROVE  BackFrom(intent, m, s) \/ OnFrom(intent, m, s) \/ ForthFrom(intent, m, s)
    BY DEF MountRecoverable
  <2>1. /\ PointInv /\ FileInv /\ point \in MountSteps /\ point # "intent"
        /\ intent \in Transaction /\ MountWellFormed(intent) /\ intent.new \in Sources
        /\ mount \in Spot /\ staged \in Spot /\ mount # Foreign /\ staged # Foreign
        /\ point # "idle" => plan \in Transaction
    BY DEF MountIInv, MountTypeOK, FileInv, Unintruded
  <2>2. MountBegun(intent) \/ MountSwapped(intent) \/ MountWritten(intent)
    <3>1. CASE point = "idle"
      BY <2>1, <3>1 DEF PointInv
    <3>2. CASE point # "idle" /\ intent = plan
      BY <2>1, <3>2 DEF PointInv, FileInv, MountSteps, MountBegun, MountReady, Unfinished
    <3>3. CASE Unrecorded /\ point \in {"identify", "discard", "finish"}
      <4>1. intent.old = plan.old /\ intent.candidate = Absent
        BY <2>1, <3>3 DEF Unrecorded, Transaction
      <4>2. Described(plan) /\ OldTree(plan, mount) /\ staged = Absent
        <5>1. point = "finish"
          BY <2>1, <3>3, <4>1 DEF PointInv
        <5>2. ~ (NewTree(plan, mount) /\ intent = plan)
          BY <4>1 DEF NewTree, Tree
        <5> QED BY <2>1, <5>1, <5>2 DEF PointInv, MountBegun, MountWritten
      <4> QED BY <4>1, <4>2 DEF MountBegun, Unfinished, Described, OldTree, First, Conversion
    <3> QED BY <2>1, <3>1, <3>2, <3>3 DEF FileInv
  <2>3. /\ d \in Spot /\ e \in Spot /\ d # Foreign /\ e # Foreign
        /\ d \in Tree => ~ d.open
        /\ e \in Tree => ~ e.open
        /\ SameTree(mount, d) /\ SameTree(staged, e)
    BY <2>1, Roots DEF SameTree
  <2>4. /\ OldTree(intent, d) = OldTree(intent, mount) /\ NewTree(intent, d) = NewTree(intent, mount)
        /\ OldTree(intent, e) = OldTree(intent, staged) /\ NewTree(intent, e) = NewTree(intent, staged)
        /\ Unfinished(intent, e) = Unfinished(intent, staged)
        /\ Remains(intent, e) = Remains(intent, staged)
    BY <2>1, <2>3, SameTreeKeeps
  <2>5. e \in Tree => intent.candidate # Absent
    BY <2>1, <2>3 DEF SameTree
  <2>6. ASSUME OldTree(intent, d) PROVE Unmoved(intent, m)
    BY <2>1, <2>3, <2>6, MountSeenMeans DEF Unmoved, OldTree, First
  <2>7. CASE MountBegun(intent)
    <3>1. Unmoved(intent, m)
      BY <2>4, <2>6, <2>7 DEF MountBegun
    <3>2. CASE NewTree(intent, e)
      BY <2>1, <2>3, <3>1, <3>2, MountSeenMeans DEF OnFrom
    <3>3. CASE Unfinished(intent, e)
      <4>1. e = Absent \/ (e \in Tree /\ e.ino = intent.candidate /\ e.content # intent.new)
        BY <2>1, <2>5, <3>3 DEF Unfinished
      <4>2. s \in {"Missing", "NewPartial"}
        BY <2>1, <2>3, <4>1, MountSeenMeans
      <4> QED BY <3>1, <4>2 DEF BackFrom
    <3> QED BY <2>4, <2>7, <3>2, <3>3 DEF MountBegun
  <2>8. CASE MountSwapped(intent) \/ MountWritten(intent)
    <3>1. m = "New"
      BY <2>1, <2>3, <2>4, <2>8, MountSeenMeans DEF MountSwapped, MountWritten
    <3>2. OldTree(intent, e) \/ Remains(intent, e)
      BY <2>4, <2>8 DEF MountSwapped, MountWritten
    <3>3. e = Absent \/ (~ First(intent) /\ s \in {"Old", "OldPartial"})
      BY <2>1, <2>3, <3>2, MountSeenMeans DEF OldTree, Remains
    <3>4. e = Absent => s = "Missing"
      BY <2>1, <2>3, MountSeenMeans
    <3> QED BY <3>1, <3>3, <3>4 DEF ForthFrom
  <2> QED BY <2>2, <2>7, <2>8
<1> QED BY <1>1, MountInvariant, PTL

\* No reader ever meets a half-copied or half-deleted member in its place: the mount
\* changes by a move of a whole candidate, or is being torn down.
THEOREM MountKeepsWhole == MountSpec => MountStaysWhole
<1>1. MountIInv /\ [MountNext]_mountVars
        => [Unintruded' /\ ~ AtStep("unmount") /\ mount' # mount => Complete(mount')]_mountVars
  <2> SUFFICES ASSUME MountIInv, MountNext, Unintruded', ~ AtStep("unmount"), mount' # mount
               PROVE  Complete(mount')
    BY DEF mountVars
  <2> USE MountAssumption, SpotAssumption
  <2>1. Unintruded
    BY ForeignStep DEF MountIInv, Unintruded
  <2>2. /\ PointInv /\ FileInv /\ mount \in Spot
        /\ point # "idle" => plan \in Transaction
        /\ intent # Absent => intent \in Transaction /\ intent.new \in Sources
    BY <2>1 DEF MountIInv, MountTypeOK, FileInv
  <2>3. ASSUME NEW r \in Transaction, r.new \in Sources, mount # Absent,
               OldTree(r, mount) \/ NewTree(r, mount)
        PROVE  Complete(mount)
    BY <2>3 DEF OldTree, NewTree, First, Complete, Transaction, OldIdentity
  <2>4. ASSUME NEW s \in BOOLEAN, NEW t \in BOOLEAN, OpenRoot(s, t) \/ CloseRoot(s, t)
        PROVE  Complete(mount')
    <3>1. intent = plan /\ intent # Absent /\ (OldTree(plan, mount) \/ NewTree(plan, mount))
      BY <2>2, <2>4 DEF OpenRoot, CloseRoot, AtStep, FileInv, PointInv, MountReady, MountSwapped
    <3>2. mount \in Tree
      BY <2>2, <2>4, Roots DEF OpenRoot, CloseRoot
    <3>3. Complete(mount)
      BY <2>2, <2>3, <3>1, <3>2
    <3> QED BY <2>2, <2>4, <3>2, <3>3, Roots DEF OpenRoot, CloseRoot, Complete
  <2>5. ASSUME MoveMount PROVE Complete(mount')
    <3>1. intent = plan /\ intent # Absent /\ NewTree(plan, staged) /\ mount' = staged
      BY <2>2, <2>5 DEF MoveMount, AtStep, FileInv, PointInv, MountReady
    <3> QED BY <2>2, <3>1 DEF NewTree, Complete
  <2>6. ASSUME Reprotect PROVE Complete(mount')
    <3>1. mount \in Tree
      BY <2>2, <2>6, Roots DEF Reprotect
    <3>2. intent # Absent /\ (OldTree(intent, mount) \/ NewTree(intent, mount))
      BY <2>2, <2>6 DEF Reprotect, AtStep, PointInv, MountBegun, MountSwapped, MountWritten
    <3>3. Complete(mount)
      BY <2>2, <2>3, <3>1, <3>2
    <3> QED BY <2>2, <2>6, <3>1, <3>3, Roots DEF Reprotect, Complete
  <2>7. Unmount => FALSE
    BY DEF Unmount
  <2>8. Intrude => FALSE
    BY <2>1 DEF Intrude, Unintruded
  <2>9. ASSUME NEW i \in MountInodes PROVE ~ MakeCandidate(i)
    BY DEF MakeCandidate
  <2>10. ASSUME NEW t \in Sources PROVE ~ PlanMount(t)
    BY DEF PlanMount
  <2>11. ~ (\/ WriteTransaction \/ RecordCandidate \/ Materialize \/ CheckVacant
            \/ VerifyMove \/ WriteMetadata \/ DeleteOld \/ DiscardCandidate
            \/ RemoveTransaction \/ RollBack \/ MoveAgain \/ RollForward
            \/ PlanTeardown \/ Forget \/ MountEnds)
    BY DEF WriteTransaction, RecordCandidate, Materialize, CheckVacant, VerifyMove, WriteMetadata,
           DeleteOld, DiscardCandidate, RemoveTransaction, RollBack, MoveAgain, RollForward,
           PlanTeardown, Forget, MountEnds
  <2> QED BY <2>4, <2>5, <2>6, <2>7, <2>8, <2>9, <2>10, <2>11 DEF MountNext
<1> QED BY <1>1, MountInvariant, PTL DEF MountSpec, MountStaysWhole

-----------------------------------------------------------------------------
\* Where roots are opened by their identity, a filled directory of somebody else never
\* leaves the stage, and the transaction it is in stays.
TakenInv ==
  /\ ~ Taken(mount)
  /\ \A r \in {plan, intent} \ {Absent} : r.old # Absent => r.old.ino \notin TheirInodes
  /\ Taken(staged) => intent # Absent /\ point \in {"idle", "check", "open", "observe"}

LEMMA TakenStep ==
  ASSUME Darwin, MountTypeOK, FileInv, TakenInv, MountNext
  PROVE  /\ TakenInv'
         /\ Taken(staged) => UNCHANGED <<recorded, intent>> /\ OfOthers(staged)'
                            /\ (mount = Foreign => mount' = Foreign)
<1> USE MountAssumption, SpotAssumption DEF MountTypeOK, TakenInv, AtStep, GoTo, Return
<1> DEFINE Kept == TakenInv' /\ (Taken(staged) => UNCHANGED <<recorded, intent>> /\ OfOthers(staged)'
                                                  /\ (mount = Foreign => mount' = Foreign))
<1>0. ASSUME NEW r \in Transaction, r.old # Absent => r.old.ino \notin TheirInodes, Taken(staged)
      PROVE  Observed(staged, r) = "Other"
  BY <1>0 DEF Observed, Taken, Transaction
<1>1. ASSUME NEW s \in Sources, PlanMount(s) PROVE Kept
  <2>1. mount # Absent => mount \in Tree
    BY <1>1 DEF PlanMount, OwnedMount, LegacyMount
  <2>2. plan'.old # Absent => plan'.old.ino \notin TheirInodes
    BY <1>1, <2>1 DEF PlanMount, Taken
  <2> QED BY <1>1, <2>2 DEF PlanMount, Taken
<1>2. WriteTransaction => Kept
  BY DEF WriteTransaction, Taken
<1>3. ASSUME NEW i \in MountInodes, MakeCandidate(i) PROVE Kept
  <2>1. plan \in Transaction /\ plan'.old = plan.old /\ plan' # Absent
    BY <1>3 DEF MakeCandidate, Transaction
  <2>2. ~ Taken(staged)' /\ ~ Taken(staged)
    BY <1>3 DEF MakeCandidate, Taken
  <2> QED BY <1>3, <2>1, <2>2 DEF MakeCandidate, Taken
<1>4. RecordCandidate => Kept
  BY DEF RecordCandidate, Taken
<1>5. Materialize => Kept
  BY DEF Materialize, FileInv, Taken
<1>6. CheckVacant => Kept
  BY DEF CheckVacant, Taken, OfOthers
<1>7. ASSUME NEW s \in BOOLEAN, NEW d \in BOOLEAN, OpenRoot(s, d) PROVE Kept
  <2>1. Taken(staged) => ~ s
    BY <1>7 DEF OpenRoot, Taken, Transaction
  <2>2. (Taken(staged)' <=> Taken(staged)) /\ (Taken(mount)' <=> Taken(mount))
    BY <1>7, Roots DEF OpenRoot, Taken
  <2>3. mount = Foreign => mount' = Foreign
    BY <1>7, Roots DEF OpenRoot
  <2> QED BY <1>7, <2>1, <2>2, <2>3 DEF OpenRoot, OfOthers
<1>8. ASSUME NEW s \in BOOLEAN, NEW d \in BOOLEAN, CloseRoot(s, d) PROVE Kept
  <2>1. (Taken(staged)' <=> Taken(staged)) /\ (Taken(mount)' <=> Taken(mount))
    BY <1>8, Roots DEF CloseRoot, Taken
  <2> QED BY <1>8, <2>1 DEF CloseRoot
<1>9. MoveMount => Kept
  BY DEF MoveMount, Taken
<1>10. VerifyMove \/ WriteMetadata \/ RemoveTransaction \/ Forget \/ MountEnds => Kept
  BY DEF VerifyMove, WriteMetadata, RemoveTransaction, Forget, MountEnds, Taken, OfOthers
<1>11. DeleteOld \/ DiscardCandidate => Kept
  <2>1. DeleteOld \/ DiscardCandidate => ~ Taken(staged) /\ ~ Taken(staged)'
    BY DEF DeleteOld, DiscardCandidate, TearsDown, Taken, Tree
  <2> QED BY <2>1 DEF DeleteOld, DiscardCandidate, TearsDown, Taken
<1>12. Reprotect => Kept
  <2>1. Reprotect => (Taken(staged)' <=> Taken(staged)) /\ (Taken(mount)' <=> Taken(mount))
    BY Roots DEF Reprotect, Taken
  <2>2. Reprotect /\ mount = Foreign => mount' = Foreign
    BY Roots DEF Reprotect
  <2> QED BY <2>1, <2>2 DEF Reprotect, OfOthers
<1>13. RollBack \/ MoveAgain \/ RollForward => Kept
  <2>1. RollBack \/ MoveAgain \/ RollForward => ~ Taken(staged)
    BY <1>0 DEF RollBack, MoveAgain, RollForward, BackFrom, OnFrom, ForthFrom
  <2> QED BY <2>1 DEF RollBack, MoveAgain, RollForward, Taken
<1>14. PlanTeardown => Kept
  BY DEF PlanTeardown, OwnedMount, Taken
<1>15. Unmount => Kept
  <2>1. Unmount => ~ Taken(mount)'
    BY DEF Unmount, Whole, Taken, Tree
  <2> QED BY <2>1 DEF Unmount, Taken
<1>16. Intrude => Kept
  BY DEF Intrude, Taken, OfOthers
<1>17. Kept
  BY <1>1, <1>2, <1>3, <1>4, <1>5, <1>6, <1>7, <1>8, <1>9, <1>10, <1>11, <1>12, <1>13, <1>14,
     <1>15, <1>16 DEF MountNext
<1> QED BY <1>17

\* Where roots are opened by their identity, a directory that somebody else put at the
\* stage may be filled by the copy; it is never moved, removed or recorded, and the
\* transaction stays (withDarwinMovableProtectedRoots, observeTransactionPath).
THEOREM MountRefusesForeign == ASSUME Darwin PROVE MountSpec => ForeignRefused
<1>1. MountInit => TakenInv
  BY MountAssumption, SpotAssumption DEF MountInit, TakenInv, Taken
<1>2. MountIInv /\ TakenInv /\ [MountNext]_mountVars => TakenInv'
  <2>1. UNCHANGED mountVars => (TakenInv => TakenInv')
    BY DEF mountVars, TakenInv, Taken
  <2> QED BY <2>1, TakenStep DEF MountIInv
<1>3. MountIInv /\ TakenInv /\ [MountNext]_mountVars
        => [/\ OfOthers(mount) \/ OfOthers(staged) => OfOthers(mount)' \/ OfOthers(staged)'
            /\ OfOthers(mount) /\ OfOthers(staged) => OfOthers(mount)' /\ OfOthers(staged)'
            /\ Taken(mount) \/ Taken(staged) => UNCHANGED <<recorded, intent>>]_mountVars
  <2> SUFFICES ASSUME MountIInv, TakenInv, MountNext
               PROVE  /\ OfOthers(mount) \/ OfOthers(staged) => OfOthers(mount)' \/ OfOthers(staged)'
                      /\ OfOthers(mount) /\ OfOthers(staged) => OfOthers(mount)' /\ OfOthers(staged)'
                      /\ Taken(mount) \/ Taken(staged) => UNCHANGED <<recorded, intent>>
    OBVIOUS
  <2>1. /\ ~ Taken(mount)
        /\ Taken(staged) => UNCHANGED <<recorded, intent>> /\ OfOthers(staged)'
                            /\ (mount = Foreign => mount' = Foreign)
    BY TakenStep DEF MountIInv, TakenInv
  <2> QED BY <2>1, ForeignStep DEF MountIInv, OfOthers
<1> QED BY <1>1, <1>2, <1>3, MountInvariant, PTL DEF MountSpec, ForeignRefused
=============================================================================
