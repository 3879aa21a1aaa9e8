------------------------ MODULE DistOverlayProofs ------------------------
(***************************************************************************)
(* A dist overlay survives every interruption, for any number of artifacts, *)
(* directories, failures and recoveries.                                   *)
(*                                                                         *)
(* The argument: as long as nobody meddles, the two directories are in one *)
(* of three arrangements of the transaction (Begun, Swapped, Written), and *)
(* the phase of the call at work says in which.                            *)
(***************************************************************************)
EXTENDS DistOverlay, TLAPS

\* d is what the transaction replaces, or what it publishes.
IsOld(r, d) ==
  IF r.old = Nothing THEN d = Nothing
                     ELSE d \in Directory /\ d.ino = r.old /\ d.art = r.oldOverlay
IsNew(r, d) ==
  IF Removal(r) THEN d = Nothing
                ELSE d \in Directory /\ d.ino = r.candidate /\ d.art = r.newOverlay

\* Nothing, or a directory that is not whole.
Rest(d) == d = Nothing \/ (d \in Directory /\ d.art = Broken)

\* Nothing moved; nothing moved and the candidate is whole; the two directories
\* changed places; and the metadata says so.
Begun(r) == metadata = r.oldOverlay /\ IsOld(r, destination) /\ (Rest(stage) \/ IsNew(r, stage))
Ready(r) == metadata = r.oldOverlay /\ IsOld(r, destination) /\ IsNew(r, stage)
Swapped(r) == metadata = r.oldOverlay /\ IsNew(r, destination) /\ IsOld(r, stage)
Written(r) == metadata = r.newOverlay /\ IsNew(r, destination) /\ (Rest(stage) \/ IsOld(r, stage))

Settled ==
  /\ stage = Nothing
  /\ IF metadata = Nothing THEN destination = Nothing
                           ELSE destination \in Directory /\ destination.art = metadata

\* A transaction names what it replaces, replaces something or puts something, and
\* never takes its candidate for the old directory.
WellFormed(r) ==
  /\ r.old = Nothing <=> r.oldOverlay = Nothing
  /\ Removal(r) => r.candidate = Nothing /\ r.old # Nothing
  /\ r.candidate # Nothing => r.candidate # r.old
  /\ r.old # Nothing => r.old \in made
  /\ Republish \/ r.newOverlay # r.oldOverlay

\* The journal and the transaction of the call at work are one, but for the two
\* steps before the journal is first written and before it names the candidate.
JournalInv ==
  /\ destination \in Directory => destination.ino \in made
  /\ stage \in Directory => stage.ino \in made
  /\ phase # "idle" => WellFormed(tx)
  /\ journal \in Journal => WellFormed(journal)
  /\ phase = "intent" => journal = Nothing /\ tx.candidate = Nothing
  /\ phase \notin {"idle", "intent"} => journal \in Journal
  /\ phase \notin {"idle", "intent", "identify"} => journal = tx
  /\ phase = "identify" => journal = [tx EXCEPT !.candidate = Nothing]
  /\ phase = "mkdir" => tx.candidate = Nothing
  /\ phase \in {"mkdir", "identify", "copy", "protect", "discard"} => ~ Removal(tx)

\* Where the directories are in each phase.
PhaseInv ==
  /\ phase = "idle" =>
       IF journal \in Journal THEN Begun(journal) \/ Swapped(journal) \/ Written(journal)
                              ELSE Settled
  /\ phase = "intent" => Settled /\ tx.oldOverlay = metadata /\ IsOld(tx, destination)
  /\ phase = "mkdir" => Begun(tx) /\ stage = Nothing
  /\ phase \in {"identify", "copy"} =>
       Begun(journal) /\ stage \in Directory /\ stage.art = Broken /\ stage.ino = tx.candidate
  /\ phase \in {"protect", "check", "discard"} => Ready(tx)
  /\ phase \in {"openRoots", "openParent", "move"} => IF undoing THEN Swapped(tx) ELSE Ready(tx)
  /\ phase \in {"closeParent", "closeRoots"} =>
       IF moved THEN IF undoing THEN Ready(tx) ELSE Swapped(tx)
                ELSE Ready(tx) \/ Swapped(tx)
  /\ phase \in {"verify", "record"} => Swapped(tx)
  /\ phase \in {"inspect", "retire"} => Written(tx) /\ IsOld(tx, stage) /\ tx.old # Nothing
  /\ phase = "finish" => stage = Nothing /\ (Begun(tx) \/ Written(tx))

\* Somebody else's directory that was filled is at the stage until the move and in
\* place after it; no check later than that lets it pass.
FilledInv ==
  Filled \in {destination, stage} =>
    /\ destination # stage
    /\ journal \in Journal
    /\ phase \in {"idle", "protect", "check", "openRoots", "openParent", "move", "closeParent",
                 "closeRoots", "verify"}
    /\ phase # "idle" => ~ Removal(tx)
    /\ phase \notin {"idle", "protect", "check"} => ~ undoing
    /\ phase \in {"protect", "check", "openRoots", "openParent", "move"} => stage = Filled
    /\ phase \in {"closeParent", "closeRoots"} /\ moved => destination = Filled
    /\ phase = "verify" => destination = Filled

OverlayIInv == OverlayTypeOK /\ JournalInv /\ FilledInv /\ (Unmeddled => PhaseInv)

-----------------------------------------------------------------------------
\* Opening and shutting a directory changes neither its identity nor its bytes.
LEMMA Modes ==
  ASSUME NEW d \in Place
  PROVE  /\ Opened(d) \in Place /\ Shut(d) \in Place
         /\ d \in Directory =>
              /\ Opened(d) \in Directory /\ Opened(d).ino = d.ino /\ Opened(d).art = d.art
              /\ Shut(d) \in Directory /\ Shut(d).ino = d.ino /\ Shut(d).art = d.art
         /\ d \notin Directory => Opened(d) = d /\ Shut(d) = d
<1>1. CASE d \in Directory
  BY <1>1 DEF Opened, Shut, Place, Directory
<1>2. CASE d \notin Directory
  BY <1>2 DEF Opened, Shut
<1> QED BY <1>1, <1>2


-----------------------------------------------------------------------------
LEMMA OverlayTypeStep ==
  ASSUME OverlayTypeOK, JournalInv, [OverlayNext]_overlayVars
  PROVE  OverlayTypeOK'
<1> USE OverlayAssumption, PlacesAssumption DEF OverlayTypeOK, AtPhase, To, Phases
<1>1. ASSUME NEW a \in Artifacts \cup {Nothing}, Request(a) PROVE OverlayTypeOK'
  <2>1. destination # Nothing => destination.ino \in Inodes
    BY <1>1 DEF Request, InPlace, Protected, Directory
  <2>2. tx' \in Journal
    BY <1>1, <2>1 DEF Request, Journal
  <2> QED BY <1>1, <2>2 DEF Request
<1>2. WriteIntent => OverlayTypeOK'
  BY DEF WriteIntent
<1>3. ASSUME NEW i \in Inodes, MakeStage(i) PROVE OverlayTypeOK'
  <2>1. stage' \in Directory
    BY <1>3 DEF MakeStage, Directory
  <2>2. tx' \in Journal
    BY <1>3 DEF MakeStage, Journal
  <2> QED BY <1>3, <2>1, <2>2 DEF MakeStage, Place
<1>4. IdentifyStage => OverlayTypeOK'
  BY DEF IdentifyStage
<1>5. Copy => OverlayTypeOK'
  <2>1. ASSUME Copy, stage \in Directory PROVE stage' \in Place
    <3>1. tx.newOverlay \in Artifacts
      BY <2>1 DEF Copy, Journal, JournalInv, Removal
    <3> QED BY <2>1, <3>1 DEF Copy, Place, Directory
  <2>2. ASSUME Copy, stage \notin Directory PROVE stage' \in Place
    BY <2>2 DEF Copy, Place
  <2> QED BY <2>1, <2>2 DEF Copy
<1>6. Protect => OverlayTypeOK'
  BY Modes DEF Protect
<1>7. Check => OverlayTypeOK'
  BY DEF Check
<1>8. ASSUME NEW d \in BOOLEAN, NEW s \in BOOLEAN, OpenRoots(d, s) PROVE OverlayTypeOK'
  BY <1>8, Modes DEF OpenRoots
<1>9. OpenParent => OverlayTypeOK'
  BY DEF OpenParent
<1>10. MoveOverlay => OverlayTypeOK'
  BY DEF MoveOverlay
<1>11. CloseParent => OverlayTypeOK'
  BY DEF CloseParent
<1>12. ASSUME NEW d \in BOOLEAN, NEW s \in BOOLEAN, CloseRoots(d, s) PROVE OverlayTypeOK'
  BY <1>12, Modes DEF CloseRoots, AfterMove
<1>13. Verify => OverlayTypeOK'
  BY DEF Verify
<1>14. Record => OverlayTypeOK'
  <2>1. ASSUME Record PROVE tx.newOverlay \in Artifacts \cup {Nothing}
    BY <2>1 DEF Record, Journal
  <2> QED BY <2>1 DEF Record
<1>15. InspectOld => OverlayTypeOK'
  BY DEF InspectOld
<1>16. ASSUME NEW ino, Teardown(ino) PROVE stage' \in Place /\ phase' \in {"idle", "finish"}
  BY <1>16 DEF Teardown, Place, Directory
<1>17. Retire => OverlayTypeOK'
  BY <1>16 DEF Retire
<1>18. Discard => OverlayTypeOK'
  BY <1>16 DEF Discard
<1>19. Finish => OverlayTypeOK'
  BY DEF Finish
<1>20. RecoverOverlay => OverlayTypeOK'
  BY DEF RecoverOverlay
<1>21. Ends => OverlayTypeOK'
  BY DEF Ends
<1>22. Meddle => OverlayTypeOK'
  BY DEF Meddle, Place, Theirs
<1>23. UNCHANGED overlayVars => OverlayTypeOK'
  BY DEF overlayVars
<1> QED
  BY <1>1, <1>2, <1>3, <1>4, <1>5, <1>6, <1>7, <1>8, <1>9, <1>10, <1>11, <1>12, <1>13, <1>14,
     <1>15, <1>17, <1>18, <1>19, <1>20, <1>21, <1>22, <1>23 DEF OverlayNext

-----------------------------------------------------------------------------
\* What is theirs stays; so a state nobody meddled with comes from such a state.
LEMMA TheirsStep ==
  ASSUME OverlayTypeOK, [OverlayNext]_overlayVars
  PROVE  /\ {destination, stage} \cap Theirs # {} => {destination', stage'} \cap Theirs # {}
         /\ {destination, stage} \subseteq Theirs => {destination', stage'} \subseteq Theirs
<1> DEFINE Kept == /\ destination \in Theirs \/ stage \in Theirs
                        => destination' \in Theirs \/ stage' \in Theirs
                   /\ destination \in Theirs /\ stage \in Theirs
                        => destination' \in Theirs /\ stage' \in Theirs
<1> USE PlacesAssumption DEF OverlayTypeOK
<1>1. ASSUME NEW a \in Artifacts \cup {Nothing}, Request(a) PROVE Kept
  BY <1>1 DEF Request
<1>2. WriteIntent \/ IdentifyStage \/ Check \/ OpenParent \/ CloseParent \/ Verify \/ Record
        \/ InspectOld \/ Finish \/ RecoverOverlay \/ Ends \/ UNCHANGED overlayVars => Kept
  BY DEF WriteIntent, IdentifyStage, Check, OpenParent, CloseParent, Verify, Record, InspectOld,
         Finish, RecoverOverlay, Ends, overlayVars
<1>3. ASSUME NEW i \in Inodes, MakeStage(i) PROVE Kept
  BY <1>3 DEF MakeStage
<1>4. Copy \/ Protect => Kept
  BY DEF Copy, Protect, Shut
<1>5. ASSUME NEW d \in BOOLEAN, NEW s \in BOOLEAN, OpenRoots(d, s) \/ CloseRoots(d, s) PROVE Kept
  BY <1>5 DEF OpenRoots, CloseRoots, Opened, Shut
<1>6. MoveOverlay => Kept
  BY DEF MoveOverlay
<1>7. Retire \/ Discard => Kept
  BY DEF Retire, Discard, Teardown
<1>8. Meddle => Kept
  BY DEF Meddle, Theirs
<1>9. Kept
  BY <1>1, <1>2, <1>3, <1>4, <1>5, <1>6, <1>7, <1>8 DEF OverlayNext
<1> QED BY <1>9

-----------------------------------------------------------------------------
\* While a filled directory of somebody else is there, nothing is recorded.
LEMMA FilledUnrecorded ==
  ASSUME OverlayTypeOK, JournalInv, FilledInv, Filled \in {destination, stage},
         [OverlayNext]_overlayVars
  PROVE  UNCHANGED <<metadata, journal>>
<1> USE PlacesAssumption DEF AtPhase, Theirs
<1>1. \A r : Seen(Filled, r) = "Other"
  BY DEF Seen
<1>2. ~ RecoverOverlay
  BY <1>1 DEF RecoverOverlay, Before, After, Recorded
<1>3. WriteIntent \/ IdentifyStage \/ Record \/ Finish => FALSE
  BY DEF WriteIntent, IdentifyStage, Record, Finish, FilledInv
<1> QED
  BY <1>2, <1>3
  DEF OverlayNext, Request, MakeStage, Copy, Protect, Check, OpenRoots, OpenParent, MoveOverlay,
      CloseParent, CloseRoots, Verify, InspectOld, Retire, Discard, Teardown, Ends, Meddle,
      overlayVars

LEMMA FilledStep ==
  ASSUME OverlayTypeOK, JournalInv, FilledInv, [OverlayNext]_overlayVars
  PROVE  FilledInv'
<1> SUFFICES ASSUME Filled \in {destination', stage'} PROVE FilledInv'
  BY DEF FilledInv
<1> USE OverlayAssumption, PlacesAssumption DEF OverlayTypeOK, AtPhase, To, Theirs
<1>1. ASSUME Filled \notin {destination, stage} PROVE Copy
  <2>1. ASSUME NEW d \in BOOLEAN, NEW s \in BOOLEAN, OpenRoots(d, s) \/ CloseRoots(d, s)
        PROVE  FALSE
    BY <1>1, <2>1, Modes DEF OpenRoots, CloseRoots
  <2>2. Protect => FALSE
    BY <1>1, Modes DEF Protect
  <2>3. Retire \/ Discard => FALSE
    <3>1. ASSUME stage \in Directory, NEW art \in {stage.art, Broken}
          PROVE  [stage EXCEPT !.art = art, !.open = TRUE] \in Directory
      BY <3>1 DEF Directory
    <3> QED BY <1>1, <3>1 DEF Retire, Discard, Teardown
  <2>4. ASSUME NEW i \in Inodes, MakeStage(i) PROVE FALSE
    <3>1. [ino |-> i, art |-> Broken, open |-> TRUE] \in Directory
      BY DEF Directory
    <3> QED BY <1>1, <2>4, <3>1 DEF MakeStage
  <2> QED
    BY <1>1, <2>1, <2>2, <2>3, <2>4
    DEF OverlayNext, Request, WriteIntent, IdentifyStage, Check, OpenParent, MoveOverlay,
        CloseParent, Verify, Record, InspectOld, Finish, RecoverOverlay, Ends, Meddle, overlayVars
<1>2. CASE Copy
  BY <1>2 DEF Copy, JournalInv, FilledInv, Removal
<1>3. ASSUME Filled \in {destination, stage} PROVE FilledInv'
  <2>0. UNCHANGED <<metadata, journal>> /\ ~ RecoverOverlay
    <3>1. \A r : Seen(Filled, r) = "Other"
      BY DEF Seen
    <3>2. ~ RecoverOverlay
      BY <1>3, <3>1 DEF RecoverOverlay, Before, After, Recorded
    <3> QED BY <1>3, <3>2, FilledUnrecorded
  <2> USE <1>3, <2>0 DEF FilledInv
  <2>1. Protect => FilledInv'
    BY Modes DEF Protect, Removal
  <2>2. Check \/ OpenParent \/ CloseParent => FilledInv'
    BY DEF Check, OpenParent, CloseParent, Removal, InPlace
  <2>3. ASSUME NEW d \in BOOLEAN, NEW s \in BOOLEAN, OpenRoots(d, s) PROVE FilledInv'
    BY <2>3, Modes DEF OpenRoots, Removal
  <2>4. ASSUME NEW d \in BOOLEAN, NEW s \in BOOLEAN, CloseRoots(d, s) PROVE FilledInv'
    BY <2>4, Modes DEF CloseRoots, AfterMove, Removal
  <2>5. MoveOverlay => FilledInv'
    BY DEF MoveOverlay, MovesIn, MovesOut, Removal, FirstPublish, Replacement
  <2>6. Verify => FALSE
    BY DEF Verify, Moved, Protected
  <2>7. Ends => FilledInv'
    BY DEF Ends
  <2>8. Meddle => FilledInv'
    <3>1. Meddle => /\ destination' = Filled => destination = Filled
                    /\ stage' = Filled => stage = Filled
      BY DEF Meddle
    <3> QED BY <3>1 DEF Meddle, Removal
  <2>9. UNCHANGED overlayVars => FilledInv'
    BY DEF overlayVars, Removal
  <2> QED
    BY <2>1, <2>2, <2>3, <2>4, <2>5, <2>6, <2>7, <2>8, <2>9
    DEF OverlayNext, Request, WriteIntent, MakeStage, IdentifyStage, Copy, Record, InspectOld,
        Retire, Discard, Finish
<1> QED BY <1>1, <1>2, <1>3

-----------------------------------------------------------------------------
LEMMA JournalStep ==
  ASSUME OverlayTypeOK, JournalInv, [OverlayNext]_overlayVars
  PROVE  JournalInv'
<1> USE OverlayAssumption, PlacesAssumption DEF OverlayTypeOK, JournalInv, AtPhase, To
<1>1. ASSUME NEW a \in Artifacts \cup {Nothing}, Request(a) PROVE JournalInv'
  <2>1. WellFormed(tx')
    BY <1>1 DEF Request, InPlace, Protected, WellFormed, Removal, Directory
  <2> QED BY <1>1, <2>1 DEF Request, WellFormed, Removal
<1>2. WriteIntent => JournalInv'
  BY DEF WriteIntent, WellFormed, Removal, Journal
<1>3. ASSUME NEW i \in Inodes, MakeStage(i) PROVE JournalInv'
  <2>1. tx' = [tx EXCEPT !.candidate = i] /\ tx \in Journal /\ journal = tx /\ journal' = tx
    BY <1>3 DEF MakeStage
  <2>2. /\ tx'.old = tx.old /\ tx'.candidate = i /\ tx'.oldOverlay = tx.oldOverlay
        /\ tx'.newOverlay = tx.newOverlay
    BY <2>1 DEF Journal
  <2>3. journal' = [tx' EXCEPT !.candidate = Nothing]
    BY <1>3, <2>1 DEF MakeStage, Journal
  <2> QED BY <1>3, <2>1, <2>2, <2>3 DEF MakeStage, WellFormed, Removal
<1>4. IdentifyStage \/ Check \/ OpenParent \/ MoveOverlay \/ CloseParent \/ Verify \/ Record
        \/ InspectOld \/ Ends \/ UNCHANGED overlayVars => JournalInv'
  BY DEF IdentifyStage, Check, OpenParent, MoveOverlay, CloseParent, Verify, Record, InspectOld,
         Ends, overlayVars, WellFormed, Removal
<1>5. Copy \/ Protect => JournalInv'
  <2>1. Copy => stage' \notin Directory \/ (stage \in Directory /\ stage'.ino = stage.ino)
    BY DEF Copy, Directory
  <2>2. Protect => stage' \notin Directory \/ (stage \in Directory /\ stage'.ino = stage.ino)
    BY Modes DEF Protect
  <2> QED BY <2>1, <2>2 DEF Copy, Protect, WellFormed, Removal
<1>6. ASSUME NEW d \in BOOLEAN, NEW s \in BOOLEAN, OpenRoots(d, s) PROVE JournalInv'
  BY <1>6, Modes DEF OpenRoots, WellFormed, Removal
<1>7. ASSUME NEW d \in BOOLEAN, NEW s \in BOOLEAN, CloseRoots(d, s) PROVE JournalInv'
  BY <1>7, Modes DEF CloseRoots, AfterMove, WellFormed, Removal
<1>8. ASSUME NEW ino, Teardown(ino)
      PROVE  stage' \notin Directory \/ (stage \in Directory /\ stage'.ino = stage.ino)
  BY <1>8 DEF Teardown, Directory
<1>9. Retire \/ Discard => JournalInv'
  BY <1>8 DEF Retire, Discard, Teardown, WellFormed, Removal
<1>10. Finish => JournalInv'
  BY DEF Finish, WellFormed, Removal
<1>11. RecoverOverlay => JournalInv'
  <2>1. ASSUME RecoverOverlay, phase' = "discard" PROVE ~ Removal(journal)
    BY <2>1 DEF RecoverOverlay, Before, Seen, WellFormed, Directory, Place
  <2> QED BY <2>1 DEF RecoverOverlay, WellFormed, Removal
<1>12. Meddle => JournalInv'
  BY DEF Meddle, WellFormed, Removal, Theirs
<1> QED
  BY <1>1, <1>2, <1>3, <1>4, <1>5, <1>6, <1>7, <1>9, <1>10, <1>11, <1>12 DEF OverlayNext

-----------------------------------------------------------------------------
\* The three arrangements depend on the directories only, not on who may write to them.
LEMMA OverlayTreeStays ==
  ASSUME NEW r, NEW d \in Place, NEW e \in Place,
         d \notin Directory => e = d,
         d \in Directory => e \in Directory /\ e.ino = d.ino /\ e.art = d.art
  PROVE  (IsOld(r, e) <=> IsOld(r, d)) /\ (IsNew(r, e) <=> IsNew(r, d)) /\ (Rest(e) <=> Rest(d))
BY PlacesAssumption DEF IsOld, IsNew, Rest, Place

\* What observedTree reports is where the directories are.
LEMMA SeenMeans ==
  ASSUME NEW r \in Journal, WellFormed(r), NEW d \in Place
  PROVE  /\ Seen(d, r) = "Old" => r.old # Nothing /\ IsOld(r, d)
         /\ Seen(d, r) = "New" => ~ Removal(r) /\ IsNew(r, d)
         /\ Seen(d, r) = "Missing" <=> d = Nothing
         /\ IsOld(r, d) /\ r.old # Nothing => Seen(d, r) = "Old"
         /\ IsNew(r, d) /\ ~ Removal(r) => Seen(d, r) = "New"
BY OverlayAssumption, PlacesAssumption
DEF Seen, WellFormed, IsOld, IsNew, Removal, Place, Directory

LEMMA PhaseStep ==
  ASSUME OverlayIInv, Unmeddled, Unmeddled', OverlayTypeOK', JournalInv', [OverlayNext]_overlayVars
  PROVE  PhaseInv'
<1> USE OverlayAssumption, PlacesAssumption
<1>0. OverlayTypeOK /\ JournalInv /\ PhaseInv
  BY DEF OverlayIInv
<1>1. ASSUME NEW a \in Artifacts \cup {Nothing}, Request(a) PROVE PhaseInv'
  <2>1. Settled /\ phase' = "intent" /\ tx'.oldOverlay = metadata
    BY <1>1, <1>0 DEF Request, PhaseInv, AtPhase, To
  <2>2. tx'.old = IF destination = Nothing THEN Nothing ELSE destination.ino
    BY <1>1 DEF Request
  <2>3. IsOld(tx', destination)
    BY <1>0, <2>1, <2>2 DEF Settled, IsOld, OverlayTypeOK, Directory
  <2>4. UNCHANGED <<destination, stage, metadata>>
    BY <1>1 DEF Request
  <2> QED BY <2>1, <2>3, <2>4 DEF PhaseInv, Settled, IsOld
<1>2. WriteIntent => PhaseInv'
  <2> SUFFICES ASSUME WriteIntent PROVE PhaseInv'
    OBVIOUS
  <2>1. Settled /\ tx.oldOverlay = metadata /\ IsOld(tx, destination) /\ tx \in Journal
    BY <1>0 DEF WriteIntent, PhaseInv, AtPhase, OverlayTypeOK
  <2>2. UNCHANGED <<destination, stage, metadata, tx>>
    BY DEF WriteIntent
  <2>3. CASE journal' = TornJournal /\ phase' = "idle"
    BY <2>1, <2>2, <2>3 DEF PhaseInv, Settled
  <2>4. CASE journal' = tx /\ phase' = (IF Removal(tx) THEN "check" ELSE "mkdir")
    BY <2>1, <2>2, <2>4 DEF PhaseInv, Settled, Begun, Ready, Rest, IsOld, IsNew, Removal
  <2> QED BY <2>3, <2>4 DEF WriteIntent, To
<1>3. ASSUME NEW i \in Inodes, MakeStage(i) PROVE PhaseInv'
  <2>1. metadata = tx.oldOverlay /\ IsOld(tx, destination) /\ journal = tx /\ tx \in Journal
    BY <1>0, <1>3 DEF MakeStage, PhaseInv, AtPhase, Begun, JournalInv, OverlayTypeOK
  <2>2. stage' \in Directory /\ stage'.art = Broken /\ stage'.ino = i
    BY <1>3 DEF MakeStage, Directory
  <2>3. tx'.candidate = i
    BY <1>3, <2>1 DEF MakeStage, Journal
  <2> QED BY <1>3, <2>1, <2>2, <2>3 DEF MakeStage, To, PhaseInv, Begun, Rest, IsOld
<1>4. IdentifyStage => PhaseInv'
  <2> SUFFICES ASSUME IdentifyStage PROVE PhaseInv'
    OBVIOUS
  <2>1. journal = [tx EXCEPT !.candidate = Nothing] /\ tx \in Journal
    BY <1>0 DEF IdentifyStage, AtPhase, JournalInv, OverlayTypeOK
  <2>2. journal.old = tx.old /\ journal.oldOverlay = tx.oldOverlay
    BY <2>1 DEF Journal
  <2> QED BY <1>0, <2>2 DEF IdentifyStage, AtPhase, To, PhaseInv, Begun, Rest, IsOld
<1>5. Copy => PhaseInv'
  <2> SUFFICES ASSUME Copy PROVE PhaseInv'
    OBVIOUS
  <2>1. /\ journal = tx /\ ~ Removal(tx) /\ Begun(tx)
        /\ stage \in Directory /\ stage.ino = tx.candidate /\ tx \in Journal
    BY <1>0 DEF Copy, AtPhase, JournalInv, PhaseInv, OverlayTypeOK
  <2>2. stage' \in Directory /\ stage'.ino = stage.ino /\ stage'.art = tx.newOverlay
    BY <2>1 DEF Copy, Directory, Journal, Removal
  <2> QED BY <2>1, <2>2 DEF Copy, To, PhaseInv, Begun, Ready, IsOld, IsNew, Removal
<1>6. Protect => PhaseInv'
  <2> SUFFICES ASSUME Protect PROVE PhaseInv'
    OBVIOUS
  <2>1. Ready(tx) /\ stage \in Place
    BY <1>0 DEF Protect, AtPhase, PhaseInv, OverlayTypeOK
  <2>2. IsNew(tx, Shut(stage))
    BY <2>1, Modes, OverlayTreeStays DEF Ready
  <2> QED BY <2>1, <2>2 DEF Protect, To, PhaseInv, Ready, IsOld, IsNew, Removal
<1>7. Check => PhaseInv'
  BY <1>0 DEF Check, AtPhase, To, PhaseInv, Ready, IsOld, IsNew, Removal
<1>8. ASSUME NEW d \in BOOLEAN, NEW s \in BOOLEAN, OpenRoots(d, s) PROVE PhaseInv'
  <2>1. /\ IsOld(tx, destination') <=> IsOld(tx, destination)
        /\ IsOld(tx, stage') <=> IsOld(tx, stage)
        /\ IsNew(tx, destination') <=> IsNew(tx, destination)
        /\ IsNew(tx, stage') <=> IsNew(tx, stage)
    BY <1>0, <1>8, Modes, OverlayTreeStays DEF OpenRoots, OverlayTypeOK
  <2>2. UNCHANGED <<metadata, tx, journal, undoing>> /\ journal = tx /\ tx \in Journal
    BY <1>0, <1>8 DEF OpenRoots, AtPhase, JournalInv, OverlayTypeOK
  <2>3. IF undoing THEN Swapped(tx) ELSE Ready(tx)
    BY <1>0, <1>8 DEF OpenRoots, AtPhase, PhaseInv
  <2>4. IF undoing THEN Swapped(tx)' ELSE Ready(tx)'
    BY <2>1, <2>2, <2>3 DEF Swapped, Ready, IsOld, IsNew, Removal
  <2>5. (Ready(tx)' => Begun(tx)') /\ phase' \in {"idle", "openParent"}
    BY <1>8 DEF Ready, Begun, OpenRoots, To
  <2> QED BY <2>2, <2>4, <2>5 DEF PhaseInv
<1>9. OpenParent => PhaseInv'
  BY <1>0 DEF OpenParent, AtPhase, To, PhaseInv, Ready, Swapped, IsOld, IsNew, Removal
<1>10. MoveOverlay => PhaseInv'
  <2> SUFFICES ASSUME MoveOverlay PROVE PhaseInv'
    OBVIOUS
  <2>1. /\ IF undoing THEN Swapped(tx) ELSE Ready(tx)
        /\ UNCHANGED <<metadata, tx, undoing>> /\ phase' = "closeParent"
    BY <1>0 DEF MoveOverlay, AtPhase, To, PhaseInv
  <2>2. CASE destination' = stage /\ stage' = destination /\ moved' = TRUE
    BY <2>1, <2>2 DEF PhaseInv, Ready, Swapped, IsOld, IsNew, Removal
  <2>3. CASE moved' = FALSE /\ UNCHANGED <<destination, stage>>
    BY <2>1, <2>3 DEF PhaseInv, Ready, Swapped, IsOld, IsNew, Removal
  <2> QED BY <2>2, <2>3 DEF MoveOverlay
<1>11. CloseParent => PhaseInv'
  BY <1>0 DEF CloseParent, AtPhase, To, PhaseInv, Ready, Swapped, IsOld, IsNew, Removal
<1>12. ASSUME NEW d \in BOOLEAN, NEW s \in BOOLEAN, CloseRoots(d, s) PROVE PhaseInv'
  <2>1. /\ IsOld(tx, destination') <=> IsOld(tx, destination)
        /\ IsOld(tx, stage') <=> IsOld(tx, stage)
        /\ IsNew(tx, destination') <=> IsNew(tx, destination)
        /\ IsNew(tx, stage') <=> IsNew(tx, stage)
    BY <1>0, <1>12, Modes, OverlayTreeStays DEF CloseRoots, OverlayTypeOK
  <2>2. UNCHANGED <<metadata, tx, journal, undoing>> /\ journal = tx /\ tx \in Journal
    BY <1>0, <1>12 DEF CloseRoots, AtPhase, JournalInv, OverlayTypeOK
  <2>3. IF moved THEN IF undoing THEN Ready(tx) ELSE Swapped(tx) ELSE Ready(tx) \/ Swapped(tx)
    BY <1>0, <1>12 DEF CloseRoots, AtPhase, PhaseInv
  <2>4. IF moved THEN IF undoing THEN Ready(tx)' ELSE Swapped(tx)' ELSE Ready(tx)' \/ Swapped(tx)'
    BY <2>1, <2>2, <2>3 DEF Swapped, Ready, IsOld, IsNew, Removal
  <2>5. Ready(tx)' => Begun(tx)'
    BY DEF Ready, Begun
  <2>6. CASE phase' = "idle"
    BY <2>2, <2>4, <2>5, <2>6 DEF PhaseInv
  <2>7. CASE moved /\ phase' = AfterMove
    <3>1. (Ready(tx)' /\ Removal(tx)) => stage' = Nothing
      BY <2>2 DEF Ready, IsNew, Removal
    <3> QED BY <2>2, <2>4, <2>5, <2>7, <3>1 DEF PhaseInv, AfterMove
  <2> QED BY <1>12, <2>6, <2>7 DEF CloseRoots, To
<1>13. Verify => PhaseInv'
  BY <1>0 DEF Verify, AtPhase, To, PhaseInv, Swapped, IsOld, IsNew, Removal
<1>14. Record => PhaseInv'
  <2> SUFFICES ASSUME Record PROVE PhaseInv'
    OBVIOUS
  <2>1. Swapped(tx) /\ tx \in Journal
    BY <1>0 DEF Record, AtPhase, PhaseInv, OverlayTypeOK
  <2>2. UNCHANGED <<destination, stage, tx>>
    BY DEF Record
  <2>3. CASE /\ metadata' = tx.newOverlay
             /\ phase' = (IF FirstPublish(tx) THEN "finish" ELSE "inspect")
    <3>1. FirstPublish(tx) => stage = Nothing
      BY <2>1 DEF Swapped, IsOld, FirstPublish
    <3>2. ~ FirstPublish(tx) => tx.old # Nothing
      BY <1>0 DEF Record, AtPhase, JournalInv, WellFormed, FirstPublish, Removal
    <3> QED BY <2>1, <2>2, <2>3, <3>1, <3>2 DEF PhaseInv, Swapped, Written, IsOld, IsNew, Removal
  <2>4. CASE phase' = "openRoots" /\ undoing' = TRUE /\ UNCHANGED metadata
    BY <2>1, <2>2, <2>4 DEF PhaseInv, Swapped, IsOld, IsNew, Removal
  <2> QED BY <2>3, <2>4 DEF Record, To
<1>15. InspectOld => PhaseInv'
  BY <1>0 DEF InspectOld, AtPhase, To, PhaseInv, Written, Rest, IsOld, IsNew, Removal
<1>16. Retire => PhaseInv'
  <2> SUFFICES ASSUME Retire PROVE PhaseInv'
    OBVIOUS
  <2>1. /\ Written(tx) /\ IsOld(tx, stage) /\ journal = tx /\ tx \in Journal
        /\ stage \in Directory /\ stage.ino = tx.old /\ tx.old # Nothing
    BY <1>0 DEF Retire, AtPhase, PhaseInv, JournalInv, OverlayTypeOK, Teardown, IsOld
  <2>2. UNCHANGED <<destination, metadata, tx, journal>>
    BY DEF Retire
  <2>3. CASE stage' = Nothing /\ phase' = "finish"
    BY <2>1, <2>2, <2>3 DEF PhaseInv, Written, Rest, IsNew, Removal
  <2>4. CASE phase' = "idle" /\ \E art \in {stage.art, Broken} :
               stage' = [stage EXCEPT !.art = art, !.open = TRUE]
    <3>1. Rest(stage') \/ IsOld(tx, stage')
      <4>1. PICK art \in {stage.art, Broken} : stage' = [stage EXCEPT !.art = art, !.open = TRUE]
        BY <2>4
      <4>2. stage' \in Directory /\ stage'.ino = stage.ino /\ stage'.art = art
        BY <2>1, <4>1 DEF Directory
      <4> QED BY <2>1, <4>2 DEF Rest, IsOld
    <3> QED BY <2>1, <2>2, <2>4, <3>1 DEF PhaseInv, Written, Rest, IsOld, IsNew, Removal
  <2> QED BY <2>3, <2>4 DEF Retire, Teardown, To
<1>17. Discard => PhaseInv'
  <2> SUFFICES ASSUME Discard PROVE PhaseInv'
    OBVIOUS
  <2>1. /\ Ready(tx) /\ journal = tx /\ tx \in Journal
        /\ stage \in Directory /\ stage.ino = tx.candidate /\ ~ Removal(tx)
    BY <1>0 DEF Discard, AtPhase, PhaseInv, JournalInv, OverlayTypeOK, Teardown
  <2>2. UNCHANGED <<destination, metadata, tx, journal>>
    BY DEF Discard
  <2>3. CASE stage' = Nothing /\ phase' = "finish"
    BY <2>1, <2>2, <2>3 DEF PhaseInv, Ready, Begun, Rest, IsOld
  <2>4. CASE phase' = "idle" /\ \E art \in {stage.art, Broken} :
               stage' = [stage EXCEPT !.art = art, !.open = TRUE]
    <3>1. Rest(stage') \/ IsNew(tx, stage')
      <4>1. PICK art \in {stage.art, Broken} : stage' = [stage EXCEPT !.art = art, !.open = TRUE]
        BY <2>4
      <4>2. stage' \in Directory /\ stage'.ino = stage.ino /\ stage'.art = art
        BY <2>1, <4>1 DEF Directory
      <4> QED BY <2>1, <4>2 DEF Ready, Rest, IsNew
    <3> QED BY <2>1, <2>2, <2>4, <3>1 DEF PhaseInv, Ready, Begun, Rest, IsOld, IsNew, Removal
  <2> QED BY <2>3, <2>4 DEF Discard, Teardown, To
<1>18. Finish => PhaseInv'
  <2> SUFFICES ASSUME Finish PROVE PhaseInv'
    OBVIOUS
  <2>1. stage = Nothing /\ (Begun(tx) \/ Written(tx)) /\ WellFormed(tx) /\ tx \in Journal
    BY <1>0 DEF Finish, AtPhase, PhaseInv, JournalInv, OverlayTypeOK
  <2>2. Settled
    BY <2>1 DEF Settled, Begun, Written, IsOld, IsNew, Removal, WellFormed
  <2> QED BY <2>2 DEF Finish, To, PhaseInv, Settled
<1>19. RecoverOverlay => PhaseInv'
  <2> SUFFICES ASSUME RecoverOverlay PROVE PhaseInv'
    OBVIOUS
  <2>1. /\ journal \in Journal /\ WellFormed(journal) /\ tx' = journal
        /\ UNCHANGED <<destination, stage, metadata, journal>>
        /\ destination \in Place /\ stage \in Place
    BY <1>0 DEF RecoverOverlay, JournalInv, OverlayTypeOK
  <2> DEFINE r == journal
  <2>2. CASE metadata = r.oldOverlay /\ Before(r)
             /\ phase' = (IF Seen(stage, r) = "New" THEN "discard" ELSE "finish")
    <3>1. IsOld(r, destination)
      <4>1. CASE FirstPublish(r)
        BY <2>1, <2>2, <4>1, SeenMeans DEF Before, FirstPublish, IsOld
      <4>2. CASE ~ FirstPublish(r)
        BY <2>1, <2>2, <4>2, SeenMeans DEF Before
      <4> QED BY <4>1, <4>2
    <3>2. CASE Seen(stage, r) = "New"
      BY <2>1, <2>2, <3>1, <3>2, SeenMeans DEF PhaseInv, Ready, IsOld, IsNew, Removal
    <3>3. CASE Seen(stage, r) = "Missing"
      BY <2>1, <2>2, <3>1, <3>3, SeenMeans DEF PhaseInv, Begun, Rest, IsOld
    <3> QED BY <2>2, <3>2, <3>3 DEF Before
  <2>3. CASE metadata = r.oldOverlay /\ After(r) /\ undoing' = TRUE /\ phase' = "openRoots"
    <3>1. IsNew(r, destination)
      BY <2>1, <2>3, SeenMeans DEF After, IsNew
    <3>2. IsOld(r, stage)
      BY <2>1, <2>3, SeenMeans DEF After, FirstPublish, IsOld
    <3> QED BY <2>1, <2>3, <3>1, <3>2 DEF PhaseInv, Swapped, IsOld, IsNew, Removal
  <2>4. CASE Recorded(r) /\ phase' = (IF Seen(stage, r) = "Old" THEN "retire" ELSE "finish")
    <3>1. metadata = r.newOverlay /\ IsNew(r, destination)
      BY <2>1, <2>4, SeenMeans DEF Recorded, IsNew
    <3>2. CASE Seen(stage, r) = "Old"
      BY <2>1, <2>4, <3>1, <3>2, SeenMeans DEF PhaseInv, Written, IsOld, IsNew, Removal
    <3>3. CASE Seen(stage, r) = "Missing"
      BY <2>1, <2>4, <3>1, <3>3, SeenMeans DEF PhaseInv, Written, Rest, IsNew, Removal
    <3> QED BY <2>4, <3>2, <3>3 DEF Recorded
  <2> QED BY <2>2, <2>3, <2>4 DEF RecoverOverlay, To
<1>20. Ends => PhaseInv'
  <2> SUFFICES ASSUME Ends PROVE PhaseInv'
    OBVIOUS
  <2>1. /\ UNCHANGED <<destination, stage, metadata, journal, tx>> /\ phase' = "idle"
        /\ phase # "idle" /\ phase \in Phases
    BY <1>0 DEF Ends, To, OverlayTypeOK
  <2>2. CASE phase = "intent"
    <3>1. Settled /\ journal \notin Journal
      BY <1>0, <2>2 DEF PhaseInv, JournalInv
    <3> QED BY <2>1, <3>1 DEF PhaseInv, Settled
  <2>3. CASE phase \notin {"idle", "intent"}
    <3>1. journal \in Journal /\ (phase # "identify" => journal = tx)
      BY <1>0, <2>3 DEF JournalInv
    <3>2. \A r : Ready(r) => Begun(r)
      BY DEF Ready, Begun
    <3>3. Begun(journal) \/ Swapped(journal) \/ Written(journal)
      BY <1>0, <2>1, <2>3, <3>1, <3>2 DEF PhaseInv, Phases
    <3>4. Begun(journal)' \/ Swapped(journal)' \/ Written(journal)'
      BY <2>1, <3>3 DEF Begun, Swapped, Written, Rest, IsOld, IsNew, Removal
    <3> QED BY <2>1, <3>1, <3>4 DEF PhaseInv
  <2> QED BY <2>1, <2>2, <2>3
<1>21. Meddle => PhaseInv'
  BY DEF Meddle, Unmeddled, Theirs
<1>22. UNCHANGED overlayVars => PhaseInv'
  BY <1>0 DEF overlayVars, PhaseInv, Begun, Ready, Swapped, Written, Settled, Rest, IsOld, IsNew, Removal
<1> QED
  BY <1>1, <1>2, <1>3, <1>4, <1>5, <1>6, <1>7, <1>8, <1>9, <1>10, <1>11, <1>12, <1>13, <1>14,
     <1>15, <1>16, <1>17, <1>18, <1>19, <1>20, <1>21, <1>22 DEF OverlayNext

-----------------------------------------------------------------------------
\* The inductive invariant: the journal and the call at work are one transaction, and
\* the two directories are where its phase says, unless somebody meddled.
THEOREM OverlayInvariant == OverlaySpec => []OverlayIInv
<1>1. OverlayInit => OverlayIInv
  BY OverlayAssumption, PlacesAssumption
  DEF OverlayInit, OverlayIInv, OverlayTypeOK, JournalInv, FilledInv, PhaseInv, Settled, Place,
      Theirs, Phases
<1>2. OverlayIInv /\ [OverlayNext]_overlayVars => OverlayIInv'
  <2> SUFFICES ASSUME OverlayIInv, [OverlayNext]_overlayVars PROVE OverlayIInv'
    OBVIOUS
  <2>1. OverlayTypeOK' /\ JournalInv' /\ FilledInv'
    BY OverlayTypeStep, JournalStep, FilledStep DEF OverlayIInv
  <2>2. Unmeddled' => Unmeddled
    BY TheirsStep DEF OverlayIInv, Unmeddled
  <2>3. Unmeddled' => PhaseInv'
    BY <2>1, <2>2, PhaseStep
  <2> QED BY <2>1, <2>3 DEF OverlayIInv
<1> QED BY <1>1, <1>2, PTL DEF OverlaySpec

\* Every interruption, failure and recovery ends with metadata and mount that agree
\* and no stage left, as soon as there is no journal (removeTransaction is last).
THEOREM OverlaySettles == OverlaySpec => []SettledAgrees
<1>1. OverlayIInv => SettledAgrees
  <2> SUFFICES ASSUME OverlayIInv, journal = Nothing, Unmeddled PROVE Settled
    BY DEF SettledAgrees, Settled
  <2>1. phase \in {"idle", "intent"} /\ PhaseInv
    BY PlacesAssumption DEF OverlayIInv, JournalInv
  <2> QED BY <2>1, PlacesAssumption DEF PhaseInv
<1> QED BY <1>1, OverlayInvariant, PTL

\* The recorded overlay is whole somewhere: teardownDirectory never meets it.
THEOREM OverlaySurvives == OverlaySpec => []RecordedSurvives
<1>1. OverlayIInv => RecordedSurvives
  <2> SUFFICES ASSUME OverlayIInv, metadata # Nothing, Unmeddled
               PROVE  \E d \in {destination, stage} : d \in Directory /\ d.art = metadata
    BY DEF RecordedSurvives
  <2>1. PhaseInv /\ JournalInv /\ phase \in Phases
    BY DEF OverlayIInv, OverlayTypeOK
  <2>2. ASSUME NEW r, WellFormed(r), Begun(r) \/ Ready(r) \/ Swapped(r) \/ Written(r)
        PROVE  \E d \in {destination, stage} : d \in Directory /\ d.art = metadata
    BY <2>2 DEF WellFormed, Begun, Ready, Swapped, Written, IsOld, IsNew, Removal
  <2>3. CASE phase = "intent" \/ (phase = "idle" /\ journal \notin Journal)
    BY <2>1, <2>3 DEF PhaseInv, Settled
  <2>4. CASE phase \in {"idle", "identify", "copy"} /\ journal \in Journal
    BY <2>1, <2>2, <2>4 DEF PhaseInv, JournalInv
  <2>5. CASE phase \notin {"idle", "intent", "identify", "copy"}
    BY <2>1, <2>2, <2>5 DEF PhaseInv, JournalInv, Phases
  <2> QED BY <2>1, <2>3, <2>4, <2>5 DEF JournalInv
<1> QED BY <1>1, OverlayInvariant, PTL

\* Unless an artifact may replace one of the same digest, recoverDistOverlay accepts
\* whatever a publication or an earlier recovery leaves.
THEOREM OverlayRecovers == ASSUME ~ Republish PROVE OverlaySpec => []OverlayRecoverable
<1>1. OverlayIInv => OverlayRecoverable
  <2> SUFFICES ASSUME OverlayIInv, journal \in Journal, Unmeddled,
                      stage \in Directory => stage.art # Broken
               PROVE  Accepted(journal)
    BY DEF OverlayRecoverable
  <2>1. /\ PhaseInv /\ JournalInv /\ phase \in Phases /\ WellFormed(journal)
        /\ destination \in Place /\ stage \in Place
    BY DEF OverlayIInv, OverlayTypeOK, JournalInv
  <2>2. journal.oldOverlay # journal.newOverlay
    BY <2>1 DEF WellFormed
  <2>3. \A r : Ready(r) => Begun(r)
    BY DEF Ready, Begun
  <2>4. Begun(journal) \/ Swapped(journal) \/ Written(journal)
    <3>1. phase \notin {"idle", "intent", "identify"} => journal = tx
      BY <2>1 DEF JournalInv
    <3>2. phase # "intent"
      BY <2>1, PlacesAssumption DEF JournalInv
    <3> QED BY <2>1, <2>3, <3>1, <3>2 DEF PhaseInv, Phases
  <2>5. CASE Begun(journal)
    <3>1. stage = Nothing \/ IsNew(journal, stage)
      BY <2>5 DEF Begun, Rest
    <3>2. Seen(stage, journal) \in {"New", "Missing"}
      BY <2>1, <3>1, SeenMeans DEF IsNew
    <3>3. Seen(destination, journal) = IF FirstPublish(journal) THEN "Missing" ELSE "Old"
      BY <2>1, <2>5, SeenMeans DEF Begun, WellFormed, FirstPublish, Removal, IsOld
    <3> QED BY <2>5, <3>2, <3>3 DEF Accepted, Before, Begun
  <2>6. CASE Swapped(journal)
    <3>1. Seen(destination, journal) = IF Removal(journal) THEN "Missing" ELSE "New"
      BY <2>1, <2>6, SeenMeans DEF Swapped, IsNew
    <3>2. Seen(stage, journal) = IF FirstPublish(journal) THEN "Missing" ELSE "Old"
      BY <2>1, <2>6, SeenMeans DEF Swapped, WellFormed, FirstPublish, Removal, IsOld
    <3> QED BY <2>6, <3>1, <3>2 DEF Accepted, After, Swapped
  <2>7. CASE Written(journal)
    <3>1. Seen(destination, journal) = IF Removal(journal) THEN "Missing" ELSE "New"
      BY <2>1, <2>7, SeenMeans DEF Written, IsNew
    <3>2. stage = Nothing \/ IsOld(journal, stage)
      BY <2>7 DEF Written, Rest
    <3>3. Seen(stage, journal) \in {"Old", "Missing"}
      BY <2>1, <3>2, SeenMeans DEF IsOld
    <3> QED BY <2>2, <2>7, <3>1, <3>3 DEF Accepted, Recorded, Written
  <2> QED BY <2>4, <2>5, <2>6, <2>7
<1> QED BY <1>1, OverlayInvariant, PTL

\* A directory that somebody else put at the stage may be filled and moved into place; it
\* is never removed, and never recorded (validateTreeIdentity, observedTree).
THEOREM OverlayRefusesStrange == OverlaySpec => StrangeRefused
<1>1. OverlayIInv /\ [OverlayNext]_overlayVars
        => [/\ {destination, stage} \cap Theirs # {} => {destination', stage'} \cap Theirs # {}
            /\ {destination, stage} \subseteq Theirs => {destination', stage'} \subseteq Theirs
            /\ Filled \in {destination, stage} => UNCHANGED <<metadata, journal>>]_overlayVars
  BY TheirsStep, FilledUnrecorded DEF OverlayIInv
<1> QED BY <1>1, OverlayInvariant, PTL DEF OverlaySpec, StrangeRefused
=============================================================================
