---------------------------- MODULE DistOverlay ----------------------------
(***************************************************************************)
(* The life of one dist overlay in a composed workspace (megarepo,         *)
(* dist-overlay-lifecycle.ts): a build artifact is copied to a stage, moved *)
(* or exchanged with the directory in place, recorded in the metadata of   *)
(* the mount, and the old directory is removed; a journal says how to go   *)
(* back or forward after an interruption.                                  *)
(*                                                                         *)
(* One action is one change of the file system with the checks the code    *)
(* makes right before it.  One process at a time works on the overlay (the *)
(* workspace update lock, see WorkspaceUpdateLock); its call may end, with *)
(* an error or a death, at any point.  Names are prefixed so that a        *)
(* composition can extend several modules.                                 *)
(***************************************************************************)
CONSTANTS
  Artifacts,   \* build outputs, by digest and count
  Inodes,      \* bound: the directories created, by identity
  Nothing,     \* no directory, no record, no journal
  Strange,     \* what somebody else put there, whatever has been written into it
  Filled,      \* a directory of somebody else that holds the copied artifact and nothing more
  Broken,      \* bytes of no artifact: partly copied or partly removed
  TornJournal, \* a journal whose writer died before the bytes were complete
  Republish    \* TRUE: an artifact may replace one of the same digest

ASSUME OverlayAssumption ==
  /\ Nothing \notin Artifacts /\ Broken \notin Artifacts /\ Broken # Nothing
  /\ Nothing \notin Inodes
  /\ Republish \in BOOLEAN

\* A directory of the protocol.  Its identity is the inode; open says that some
\* directory of it is still, or again, writable.
Directory == [ino : Inodes, art : Artifacts \cup {Broken}, open : BOOLEAN]

\* The journal.  The operation follows from what was and what is to be.
Journal == [old : Inodes \cup {Nothing}, candidate : Inodes \cup {Nothing},
            oldOverlay : Artifacts \cup {Nothing}, newOverlay : Artifacts \cup {Nothing}]

\* What somebody else put there; the modes of its files are left out.
Theirs == {Strange, Filled}

ASSUME PlacesAssumption ==
  /\ Nothing \notin Directory /\ Theirs \cap Directory = {} /\ Nothing \notin Theirs /\ Strange # Filled
  /\ Nothing \notin Journal /\ TornJournal \notin Journal /\ Nothing # TornJournal

Place == Directory \cup Theirs \cup {Nothing}

VARIABLES
  destination, \* the overlay inside the mount
  stage,       \* the stage of the transaction
  parentOpen,  \* the parent of the destination is writable
  metadata,    \* the overlay the metadata of the mount records
  journal,     \* the transaction file
  made,        \* inodes in use or used before
  phase,       \* where the call at work is
  tx,          \* its transaction
  undoing,     \* its move goes back
  moved        \* its move and the chmods around it succeeded

overlayVars == <<destination, stage, parentOpen, metadata, journal, made, phase, tx, undoing, moved>>

Phases == {"idle", "intent", "mkdir", "identify", "copy", "protect", "check", "openRoots",
           "openParent", "move", "closeParent", "closeRoots", "verify", "record", "inspect",
           "retire", "discard", "finish"}

OverlayInit ==
  /\ destination = Nothing /\ stage = Nothing /\ parentOpen = FALSE
  /\ metadata = Nothing /\ journal = Nothing
  /\ made = {}
  /\ phase = "idle" /\ tx = Nothing /\ undoing = FALSE /\ moved = FALSE

Removal(r) == r.newOverlay = Nothing
FirstPublish(r) == r.newOverlay # Nothing /\ r.old = Nothing
Replacement(r) == r.newOverlay # Nothing /\ r.old # Nothing

AtPhase(l) == phase = l
To(l) == phase' = l

\* validateTreeIdentity: the directory, whole and protected.
Protected(d, ino, art) == d \in Directory /\ d.ino = ino /\ d.art = art /\ ~ d.open

Opened(d) == IF d \in Directory THEN [d EXCEPT !.open = TRUE] ELSE d
Shut(d) == IF d \in Directory THEN [d EXCEPT !.open = FALSE] ELSE d

-----------------------------------------------------------------------------
\* publishDistOverlay: journal and candidate.

\* The mount passes its inspection and the destination is what the metadata says.
InPlace ==
  /\ ~ parentOpen
  /\ \/ metadata = Nothing /\ destination = Nothing
     \/ destination \in Directory /\ Protected(destination, destination.ino, metadata)

Request(a) ==
  /\ AtPhase("idle") /\ journal = Nothing
  /\ InPlace
  /\ a = Nothing => destination # Nothing
  /\ Republish \/ a # metadata
  /\ tx' = [old |-> IF destination = Nothing THEN Nothing ELSE destination.ino,
            candidate |-> Nothing, oldOverlay |-> metadata, newOverlay |-> a]
  /\ To("intent")
  /\ UNCHANGED <<destination, stage, parentOpen, metadata, journal, made, undoing, moved>>

WriteIntent ==
  /\ AtPhase("intent") /\ journal = Nothing
  /\ \/ journal' = tx /\ To(IF Removal(tx) THEN "check" ELSE "mkdir")
     \/ journal' = TornJournal /\ To("idle")
  /\ UNCHANGED <<destination, stage, parentOpen, metadata, made, tx, undoing, moved>>

MakeStage(i) ==
  /\ AtPhase("mkdir") /\ stage = Nothing /\ i \notin made
  /\ stage' = [ino |-> i, art |-> Broken, open |-> TRUE]
  /\ made' = made \cup {i}
  /\ tx' = [tx EXCEPT !.candidate = i]
  /\ To("identify")
  /\ UNCHANGED <<destination, parentOpen, metadata, journal, undoing, moved>>

\* Mutant of IdentifyStage: the journal is not rewritten.
KeepIntent ==
  /\ AtPhase("identify")
  /\ To("copy")
  /\ UNCHANGED <<destination, stage, parentOpen, metadata, journal, made, tx, undoing, moved>>

\* replaceTransaction: the journal names the candidate before anything is copied.
IdentifyStage ==
  /\ AtPhase("identify")
  /\ journal' = tx
  /\ To("copy")
  /\ UNCHANGED <<destination, stage, parentOpen, metadata, made, tx, undoing, moved>>

\* cp -a, into whatever is at the stage; a copy that stops half-way, or of an artifact
\* that changes, stays Broken.  Nothing but an empty directory ends up as the artifact.
Copy ==
  /\ AtPhase("copy") /\ stage # Nothing
  /\ IF stage \in Directory THEN stage' = [stage EXCEPT !.art = tx.newOverlay]
                           ELSE stage' \in Theirs
  /\ To("protect")
  /\ UNCHANGED <<destination, parentOpen, metadata, journal, made, tx, undoing, moved>>

\* protectTree, and the scan that compares what is at the stage with the artifact by
\* bytes: a directory of somebody else passes like the candidate.
Protect ==
  /\ AtPhase("protect")
  /\ stage = Filled \/ (stage \in Directory /\ stage.art = tx.newOverlay)
  /\ stage' = Shut(stage)
  /\ To("check")
  /\ UNCHANGED <<destination, parentOpen, metadata, journal, made, tx, undoing, moved>>

-----------------------------------------------------------------------------
\* The move, forward or back, between the chmods that make it possible.

\* Right before publication everything is as it was validated.
Check ==
  /\ AtPhase("check")
  /\ InPlace /\ metadata = tx.oldOverlay
  /\ IF destination = Nothing THEN tx.old = Nothing ELSE tx.old = destination.ino
  /\ undoing' = FALSE
  /\ To("openRoots")
  /\ UNCHANGED <<destination, stage, parentOpen, metadata, journal, made, tx, moved>>

\* withMovableOverlayRoots; one of the two chmods may fail, and the call with it.
OpenRoots(d, s) ==
  /\ AtPhase("openRoots")
  /\ destination' = IF d THEN Opened(destination) ELSE destination
  /\ stage' = IF s THEN Opened(stage) ELSE stage
  /\ To(IF d /\ s THEN "openParent" ELSE "idle")
  /\ UNCHANGED <<parentOpen, metadata, journal, made, tx, undoing, moved>>

OpenParent ==
  /\ AtPhase("openParent")
  /\ \/ parentOpen' = TRUE /\ To("move") /\ UNCHANGED moved
     \/ moved' = FALSE /\ To("closeRoots") /\ UNCHANGED parentOpen
  /\ UNCHANGED <<destination, stage, metadata, journal, made, tx, undoing>>

MovesIn(r) == IF undoing THEN Removal(r) ELSE FirstPublish(r)
MovesOut(r) == IF undoing THEN FirstPublish(r) ELSE Removal(r)

\* mv --no-clobber into the mount or out of it, or mv --exchange.
MoveOverlay ==
  /\ AtPhase("move")
  /\ \/ /\ \/ MovesIn(tx) /\ stage # Nothing /\ destination = Nothing
           \/ MovesOut(tx) /\ stage = Nothing /\ destination # Nothing
           \/ Replacement(tx) /\ stage # Nothing /\ destination # Nothing
        /\ destination' = stage /\ stage' = destination
        /\ moved' = TRUE
     \/ moved' = FALSE /\ UNCHANGED <<destination, stage>>
  /\ To("closeParent")
  /\ UNCHANGED <<parentOpen, metadata, journal, made, tx, undoing>>

CloseParent ==
  /\ AtPhase("closeParent")
  /\ \/ parentOpen' = FALSE /\ UNCHANGED moved
     \/ moved' = FALSE /\ UNCHANGED parentOpen
  /\ To("closeRoots")
  /\ UNCHANGED <<destination, stage, metadata, journal, made, tx, undoing>>

AfterMove == IF ~ undoing THEN "verify" ELSE IF Removal(tx) THEN "finish" ELSE "discard"

CloseRoots(d, s) ==
  /\ AtPhase("closeRoots")
  /\ destination' = IF d THEN Shut(destination) ELSE destination
  /\ stage' = IF s THEN Shut(stage) ELSE stage
  /\ To(IF d /\ s /\ moved THEN AfterMove ELSE "idle")
  /\ UNCHANGED <<parentOpen, metadata, journal, made, tx, undoing, moved>>

-----------------------------------------------------------------------------
\* Metadata and clean-up.

\* Mutant of Moved: the bytes in place are compared, the identity is not.
MovedBytes ==
  /\ IF Removal(tx) THEN destination = Nothing
     ELSE destination = Filled \/ (destination \in Directory /\ destination.art = tx.newOverlay)
  /\ FirstPublish(tx) \/ Protected(stage, tx.old, tx.oldOverlay)

\* The directories are where the move should have put them.
Moved ==
  /\ IF Removal(tx) THEN destination = Nothing
                    ELSE Protected(destination, tx.candidate, tx.newOverlay)
  /\ FirstPublish(tx) \/ Protected(stage, tx.old, tx.oldOverlay)

\* Mutant of Verify: the old directory is removed before the metadata is written.
VerifyAndRetire ==
  /\ AtPhase("verify") /\ Moved
  /\ To(IF FirstPublish(tx) THEN "record" ELSE "retire")
  /\ UNCHANGED <<destination, stage, parentOpen, metadata, journal, made, tx, undoing, moved>>

Verify ==
  /\ AtPhase("verify") /\ Moved
  /\ To("record")
  /\ UNCHANGED <<destination, stage, parentOpen, metadata, journal, made, tx, undoing, moved>>

\* Mutant of Record: a failed write is not rolled back.
RecordOrFinish ==
  /\ AtPhase("record")
  /\ \/ metadata' = tx.newOverlay /\ To(IF FirstPublish(tx) THEN "finish" ELSE "inspect")
     \/ To("finish") /\ UNCHANGED metadata
  /\ UNCHANGED <<destination, stage, parentOpen, journal, made, tx, undoing, moved>>

\* writeOwnedCpAMountMetadata is atomic; if it fails, the move is undone.
Record ==
  /\ AtPhase("record")
  /\ \/ metadata' = tx.newOverlay
        /\ To(IF FirstPublish(tx) THEN "finish" ELSE "inspect")
        /\ UNCHANGED undoing
     \/ undoing' = TRUE
        /\ To("openRoots")
        /\ UNCHANGED metadata
  /\ UNCHANGED <<destination, stage, parentOpen, journal, made, tx, moved>>

InspectOld ==
  /\ AtPhase("inspect") /\ Protected(stage, tx.old, tx.oldOverlay)
  /\ To("retire")
  /\ UNCHANGED <<destination, stage, parentOpen, metadata, journal, made, tx, undoing, moved>>

\* Mutant of Teardown: the identity is not compared.
TeardownAnything(ino) ==
  /\ stage # Nothing
  /\ stage' = Nothing /\ To("finish")

\* teardownDirectory: the directory goes if it is the one meant; an interruption
\* leaves it writable, whole or not.
Teardown(ino) ==
  /\ stage \in Directory /\ stage.ino = ino
  /\ \/ stage' = Nothing /\ To("finish")
     \/ \E art \in {stage.art, Broken} :
          stage' = [stage EXCEPT !.art = art, !.open = TRUE] /\ To("idle")

Retire ==
  /\ AtPhase("retire") /\ Teardown(tx.old)
  /\ UNCHANGED <<destination, parentOpen, metadata, journal, made, tx, undoing, moved>>

Discard ==
  /\ AtPhase("discard") /\ Teardown(tx.candidate)
  /\ UNCHANGED <<destination, parentOpen, metadata, journal, made, tx, undoing, moved>>

Finish ==
  /\ AtPhase("finish")
  /\ journal' = Nothing /\ To("idle")
  /\ UNCHANGED <<destination, stage, parentOpen, metadata, made, tx, undoing, moved>>

-----------------------------------------------------------------------------
\* recoverDistOverlay decides from the metadata and the two directories.

\* observedTree: by identity and bytes, protected or not.
Seen(d, r) ==
  IF d = Nothing THEN "Missing"
  ELSE IF d \in Theirs THEN "Other"
  ELSE IF d.ino = r.old /\ d.art = r.oldOverlay THEN "Old"
  ELSE IF d.ino = r.candidate /\ d.art = r.newOverlay THEN "New"
  ELSE "Other"

\* Nothing has moved yet, or it has moved back.
Before(r) ==
  /\ Seen(destination, r) = IF FirstPublish(r) THEN "Missing" ELSE "Old"
  /\ Seen(stage, r) \in {"New", "Missing"}

After(r) ==
  /\ Seen(destination, r) = IF Removal(r) THEN "Missing" ELSE "New"
  /\ Seen(stage, r) = IF FirstPublish(r) THEN "Missing" ELSE "Old"

\* The old directory may have been removed already.
Recorded(r) ==
  /\ metadata # r.oldOverlay /\ metadata = r.newOverlay
  /\ Seen(destination, r) = IF Removal(r) THEN "Missing" ELSE "New"
  /\ Seen(stage, r) \in {"Old", "Missing"}

Accepted(r) == (metadata = r.oldOverlay /\ (Before(r) \/ After(r))) \/ Recorded(r)

RecoverOverlay ==
  /\ AtPhase("idle") /\ journal \in Journal
  /\ tx' = journal
  /\ \/ /\ metadata = journal.oldOverlay /\ Before(journal)
        /\ To(IF Seen(stage, journal) = "New" THEN "discard" ELSE "finish")
        /\ UNCHANGED undoing
     \/ /\ metadata = journal.oldOverlay /\ ~ Before(journal) /\ After(journal)
        /\ undoing' = TRUE /\ To("openRoots")
     \/ /\ Recorded(journal)
        /\ To(IF Seen(stage, journal) = "Old" THEN "retire" ELSE "finish")
        /\ UNCHANGED undoing
  /\ UNCHANGED <<destination, stage, parentOpen, metadata, journal, made, moved>>

-----------------------------------------------------------------------------
\* The call ends here, by a death, an error or a check that did not pass.
Ends ==
  /\ phase # "idle"
  /\ To("idle")
  /\ UNCHANGED <<destination, stage, parentOpen, metadata, journal, made, tx, undoing, moved>>

\* Somebody puts a directory of his own in the place of the overlay or the stage.
Meddle ==
  /\ \/ destination # Strange /\ destination' = Strange /\ UNCHANGED stage
     \/ stage # Strange /\ stage' = Strange /\ UNCHANGED destination
  /\ UNCHANGED <<parentOpen, metadata, journal, made, phase, tx, undoing, moved>>

OverlayNext ==
  \/ \E a \in Artifacts \cup {Nothing} : Request(a)
  \/ WriteIntent \/ IdentifyStage \/ Copy \/ Protect
  \/ \E i \in Inodes : MakeStage(i)
  \/ Check \/ OpenParent \/ MoveOverlay \/ CloseParent
  \/ \E d, s \in BOOLEAN : OpenRoots(d, s) \/ CloseRoots(d, s)
  \/ Verify \/ Record \/ InspectOld \/ Retire \/ Discard \/ Finish
  \/ RecoverOverlay \/ Ends \/ Meddle

OverlaySpec == OverlayInit /\ [][OverlayNext]_overlayVars

-----------------------------------------------------------------------------
\* The types; a call at work has a transaction.
OverlayTypeOK ==
  /\ destination \in Place /\ stage \in Place
  /\ parentOpen \in BOOLEAN
  /\ metadata \in Artifacts \cup {Nothing}
  /\ journal \in Journal \cup {Nothing, TornJournal}
  /\ made \subseteq Inodes
  /\ phase \in Phases
  /\ tx \in Journal \cup {Nothing}
  /\ phase # "idle" => tx \in Journal
  /\ undoing \in BOOLEAN /\ moved \in BOOLEAN

\* Nobody has meddled.  What is theirs stays, so this holds from the start or never again.
Unmeddled == destination \notin Theirs /\ stage \notin Theirs

\* Without a journal, metadata and mount agree and no stage is left behind: no
\* interruption, failure or recovery ends a transaction half-way.
SettledAgrees ==
  journal = Nothing /\ Unmeddled =>
    /\ stage = Nothing
    /\ IF metadata = Nothing THEN destination = Nothing
                             ELSE destination \in Directory /\ destination.art = metadata

\* The overlay the metadata records exists, whole, in place or in the stage: the old
\* directory is removed only when the new one has been recorded, and the reverse.
RecordedSurvives ==
  metadata # Nothing /\ Unmeddled =>
    \E d \in {destination, stage} : d \in Directory /\ d.art = metadata

\* Whatever an interrupted call or recovery leaves, the next recovery accepts it,
\* unless the stage is incomplete or the journal itself was being written.
OverlayRecoverable ==
  journal \in Journal /\ Unmeddled /\ (stage \in Directory => stage.art # Broken)
    => Accepted(journal)

\* A transaction whose clean-up was interrupted after the old directory was removed
\* can be recovered.
CleanupRecoverable ==
  AtPhase("idle") /\ journal \in Journal /\ Replacement(journal)
    /\ metadata = journal.newOverlay /\ Seen(destination, journal) = "New" /\ stage = Nothing
    => Accepted(journal)

\* A directory of somebody else can be written into, and even moved into place; but it
\* is never removed, and while one that was filled with the artifact is there, nothing
\* is recorded and the transaction stays for somebody to look at: its bytes are right at
\* every check, its identity gives it away in the one after the move and in a recovery.
StrangeRefused ==
  [][/\ {destination, stage} \cap Theirs # {} => {destination', stage'} \cap Theirs # {}
     /\ {destination, stage} \subseteq Theirs => {destination', stage'} \subseteq Theirs
     /\ Filled \in {destination, stage} => UNCHANGED <<metadata, journal>>]_overlayVars
=============================================================================
