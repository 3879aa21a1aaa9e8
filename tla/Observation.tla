---------------------------- MODULE Observation ----------------------------
(***************************************************************************)
(* One data source observed by pulls: the query scan, the appends that     *)
(* record it, and the classification of known pages the scan did not       *)
(* return (sync/sync.ts, pullOneShotSync; sync/observation.ts), over the   *)
(* event log and the projection it is folded into (store/store.ts).  An    *)
(* event is inserted once per idempotency key, and the keys are made of    *)
(* the observed content.  Other people change the pages, and another       *)
(* process pushes lifecycle commands, between any two steps of a pull.     *)
(***************************************************************************)
EXTENDS Naturals, Sequences, FiniteSets, FiniteSetsExt

CONSTANTS
  Pages,        \* the pages; their order is the order the query lists them in
  MaxValue,     \* bound: the contents 1..MaxValue a page may have
  Returns,      \* TRUE: pages go back to contents and places they have had, and commands
                \* are pushed over open conflicts
  Overlap,      \* TRUE: another process pushes and settles while a pull runs
  MaxEdits,     \* bound: content edits by others
  MaxMoves,     \* bound: pages trashed, restored, moved or hidden by others
  MaxPushes,    \* bound: lifecycle commands pushed
  MaxFaults     \* bound: pulls interrupted, scans ended early and retrievals that fail

ASSUME ObservationAssumption ==
  /\ Pages \subseteq Nat \ {0} /\ IsFiniteSet(Pages)
  /\ MaxValue \in Nat \ {0} /\ Returns \in BOOLEAN /\ Overlap \in BOOLEAN
  /\ {MaxEdits, MaxMoves, MaxPushes, MaxFaults} \subseteq Nat

VARIABLES
  remote,    \* remote[p]: what Notion holds of page p
  recorded,  \* the idempotency keys in _nds_sync_event
  db,        \* the projection of the log
  landed,    \* landed[p]: the lifecycle command done remotely and not yet settled
  pull,      \* the running pull
  places,    \* history: places[p], where page p has been
  budget     \* what has been spent of the bounds

vars == <<remote, recorded, db, landed, pull, places, budget>>

Places == {"active", "trash", "elsewhere", "forbidden", "missing"}
Values == 1..MaxValue
Times == 1..(MaxEdits + 1)     \* last_edited_time
Cursors == Pages \cup {0}      \* the last page returned; 0: from the start
Commands == {"none", "TrashPage", "RestorePage"}

RemotePage == [value : Values, edited : Times, place : Places]

Retrievals == {"accessible", "in-trash", "moved-out", "permission-ambiguous", "unknown"}
Reasons == {"remote_trash", "moved_out", "unknown"}

\* An event carries a page, a number and a word, according to its type.
Event(type, page, number, word) ==
  [type |-> type, page |-> page, number |-> number, word |-> word]

EventSet(type, pages, numbers, words) ==
  [type : {type}, page : pages, number : numbers, word : words]

\* A row and a property have the content of their page; an absence what its retrieval
\* said; a tombstone its reason; a conflict the remote state; a checkpoint the next
\* cursor and the watermark.
Events ==
  EventSet("row", Pages, Values, {"active"})
    \cup EventSet("property", Pages, Values, {""})
    \cup EventSet("absence", Pages, {0}, Retrievals)
    \cup EventSet("tombstone", Pages, {0}, Reasons)
    \cup EventSet("conflict", Pages, {0}, {"active", "trash"})
    \cup EventSet("checkpoint", Cursors, Times \cup {0}, {"complete", "incomplete"})

\* Mutant of Key: a row's key leaves out its content.
KeyOfPage(event) ==
  IF event.type \in {"row", "checkpoint"} THEN [event EXCEPT !.number = 0] ELSE event

\* The idempotency key of an event.  A checkpoint's says nothing of its watermark.
Key(event) == IF event.type = "checkpoint" THEN [event EXCEPT !.number = 0] ELSE event

\* The projection.  value = 0: there is no _nds_row (_nds_property_shadow) for the page;
\* target: the latest settled Trash or Restore; conflict[p][w]: the lifecycle conflict
\* with remote state w.
Projection ==
  [row : [Pages -> [value : Values \cup {0}, inTrash : BOOLEAN]],
   shadow : [Pages -> Values \cup {0}],
   tombstone : [Pages -> Reasons \cup {"none", "unclassified"}],
   absence : [Pages -> Retrievals \cup {"none"}],
   conflict : [Pages -> [{"active", "trash"} -> {"none", "open", "resolving", "resolved"}]],
   target : [Pages -> {"none", "active", "trash"}],
   checkpoint : [state : {"none", "complete", "incomplete"}, cursor : Cursors,
                 watermark : Times \cup {0}]]

\* pc: query, reading the scan; append and mark, appending the events of the scan and of
\* the classification; verify, retrieving the missing pages; done, just completed.
\* since = 0: the query contract has no high watermark.  disturbed: what changed outside
\* the pull since it began.
Pull ==
  [pc : {"idle", "query", "append", "verify", "mark", "done"}, since : Times \cup {0},
   from : Cursors, cursor : Cursors, ended : {"no", "terminal", "cut", "capped"},
   newest : Times \cup {0}, seen : SUBSET Pages, missing : SUBSET Pages,
   queue : Seq(Events), checked : BOOLEAN, faulty : BOOLEAN,
   disturbed : SUBSET {"remote", "settlement"}]

NoPull == [pc |-> "idle", since |-> 0, from |-> 0, cursor |-> 0, ended |-> "no",
           newest |-> 0, seen |-> {}, missing |-> {}, queue |-> <<>>,
           checked |-> FALSE, faulty |-> FALSE, disturbed |-> {}]

Known(p) == db.row[p].value # 0

Spend(what, limit) ==
  /\ budget[what] < limit
  /\ budget' = [budget EXCEPT ![what] = @ + 1]

Init ==
  /\ remote = [p \in Pages |-> [value |-> 1, edited |-> 1, place |-> "active"]]
  /\ recorded = {}
  /\ db = [row |-> [p \in Pages |-> [value |-> 0, inTrash |-> FALSE]],
           shadow |-> [p \in Pages |-> 0],
           tombstone |-> [p \in Pages |-> "none"],
           absence |-> [p \in Pages |-> "none"],
           conflict |-> [p \in Pages |-> [w \in {"active", "trash"} |-> "none"]],
           target |-> [p \in Pages |-> "none"],
           checkpoint |-> [state |-> "none", cursor |-> 0, watermark |-> 0]]
  /\ landed = [p \in Pages |-> "none"]
  /\ pull = NoPull
  /\ places = [p \in Pages |-> {"active"}]
  /\ budget = [edits |-> 0, moves |-> 0, pushes |-> 0, faults |-> 0]
-----------------------------------------------------------------------------
(* What an event does to the projection (store.ts, #applyEvent).              *)

\* Mutant of Frozen: a conflict being resolved by keep-local no longer freezes.
FrozenWhileOpen(p) == \E w \in {"active", "trash"} : db.conflict[p][w] = "open"

\* A live lifecycle conflict keeps in_trash as it is.
Frozen(p) == \E w \in {"active", "trash"} : db.conflict[p][w] \in {"open", "resolving"}

ApplyRow(e) ==
  [db EXCEPT !.row[e.page] = [value |-> e.number, inTrash |-> Frozen(e.page) /\ @.inTrash]]

ApplyProperty(e) == [db EXCEPT !.shadow[e.page] = e.number]

\* A page found accessible loses the tombstone its earlier absence left, never a
\* classified one.
ApplyAbsence(e) ==
  [db EXCEPT !.absence[e.page] = e.word,
             !.tombstone[e.page] =
               IF @ \notin {"none", "unclassified"} THEN @
               ELSE IF e.word = "accessible" THEN "none" ELSE "unclassified"]

ApplyTombstone(e) ==
  [db EXCEPT !.tombstone[e.page] = e.word,
             !.row[e.page].inTrash = @ \/ (e.word = "remote_trash" /\ ~Frozen(e.page))]

ApplyConflict(e) == [db EXCEPT !.conflict[e.page][e.word] = "open"]

ApplyCheckpoint(e) ==
  [db EXCEPT !.checkpoint = [state |-> e.word, cursor |-> e.page, watermark |-> e.number]]

Apply(e) ==
  CASE e.type = "row" -> ApplyRow(e)
    [] e.type = "property" -> ApplyProperty(e)
    [] e.type = "absence" -> ApplyAbsence(e)
    [] e.type = "tombstone" -> ApplyTombstone(e)
    [] e.type = "conflict" -> ApplyConflict(e)
    [] e.type = "checkpoint" -> ApplyCheckpoint(e)

\* An event whose key is in the log changes nothing.
AppendEvent(e) ==
  IF Key(e) \in recorded
  THEN UNCHANGED <<recorded, db>>
  ELSE recorded' = recorded \cup {Key(e)} /\ db' = Apply(e)
-----------------------------------------------------------------------------
(* Changes to the pages: other people, and lifecycle commands of this root.    *)

Clock == Max({remote[p].edited : p \in Pages})

\* What a running pull has to reckon with; a completed one is over.
Disturb(what) ==
  pull' = IF pull.pc \in {"idle", "done"} THEN NoPull
          ELSE [pull EXCEPT !.disturbed = @ \cup {what}]

Edit(p) ==
  /\ Spend("edits", MaxEdits)
  /\ \E v \in Values :
       /\ IF Returns THEN v # remote[p].value ELSE v = remote[p].value + 1
       /\ remote' = [remote EXCEPT ![p].value = v, ![p].edited = Clock + 1]
  /\ Disturb("remote")
  /\ UNCHANGED <<recorded, db, landed, places>>

PlacePage(p, place) ==
  /\ remote' = [remote EXCEPT ![p].place = place]
  /\ places' = [places EXCEPT ![p] = @ \cup {place}]
  /\ Disturb("remote")

\* A page goes against the settled target for the first time, so that nothing in the log
\* stands in for what a pull will see.
FirstDispute(p, place) ==
  /\ <<place, db.target[p]>> \in {<<"active", "trash">>, <<"trash", "active">>}
  /\ \A w \in {"active", "trash"} : db.conflict[p][w] = "none"
  /\ Event("tombstone", p, 0, "remote_trash") \notin recorded

\* Trashed, restored, moved out or back, hidden or shown: no edit time changes.
Move(p) ==
  /\ Spend("moves", MaxMoves)
  /\ \E place \in Places \ {remote[p].place} :
       /\ ~Returns => place \notin places[p] \/ FirstDispute(p, place)
       /\ PlacePage(p, place)
  /\ UNCHANGED <<recorded, db, landed>>

\* Mutant of Wanted: the command's name is kept.
CommandName(c) == c

\* The page state a Trash or Restore command asks for.
Wanted(c) == IF c = "TrashPage" THEN "trash" ELSE "active"

\* A command comes from an edit of _in_trash in the replica, or from the keep-local
\* resolution of a conflict.
MayPush(p, c) ==
  /\ Known(p) /\ remote[p].place \in {"active", "trash"}
  /\ \/ db.row[p].inTrash # (c = "TrashPage")
     \/ db.conflict[p][IF c = "TrashPage" THEN "active" ELSE "trash"] = "resolving"
  /\ ~Returns => \A w \in {"active", "trash"} : db.conflict[p][w] # "open"

BetweenPulls == Overlap \/ pull.pc \in {"idle", "done"}

Push(p, c) ==
  /\ landed[p] = "none" /\ MayPush(p, c) /\ BetweenPulls
  /\ Spend("pushes", MaxPushes)
  /\ PlacePage(p, Wanted(c))
  /\ landed' = [landed EXCEPT ![p] = c]
  /\ UNCHANGED <<recorded, db>>

\* RemoteWriteSettled of a Trash or Restore; its key is the command's, always fresh.
Settle(p) ==
  /\ landed[p] # "none" /\ BetweenPulls
  /\ db' = [db EXCEPT !.row[p].inTrash = landed[p] = "TrashPage",
                      !.target[p] = Wanted(landed[p]),
                      !.conflict[p] = [w \in DOMAIN @ |->
                                         IF @[w] = "resolving" THEN "resolved" ELSE @[w]],
                      !.tombstone[p] = IF landed[p] = "RestorePage" /\ @ = "remote_trash"
                                       THEN "none" ELSE @]
  /\ landed' = [landed EXCEPT ![p] = "none"]
  /\ Disturb("settlement")
  /\ UNCHANGED <<remote, recorded, places, budget>>

\* The user accepts the remote state of a conflict ...
KeepRemote(p, w) ==
  /\ db.conflict[p][w] = "open"
  /\ db' = [db EXCEPT !.conflict[p][w] = "resolved",
                      !.row[p].inTrash = w = "trash",
                      !.tombstone[p] = IF w = "active" /\ @ = "remote_trash" THEN "none" ELSE @]
  /\ Disturb("settlement")
  /\ UNCHANGED <<remote, recorded, landed, places, budget>>

\* ... or insists on the local one: the conflict stays live until a command settles.
KeepLocal(p, w) ==
  /\ db.conflict[p][w] = "open"
  /\ db' = [db EXCEPT !.conflict[p][w] = "resolving"]
  /\ UNCHANGED <<remote, recorded, landed, pull, places, budget>>
-----------------------------------------------------------------------------
(* The pull.                                                                   *)

\* A one-shot pull asks for every row; the daemon's for rows edited since the watermark
\* of the last complete checkpoint.
Since(incremental) ==
  IF incremental /\ db.checkpoint.state = "complete" THEN db.checkpoint.watermark ELSE 0

\* A pull takes up where an incomplete scan stopped.
ResumeCursor ==
  IF db.checkpoint.state = "incomplete" THEN db.checkpoint.cursor ELSE 0

Begin(incremental) ==
  /\ pull.pc \in {"idle", "done"}
  /\ pull' = [NoPull EXCEPT !.pc = "query", !.since = Since(incremental),
                            !.from = ResumeCursor, !.cursor = ResumeCursor,
                            !.newest = Since(incremental)]
  /\ UNCHANGED <<remote, recorded, db, landed, places, budget>>

Listed == {p \in Pages : /\ remote[p].place = "active"
                         /\ remote[p].edited >= pull.since
                         /\ p > pull.cursor}

Later(x, y) == IF x > y THEN x ELSE y

RowEvents(p) == <<Event("row", p, remote[p].value, "active"),
                  Event("property", p, remote[p].value, "")>>

CheckpointEvent(ended, cursor, newest) ==
  IF ended = "terminal"
  THEN Event("checkpoint", 0, newest, "complete")
  ELSE Event("checkpoint", IF ended = "cut" THEN cursor ELSE 0, pull.since, "incomplete")

\* Mutant of Finished: the checkpoint is recorded before the rows.
CheckpointFirst(queue, checkpoint) == <<checkpoint>> \o queue

\* The checkpoint comes after everything it stands for.
Finished(queue, checkpoint) == Append(queue, checkpoint)

\* One response of the query carries one row, or none when no row is left.  The gateway
\* may stop between two responses (cut) or hide the rest of the rows (capped).
QueryPage ==
  /\ pull.pc = "query"
  /\ \E ended \in {"no", "terminal", "cut", "capped"} :
       /\ IF Cardinality(Listed) > 1 THEN ended # "terminal" ELSE ended = "terminal"
       /\ IF ended \in {"cut", "capped"} THEN Spend("faults", MaxFaults) ELSE UNCHANGED budget
       /\ LET rows == IF Listed = {} THEN {} ELSE {Min(Listed)}
              cursor == IF rows = {} THEN pull.cursor ELSE Min(Listed)
              newest == IF rows = {} THEN pull.newest
                        ELSE Later(pull.newest, remote[cursor].edited)
              queue == IF rows = {} THEN pull.queue ELSE pull.queue \o RowEvents(cursor)
          IN pull' = [pull EXCEPT
               !.cursor = cursor, !.newest = newest, !.ended = ended,
               !.seen = @ \cup rows,
               !.pc = IF ended = "no" THEN @ ELSE "append",
               !.queue = IF ended = "no" THEN queue
                         ELSE Finished(queue, CheckpointEvent(ended, cursor, newest))]
  /\ UNCHANGED <<remote, recorded, db, landed, places>>

\* Mutant of Divergence: tombstones are not compared with the target.
RowDivergence(e) ==
  IF e.type = "row" /\ db.target[e.page] = "trash"
  THEN {Event("conflict", e.page, 0, "active")} ELSE {}

\* An observed state against the settled lifecycle target: the conflict to raise.
Divergence(e) ==
  IF e.type = "row" /\ db.target[e.page] = "trash"
  THEN {Event("conflict", e.page, 0, "active")}
  ELSE IF e.type = "tombstone" /\ e.word = "remote_trash" /\ db.target[e.page] = "active"
       THEN {Event("conflict", e.page, 0, "trash")}
       ELSE {}

Appending == pull.pc \in {"append", "mark"} /\ pull.queue # <<>>

RaiseDivergence ==
  /\ Appending /\ ~pull.checked /\ Head(pull.queue).type \in {"row", "tombstone"}
  /\ IF Divergence(Head(pull.queue)) = {}
     THEN UNCHANGED <<recorded, db>>
     ELSE \E e \in Divergence(Head(pull.queue)) : AppendEvent(e)
  /\ pull' = [pull EXCEPT !.checked = TRUE]
  /\ UNCHANGED <<remote, landed, places, budget>>

AppendNext ==
  /\ Appending
  /\ pull.checked \/ Head(pull.queue).type \notin {"row", "tombstone"}
  /\ AppendEvent(Head(pull.queue))
  /\ pull' = [pull EXCEPT !.queue = Tail(@), !.checked = FALSE]
  /\ UNCHANGED <<remote, landed, places, budget>>

\* Mutant of CanClassify: an incremental scan counts as well.
AnyTerminalScan == pull.from = 0 /\ pull.ended = "terminal"

\* Only a full scan from start to end can tell a page is gone.
CanClassify == pull.from = 0 /\ pull.ended = "terminal" /\ pull.since = 0

Missing == IF CanClassify THEN {p \in Pages \ pull.seen : Known(p)} ELSE {}

Classify ==
  /\ pull.pc = "append" /\ pull.queue = <<>>
  /\ pull' = [pull EXCEPT !.missing = Missing,
                          !.pc = IF Missing = {} THEN "mark" ELSE "verify"]
  /\ UNCHANGED <<remote, recorded, db, landed, places, budget>>

\* What retrieving the page says of it; any other error than a denial says "unknown".
Retrieval(p) ==
  CASE remote[p].place = "active" -> "accessible"
    [] remote[p].place = "trash" -> "in-trash"
    [] remote[p].place = "elsewhere" -> "moved-out"
    [] remote[p].place = "forbidden" -> "permission-ambiguous"
    [] remote[p].place = "missing" -> "unknown"

\* Mutant of Reason: an error counts as a page in the trash.
ErrorMeansTrash(retrieval) ==
  CASE retrieval \in {"in-trash", "unknown"} -> "remote_trash"
    [] retrieval = "moved-out" -> "moved_out"
    [] OTHER -> "none"

\* The reason a classified tombstone is recorded with, if one is.
Reason(retrieval) ==
  CASE retrieval = "in-trash" -> "remote_trash"
    [] retrieval = "moved-out" -> "moved_out"
    [] retrieval = "unknown" -> "unknown"
    [] OTHER -> "none"

AbsenceEvents(p, retrieval) ==
  <<Event("absence", p, 0, retrieval)>>
    \o (IF Reason(retrieval) = "none" THEN <<>>
        ELSE <<Event("tombstone", p, 0, Reason(retrieval))>>)

Verify ==
  /\ pull.pc = "verify"
  /\ LET p == Min(pull.missing)
         Found(retrieval, faulty) ==
           pull' = [pull EXCEPT !.missing = @ \ {p}, !.faulty = @ \/ faulty,
                                !.pc = IF pull.missing = {p} THEN "mark" ELSE @,
                                !.queue = @ \o AbsenceEvents(p, retrieval)]
     IN \/ Found(Retrieval(p), FALSE) /\ UNCHANGED budget
        \/ Found("unknown", TRUE) /\ Spend("faults", MaxFaults)
  /\ UNCHANGED <<remote, recorded, db, landed, places>>

Complete ==
  /\ pull.pc = "mark" /\ pull.queue = <<>>
  /\ pull' = [NoPull EXCEPT !.pc = "done", !.since = pull.since, !.from = pull.from,
                            !.ended = pull.ended, !.faulty = pull.faulty,
                            !.disturbed = pull.disturbed]
  /\ UNCHANGED <<remote, recorded, db, landed, places, budget>>

\* A query that fails, a cancelled or crashed process: what was appended stays.
Interrupt ==
  /\ pull.pc \notin {"idle", "done"}
  /\ Spend("faults", MaxFaults)
  /\ pull' = NoPull
  /\ UNCHANGED <<remote, recorded, db, landed, places>>

PullStep == QueryPage \/ RaiseDivergence \/ AppendNext \/ Classify \/ Verify \/ Complete

Next ==
  \/ \E p \in Pages : Edit(p) \/ Move(p) \/ Settle(p)
  \/ \E p \in Pages, c \in {"TrashPage", "RestorePage"} : Push(p, c)
  \/ \E p \in Pages, w \in {"active", "trash"} : KeepRemote(p, w) \/ KeepLocal(p, w)
  \/ \E incremental \in BOOLEAN : Begin(incremental)
  \/ PullStep
  \/ Interrupt

Spec == Init /\ [][Next]_vars
-----------------------------------------------------------------------------
(* Properties.                                                                 *)

\* Every variable holds what its declaration says.
TypeOK ==
  /\ remote \in [Pages -> RemotePage]
  /\ recorded \subseteq Events
  /\ db \in Projection
  /\ landed \in [Pages -> Commands]
  /\ pull \in Pull
  /\ places \in [Pages -> SUBSET Places]
  /\ budget \in [{"edits", "moves", "pushes", "faults"} -> Nat]

\* Only a page that was away from the data source at some time has absence evidence
\* against it: no incremental, resumed, cut or capped scan leaves any, whatever happened
\* between its responses (DAEMON-R08).
AbsenceMeansAway == \A p \in Pages : db.absence[p] # "none" => places[p] # {"active"}

\* A page classified as trashed or moved out was in the trash, or elsewhere, at some time.
ClassifiedAsFound ==
  \A p \in Pages : /\ db.tombstone[p] = "remote_trash" => "trash" \in places[p]
                   /\ db.tombstone[p] = "moved_out" => "elsewhere" \in places[p]

\* Once a complete checkpoint is recorded, every page that never left has a row: a crash
\* between two appends never leaves a checkpoint ahead of the rows it stands for.
CompleteMeansCovered ==
  db.checkpoint.state = "complete" =>
    \A p \in Pages : places[p] = {"active"} => Known(p)

\* What a full pull leaves behind of a page: its row and its property values are as Notion
\* has them, and in_trash unless a live conflict holds it; a page that is there, and not
\* held, is not tombstoned as trashed; a page that was moved out is tombstoned as moved,
\* or as unknown by an earlier retrieval that failed.  An unclassified, "unknown" or
\* "moved_out" tombstone of a page that is there again may stay: no observation of its row
\* removes it.
Mirrors(p) ==
  CASE remote[p].place = "active" ->
         /\ db.row[p].value = remote[p].value
         /\ db.shadow[p] = remote[p].value
         /\ Frozen(p) \/ (~db.row[p].inTrash /\ db.tombstone[p] # "remote_trash")
    [] remote[p].place = "trash" -> Known(p) => Frozen(p) \/ db.row[p].inTrash
    [] remote[p].place = "elsewhere" ->
         Known(p) => db.tombstone[p] \in {"moved_out", "unknown"}
    [] OTHER -> TRUE

\* A full pull that ended, retrieved without errors and was not overtaken mirrors every
\* page whose lifecycle command, if it had one, has settled.
FullPullMirrors ==
  /\ pull.pc = "done" /\ pull.since = 0 /\ pull.from = 0 /\ pull.ended = "terminal"
  /\ ~pull.faulty /\ pull.disturbed = {}
  => \A p \in Pages : landed[p] = "none" => Mirrors(p)

\* Between pulls, an edit older than the watermark has been read: the incremental pulls
\* to come will not ask for it again.
NoEditBelowWatermark ==
  pull.pc \in {"idle", "done"} =>
    \A p \in Pages :
      /\ places[p] = {"active"} /\ remote[p].edited < db.checkpoint.watermark
      => db.row[p].value = remote[p].value

\* A pull that turns in_trash away from the settled target has a recorded conflict to
\* show for it, unless a command settled while it ran.
FlipWasRaised ==
  [][\A p \in Pages :
       LET w == IF db'.row[p].inTrash THEN "trash" ELSE "active" IN
       /\ db'.row[p].inTrash # db.row[p].inTrash
       /\ db'.target[p] \notin {"none", w} /\ db'.conflict[p] = db.conflict[p]
       /\ "settlement" \notin pull.disturbed
       => db.conflict[p][w] # "none"]_vars

\* in_trash stays as it is from the moment a conflict is live to its resolution or to a
\* settlement, whatever pulls observe.
FrozenWhileConflicted ==
  [][\A p \in Pages : /\ \E w \in {"active", "trash"} :
                           /\ db.conflict[p][w] \in {"open", "resolving"}
                           /\ db'.conflict[p][w] = db.conflict[p][w]
                      /\ landed' = landed
                      => \/ db'.row[p].inTrash = db.row[p].inTrash
                         \/ db'.conflict[p] # db.conflict[p]]_vars
-----------------------------------------------------------------------------
(* The inductive invariant behind the safety properties (ObservationProofs).  *)

Away(p) == places[p] # {"active"}

\* Edit times keep within the edits made, and a page has been where it is.
RemoteTracked == \A p \in Pages :
  /\ remote[p].edited <= budget.edits + 1
  /\ remote[p].place \in places[p]

\* What a queued event claims of its page is so.
Sound(e) ==
  /\ e.type = "absence" => Away(e.page)
  /\ e.type = "tombstone" /\ e.word = "remote_trash" => "trash" \in places[e.page]
  /\ e.type = "tombstone" /\ e.word = "moved_out" => "elsewhere" \in places[e.page]

QueueSound == \A i \in 1..Len(pull.queue) : Sound(pull.queue[i])

\* A page that a full scan has passed over without seeing it was away, and so was every
\* page to be retrieved.
ScannedOrAway ==
  /\ \A p \in pull.missing : Away(p)
  /\ pull.pc = "verify" => pull.missing # {}
  /\ pull.pc = "query" => pull.ended = "no"
  /\ pull.pc \in {"query", "append"} /\ pull.from = 0 /\ pull.since = 0 =>
       \A p \in Pages : p <= pull.cursor \/ pull.ended = "terminal" =>
         p \in pull.seen \/ Away(p)

\* A row in the queue or in the projection.
RowQueued(p) ==
  \E i \in 1..Len(pull.queue) : pull.queue[i].type = "row" /\ pull.queue[i].page = p

Covered(p) == Away(p) \/ Known(p)
ToBeCovered(p) == Covered(p) \/ RowQueued(p)

\* What a checkpoint stands for.
StandsFor(p, word, cursor) == word = "complete" \/ p <= cursor

\* A queued checkpoint is the last event and stands for rows before it.
CheckpointLast ==
  \A i \in 1..Len(pull.queue) : pull.queue[i].type = "checkpoint" =>
    /\ pull.pc = "append" /\ i = Len(pull.queue)
    /\ \A p \in Pages : StandsFor(p, pull.queue[i].word, pull.queue[i].page) => ToBeCovered(p)

\* A key in the log has had its effect, and a scan begins where the projection is
\* complete up to.
RowsCovered ==
  /\ \A e \in recorded : e.type = "row" => Known(e.page)
  /\ db.checkpoint.state # "none" => \A p \in Pages :
       StandsFor(p, db.checkpoint.state, db.checkpoint.cursor) => Covered(p)
  /\ \A p \in Pages : p <= pull.from \/ pull.since # 0 => Covered(p)
  /\ pull.pc = "query" => \A p \in Pages : p <= pull.cursor => ToBeCovered(p)
  /\ CheckpointLast

\* A conflict in the log has been raised, and so has that of a row or tombstone about to
\* be appended against the target.
ConflictsRaised ==
  /\ \A e \in recorded : e.type = "conflict" => db.conflict[e.page][e.word] # "none"
  /\ pull.checked => pull.queue # <<>>
  /\ pull.checked /\ "settlement" \notin pull.disturbed =>
       \A e \in Divergence(Head(pull.queue)) : db.conflict[e.page][e.word] # "none"

Inv ==
  /\ TypeOK /\ RemoteTracked /\ QueueSound /\ ScannedOrAway /\ RowsCovered
  /\ ConflictsRaised /\ AbsenceMeansAway /\ ClassifiedAsFound
-----------------------------------------------------------------------------
(* The inductive invariant behind FullPullMirrors, when nothing returns and nothing is
   pushed while a pull runs.                                                    *)

Undisputed(p) == \A w \in {"active", "trash"} : db.conflict[p][w] = "none"

Tombstoned(p, reason) == Event("tombstone", p, 0, reason) \in recorded

TombstoneQueued(p, reason) ==
  \E i \in 1..Len(pull.queue) : pull.queue[i] = Event("tombstone", p, 0, reason)

\* What the log says of in_trash has been so; a state against the target is a dispute not
\* seen yet, and so is a flag against the state, unless its tombstone is still to come.
LifecycleTracked(p) ==
  /\ "active" \in places[p]
  /\ \/ db.row[p].inTrash \/ db.target[p] = "trash" \/ landed[p] # "none"
     \/ ~Undisputed(p)
     => "trash" \in places[p]
  /\ Undisputed(p) /\ db.target[p] = "trash" => db.row[p].inTrash
  /\ Undisputed(p) /\ db.row[p].inTrash =>
       db.target[p] = "trash" \/ Tombstoned(p, "remote_trash")
  /\ landed[p] = "RestorePage" => remote[p].place # "trash" /\ ~FirstDispute(p, "trash")
  /\ landed[p] = "TrashPage" => remote[p].place # "active" /\ ~FirstDispute(p, "active")
  /\ db.conflict[p]["active"] = "open" => remote[p].place # "trash"
  /\ db.conflict[p]["trash"] = "open" => remote[p].place # "active"
  /\ landed[p] = "none" /\ ~Frozen(p) =>
       /\ remote[p].place = "active" /\ db.row[p].inTrash =>
            db.target[p] = "trash" /\ Undisputed(p)
       /\ remote[p].place = "trash" /\ ~db.row[p].inTrash => ~Tombstoned(p, "remote_trash")

\* A page recorded as trashed that is there was restored against the target, unseen as yet.
TombstoneTracked(p) == db.tombstone[p] = "remote_trash" =>
  /\ Tombstoned(p, "remote_trash")
  /\ landed[p] = "none" /\ ~Frozen(p) /\ remote[p].place = "active" =>
       db.target[p] = "trash" /\ Undisputed(p)

\* Rows come before the classification, which retrieves a page once.
QueuePhases ==
  /\ pull.pc \in {"idle", "done"} => pull.queue = <<>>
  /\ pull.pc # "verify" => pull.missing = {}
  /\ \A i \in 1..Len(pull.queue) : pull.queue[i].type \in
       IF pull.pc \in {"query", "append"} THEN {"row", "property", "checkpoint"}
       ELSE {"absence", "tombstone"}
  /\ \A i, j \in 1..Len(pull.queue) :
       pull.queue[i].type = "tombstone" =>
         /\ pull.queue[i].page \notin pull.missing
         /\ pull.queue[j].type = "tombstone" /\ pull.queue[j].page = pull.queue[i].page => i = j

\* What is said of a page whose queued event has been overtaken.
Overtaken(p) ==
  /\ RowQueued(p) /\ remote[p].place = "trash" =>
       db.target[p] # "trash" /\ ~Tombstoned(p, "remote_trash")
  /\ TombstoneQueued(p, "remote_trash") /\ remote[p].place = "active" =>
       db.target[p] = "trash" /\ Undisputed(p)
  /\ remote[p].place = "elsewhere" /\ Tombstoned(p, "moved_out") =>
       db.tombstone[p] \in {"moved_out", "unknown"} /\ ~TombstoneQueued(p, "remote_trash")

DivergenceRaised ==
  /\ \A e \in recorded : Sound(e)
  /\ pull.checked =>
       \A e \in Divergence(Head(pull.queue)) : db.conflict[e.page][e.word] # "none"

\* The content of page p that rows, or properties, have brought to the projection.
Projected(type, p) == IF type = "row" THEN db.row[p].value ELSE db.shadow[p]

\* Contents only grow, from the log over the projection and the queue to the page.
ValuesGrow ==
  /\ \A p \in Pages, type \in {"row", "property"} : Projected(type, p) <= remote[p].value
  /\ \A e \in recorded : e.type \in {"row", "property"} =>
       e.number <= Projected(e.type, e.page)
  /\ \A i \in 1..Len(pull.queue) : pull.queue[i].type \in {"row", "property"} =>
       /\ Projected(pull.queue[i].type, pull.queue[i].page) <= pull.queue[i].number
       /\ pull.queue[i].number <= remote[pull.queue[i].page].value
       /\ \A j \in i..Len(pull.queue) :
            /\ pull.queue[j].type = pull.queue[i].type
            /\ pull.queue[j].page = pull.queue[i].page
            => pull.queue[i].number <= pull.queue[j].number

\* An undisturbed pull has read what is still so.
ReadIsCurrent == pull.disturbed = {} =>
  /\ \A p \in pull.seen : remote[p].place = "active"
  /\ \A i \in 1..Len(pull.queue) :
       LET e == pull.queue[i] IN
       /\ e.type \in {"row", "property"} => e.number = remote[e.page].value
       /\ e.type = "tombstone" /\ e.word = "remote_trash" => remote[e.page].place = "trash"

\* What the scan has shown of an active page is queued or recorded ...
ActiveMirrored(p) ==
  remote[p].place = "active"
    /\ (pull.ended = "terminal" \/ (pull.pc = "query" /\ p <= pull.cursor)) =>
  /\ \/ RowQueued(p)
     \/ /\ db.row[p].value = remote[p].value
        /\ landed[p] = "none" => Frozen(p) \/ ~db.row[p].inTrash
  /\ \/ \E i \in 1..Len(pull.queue) : /\ pull.queue[i].type = "property"
                                        /\ pull.queue[i].page = p
     \/ db.shadow[p] = remote[p].value

\* ... and a known page it has not shown is to be retrieved, queued or recorded.
AbsentMirrored(p) ==
  pull.pc \in {"verify", "mark", "done"} /\ pull.ended = "terminal" /\ ~pull.faulty
    /\ Known(p) /\ p \notin pull.missing =>
  /\ remote[p].place = "trash" =>
       \/ TombstoneQueued(p, "remote_trash")
       \/ landed[p] = "none" => Frozen(p) \/ db.row[p].inTrash
  /\ remote[p].place = "elsewhere" =>
       TombstoneQueued(p, "moved_out") \/ Tombstoned(p, "moved_out")

FullPullTracked ==
  pull.from = 0 /\ pull.since = 0 /\ pull.disturbed = {} =>
    \A p \in Pages : ActiveMirrored(p) /\ AbsentMirrored(p)

MirrorInv ==
  /\ \A p \in Pages : LifecycleTracked(p) /\ TombstoneTracked(p) /\ Overtaken(p)
  /\ QueuePhases /\ DivergenceRaised /\ ValuesGrow /\ ReadIsCurrent /\ FullPullTracked
=============================================================================
