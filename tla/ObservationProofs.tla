------------------------- MODULE ObservationProofs -------------------------
(***************************************************************************)
(* Theorems about Observation for every finite set of pages, every bound,  *)
(* and both values of Returns and Overlap.                                 *)
(***************************************************************************)
EXTENDS Observation, TLAPS, WellFoundedInduction, FiniteSetTheorems, SequenceTheorems

\* The first page of a nonempty set of pages.
LEMMA FirstPage ==
  ASSUME NEW S, S \subseteq Pages, S # {}
  PROVE  Min(S) \in S /\ \A q \in S : Min(S) <= q
<1>1. S \subseteq Nat
  BY ObservationAssumption
<1>2. PICK x \in S : \A y \in S : ~(<<y, x>> \in OpToRel(<, Nat))
  BY <1>1, NatLessThanWellFounded, WFMin
<1>3. \A y \in S : ~(y < x)
  BY <1>1, <1>2, Zenon DEF OpToRel
<1>4. \A y \in S : x <= y
  BY <1>1, <1>3
<1> QED  BY <1>4 DEF Min

\* Every set of edit times that is bounded and not empty has a latest one.
LEMMA LatestTime ==
  ASSUME NEW n \in Nat, NEW S, S \subseteq 0..n, S # {}
  PROVE  Max(S) \in S /\ \A t \in S : Max(S) >= t
<1> DEFINE R == {r \in 0..n : n - r \in S}
<1>1. R \subseteq Nat /\ R # {}
  <2>1. PICK t \in S : TRUE
    OBVIOUS
  <2>2. n - t \in 0..n /\ n - (n - t) = t
    BY <2>1
  <2>3. n - t \in R
    BY <2>1, <2>2
  <2> QED  BY <2>3
<1> HIDE DEF R
<1>2. PICK x \in R : \A y \in R : ~(<<y, x>> \in OpToRel(<, Nat))
  BY <1>1, NatLessThanWellFounded, WFMin
<1>3. \A y \in R : ~(y < x)
  BY <1>1, <1>2, Zenon DEF OpToRel
<1>4. n - x \in S
  BY DEF R
<1>5. ASSUME NEW t \in S
      PROVE  n - x >= t
  <2>1. n - t \in R
    <3>1. t \in 0..n
      OBVIOUS
    <3>2. n - t \in 0..n /\ n - (n - t) = t
      BY <3>1
    <3> QED  BY <3>2 DEF R
  <2>2. ~(n - t < x)
    BY <1>3, <2>1
  <2>3. x \in 0..n /\ t \in 0..n
    BY DEF R
  <2> QED  BY <2>2, <2>3
<1>6. Max(S) \in S /\ \A t \in S : Max(S) >= t
  BY <1>4, <1>5, Zenon DEF Max
<1> QED  BY <1>6

LEMMA ClockBound ==
  ASSUME TypeOK, RemoteTracked, NEW p \in Pages
  PROVE  Clock \in Nat /\ Clock <= budget.edits + 1
<1> DEFINE S == {remote[q].edited : q \in Pages}
<1>1. budget.edits \in Nat
  BY DEF TypeOK
<1>2. \A q \in Pages : remote[q].edited \in Nat
  BY ObservationAssumption DEF TypeOK, RemotePage, Times
<1>3. S \subseteq 0..(budget.edits + 1) /\ S # {}
  BY <1>1, <1>2 DEF RemoteTracked
<1> DEFINE n == budget.edits + 1
<1>4. n \in Nat
  BY <1>1
<1>5. S \subseteq 0..n
  BY <1>3
<1> HIDE DEF n
<1>6. Max(S) \in S
  BY <1>3, <1>4, <1>5, LatestTime
<1> QED  BY <1>1, <1>3, <1>6 DEF Clock

LEMMA EventFields ==
  ASSUME NEW e \in Events
  PROVE  /\ e.type \in {"row", "property", "absence", "tombstone", "conflict", "checkpoint"}
         /\ e.type # "checkpoint" => e.page \in Pages
         /\ e.type \in {"row", "property"} => e.number \in Values
         /\ e.type = "absence" => e.word \in Retrievals
         /\ e.type = "tombstone" => e.word \in Reasons
         /\ e.type = "conflict" => e.word \in {"active", "trash"}
         /\ e.type = "checkpoint" => /\ e.page \in Cursors
                                     /\ e.number \in Times \cup {0}
                                     /\ e.word \in {"complete", "incomplete"}
  BY DEF Events, EventSet

LEMMA KeyTyped ==
  ASSUME NEW e \in Events
  PROVE  Key(e) \in Events /\ Key(e).type = e.type /\ Key(e).page = e.page
         /\ Key(e).word = e.word
<1>1. CASE e.type # "checkpoint"
  BY <1>1 DEF Key
<1>2. CASE e.type = "checkpoint"
  <2>1. e \in EventSet("checkpoint", Cursors, Times \cup {0}, {"complete", "incomplete"})
    BY <1>2 DEF Events, EventSet
  <2>2. Key(e) \in EventSet("checkpoint", Cursors, Times \cup {0}, {"complete", "incomplete"})
    BY <1>2, <2>1 DEF Key, EventSet
  <2>3. Key(e) \in Events
    BY <2>2, Zenon DEF Events
  <2>4. Key(e).type = e.type /\ Key(e).page = e.page /\ Key(e).word = e.word
    BY <1>2, <2>1 DEF Key, EventSet
  <2> QED  BY <2>3, <2>4
<1> QED  BY <1>1, <1>2

\* What an event does to the projection: rows, conflicts, and what it leaves alone.
LEMMA ApplyTyped ==
  ASSUME db \in Projection, NEW e \in Events
  PROVE  Apply(e) \in Projection
<1> USE EventFields
<1>1. CASE e.type = "row"
  <2>1. e.page \in Pages /\ e.number \in Values \cup {0}
    BY <1>1
  <2>2. Frozen(e.page) \in BOOLEAN
    BY DEF Frozen
  <2>3. ApplyRow(e) \in Projection
    BY <2>1, <2>2 DEF ApplyRow, Projection
  <2> QED  BY <1>1, <2>3 DEF Apply
<1>2. CASE e.type = "property"
  <2>1. e.page \in Pages /\ e.number \in Values \cup {0}
    BY <1>2
  <2>3. ApplyProperty(e) \in Projection
    BY <2>1 DEF ApplyProperty, Projection
  <2> QED  BY <1>2, <2>3 DEF Apply
<1>3. CASE e.type = "absence"
  <2>1. e.page \in Pages /\ e.word \in Retrievals
    BY <1>3
  <2>3. ApplyAbsence(e) \in Projection
    BY <2>1 DEF ApplyAbsence, Projection
  <2> QED  BY <1>3, <2>3 DEF Apply
<1>4. CASE e.type = "tombstone"
  <2> DEFINE b == db.row[e.page].inTrash \/ (e.word = "remote_trash" /\ ~Frozen(e.page))
  <2>1. e.page \in Pages /\ e.word \in Reasons /\ b \in BOOLEAN
    BY <1>4 DEF Projection
  <2>2. ApplyTombstone(e) = [db EXCEPT !.tombstone[e.page] = e.word,
                                       !.row[e.page].inTrash = b]
    BY DEF ApplyTombstone
  <2> HIDE DEF b
  <2> DEFINE R == [value : Values \cup {0}, inTrash : BOOLEAN]
             r == [value |-> db.row[e.page].value, inTrash |-> b]
  <2>3. r \in R
    BY <2>1 DEF Projection
  <2>4. [db.row[e.page] EXCEPT !.inTrash = b] = r
    BY <2>1 DEF Projection
  <2> HIDE DEF r
  <2>5. ApplyTombstone(e) = [db EXCEPT !.tombstone[e.page] = e.word, !.row[e.page] = r]
    BY <2>1, <2>2, <2>4
  <2>6. [db.row EXCEPT ![e.page] = r] \in [Pages -> R]
    BY <2>1, <2>3 DEF Projection
  <2>7. [db.tombstone EXCEPT ![e.page] = e.word]
          \in [Pages -> Reasons \cup {"none", "unclassified"}]
    BY <2>1 DEF Projection
  <2>8. ApplyTombstone(e) \in Projection
    BY <2>5, <2>6, <2>7 DEF Projection
  <2> QED  BY <1>4, <2>8 DEF Apply
<1>5. CASE e.type = "conflict"
  <2>1. e.page \in Pages /\ e.word \in {"active", "trash"}
    BY <1>5
  <2>3. ApplyConflict(e) \in Projection
    BY <2>1 DEF ApplyConflict, Projection
  <2> QED  BY <1>5, <2>3 DEF Apply
<1>6. CASE e.type = "checkpoint"
  <2>1. /\ e.page \in Cursors /\ e.number \in Times \cup {0}
        /\ e.word \in {"none", "complete", "incomplete"}
    BY <1>6
  <2>3. ApplyCheckpoint(e) \in Projection
    BY <2>1 DEF ApplyCheckpoint, Projection
  <2> QED  BY <1>6, <2>3 DEF Apply
<1> QED  BY <1>1, <1>2, <1>3, <1>4, <1>5, <1>6

\* A row event gives its page a row, and no event takes one away.
LEMMA ApplyKnown ==
  ASSUME db \in Projection, NEW e \in Events, NEW p \in Pages
  PROVE  Known(p) \/ (e.type = "row" /\ e.page = p) => Apply(e).row[p].value # 0
<1> USE EventFields
<1>0. 0 \notin Values
  BY ObservationAssumption DEF Values
<1>1. CASE e.type = "row"
  BY <1>0, <1>1 DEF Apply, ApplyRow, Projection, Known
<1>2. CASE e.type = "property"
  BY <1>2 DEF Apply, ApplyProperty, Projection, Known
<1>3. CASE e.type = "absence"
  BY <1>3 DEF Apply, ApplyAbsence, Projection, Known
<1>4. CASE e.type = "tombstone"
  <2> DEFINE b == db.row[e.page].inTrash \/ (e.word = "remote_trash" /\ ~Frozen(e.page))
  <2>1. e.page \in Pages /\ e.word \in Reasons
    BY <1>4
  <2>2. Apply(e) = [db EXCEPT !.tombstone[e.page] = e.word, !.row[e.page].inTrash = b]
    BY <1>4 DEF Apply, ApplyTombstone
  <2> HIDE DEF b
  <2> QED  BY <1>4, <2>1, <2>2 DEF Projection, Known
<1>5. CASE e.type = "conflict"
  BY <1>5 DEF Apply, ApplyConflict, Projection, Known
<1>6. CASE e.type = "checkpoint"
  BY <1>6 DEF Apply, ApplyCheckpoint, Projection, Known
<1> QED  BY <1>1, <1>2, <1>3, <1>4, <1>5, <1>6

\* A conflict event raises its conflict, and no other event removes one.
LEMMA ApplyRaised ==
  ASSUME db \in Projection, NEW e \in Events,
         NEW p \in Pages, NEW w \in {"active", "trash"},
         db.conflict[p][w] # "none" \/ (e.type = "conflict" /\ e.page = p /\ e.word = w)
  PROVE  Apply(e).conflict[p][w] # "none"
<1> USE EventFields
<1>0. 0 \notin Values
  BY ObservationAssumption DEF Values
<1>1. CASE e.type = "row"
  BY <1>0, <1>1 DEF Apply, ApplyRow, Projection, Known
<1>2. CASE e.type = "property"
  BY <1>2 DEF Apply, ApplyProperty, Projection, Known
<1>3. CASE e.type = "absence"
  BY <1>3 DEF Apply, ApplyAbsence, Projection, Known
<1>4. CASE e.type = "tombstone"
  <2> DEFINE b == db.row[e.page].inTrash \/ (e.word = "remote_trash" /\ ~Frozen(e.page))
  <2>1. e.page \in Pages /\ e.word \in Reasons
    BY <1>4
  <2>2. Apply(e) = [db EXCEPT !.tombstone[e.page] = e.word, !.row[e.page].inTrash = b]
    BY <1>4 DEF Apply, ApplyTombstone
  <2> HIDE DEF b
  <2> QED  BY <1>4, <2>1, <2>2 DEF Projection, Known
<1>5. CASE e.type = "conflict"
  BY <1>5 DEF Apply, ApplyConflict, Projection, Known
<1>6. CASE e.type = "checkpoint"
  BY <1>6 DEF Apply, ApplyCheckpoint, Projection, Known
<1> QED  BY <1>1, <1>2, <1>3, <1>4, <1>5, <1>6

\* Only an absence event records an absence.
LEMMA ApplyAbsent ==
  ASSUME db \in Projection, NEW e \in Events, NEW p \in Pages,
         Apply(e).absence[p] # db.absence[p]
  PROVE  e.type = "absence" /\ e.page = p
<1> USE EventFields
<1>0. 0 \notin Values
  BY ObservationAssumption DEF Values
<1>1. CASE e.type = "row"
  BY <1>0, <1>1 DEF Apply, ApplyRow, Projection, Known
<1>2. CASE e.type = "property"
  BY <1>2 DEF Apply, ApplyProperty, Projection, Known
<1>3. CASE e.type = "absence"
  BY <1>3 DEF Apply, ApplyAbsence, Projection, Known
<1>4. CASE e.type = "tombstone"
  <2> DEFINE b == db.row[e.page].inTrash \/ (e.word = "remote_trash" /\ ~Frozen(e.page))
  <2>1. e.page \in Pages /\ e.word \in Reasons
    BY <1>4
  <2>2. Apply(e) = [db EXCEPT !.tombstone[e.page] = e.word, !.row[e.page].inTrash = b]
    BY <1>4 DEF Apply, ApplyTombstone
  <2> HIDE DEF b
  <2> QED  BY <1>4, <2>1, <2>2 DEF Projection, Known
<1>5. CASE e.type = "conflict"
  BY <1>5 DEF Apply, ApplyConflict, Projection, Known
<1>6. CASE e.type = "checkpoint"
  BY <1>6 DEF Apply, ApplyCheckpoint, Projection, Known
<1> QED  BY <1>1, <1>2, <1>3, <1>4, <1>5, <1>6

\* Only a tombstone event classifies a page.
LEMMA ApplyClassified ==
  ASSUME db \in Projection, NEW e \in Events, NEW p \in Pages,
         Apply(e).tombstone[p] # db.tombstone[p],
         Apply(e).tombstone[p] \notin {"none", "unclassified"}
  PROVE  e.type = "tombstone" /\ e.page = p /\ Apply(e).tombstone[p] = e.word
<1> USE EventFields
<1>0. 0 \notin Values
  BY ObservationAssumption DEF Values
<1>1. CASE e.type = "row"
  BY <1>0, <1>1 DEF Apply, ApplyRow, Projection, Known
<1>2. CASE e.type = "property"
  BY <1>2 DEF Apply, ApplyProperty, Projection, Known
<1>3. CASE e.type = "absence"
  BY <1>3 DEF Apply, ApplyAbsence, Projection, Known
<1>4. CASE e.type = "tombstone"
  <2> DEFINE b == db.row[e.page].inTrash \/ (e.word = "remote_trash" /\ ~Frozen(e.page))
  <2>1. e.page \in Pages /\ e.word \in Reasons
    BY <1>4
  <2>2. Apply(e) = [db EXCEPT !.tombstone[e.page] = e.word, !.row[e.page].inTrash = b]
    BY <1>4 DEF Apply, ApplyTombstone
  <2> HIDE DEF b
  <2> QED  BY <1>4, <2>1, <2>2 DEF Projection, Known
<1>5. CASE e.type = "conflict"
  BY <1>5 DEF Apply, ApplyConflict, Projection, Known
<1>6. CASE e.type = "checkpoint"
  BY <1>6 DEF Apply, ApplyCheckpoint, Projection, Known
<1> QED  BY <1>1, <1>2, <1>3, <1>4, <1>5, <1>6

\* Only a checkpoint event moves the checkpoint, and none the target.
LEMMA ApplyCheckpointed ==
  ASSUME db \in Projection, NEW e \in Events
  PROVE  /\ Apply(e).target = db.target
         /\ Apply(e).checkpoint =
              IF e.type = "checkpoint"
              THEN [state |-> e.word, cursor |-> e.page, watermark |-> e.number]
              ELSE db.checkpoint
<1> USE EventFields
<1>0. 0 \notin Values
  BY ObservationAssumption DEF Values
<1>1. CASE e.type = "row"
  BY <1>0, <1>1 DEF Apply, ApplyRow, Projection, Known
<1>2. CASE e.type = "property"
  BY <1>2 DEF Apply, ApplyProperty, Projection, Known
<1>3. CASE e.type = "absence"
  BY <1>3 DEF Apply, ApplyAbsence, Projection, Known
<1>4. CASE e.type = "tombstone"
  <2> DEFINE b == db.row[e.page].inTrash \/ (e.word = "remote_trash" /\ ~Frozen(e.page))
  <2>1. e.page \in Pages /\ e.word \in Reasons
    BY <1>4
  <2>2. Apply(e) = [db EXCEPT !.tombstone[e.page] = e.word, !.row[e.page].inTrash = b]
    BY <1>4 DEF Apply, ApplyTombstone
  <2> HIDE DEF b
  <2> QED  BY <1>4, <2>1, <2>2 DEF Projection, Known
<1>5. CASE e.type = "conflict"
  BY <1>5 DEF Apply, ApplyConflict, Projection, Known
<1>6. CASE e.type = "checkpoint"
  BY <1>6 DEF Apply, ApplyCheckpoint, Projection, Known
<1> QED  BY <1>1, <1>2, <1>3, <1>4, <1>5, <1>6

\* An append has its effect, now or when the same key was recorded before.
LEMMA AppendEffect ==
  ASSUME TypeOK, RowsCovered, ConflictsRaised, NEW e \in Events, AppendEvent(e)
  PROVE  /\ recorded' \subseteq Events /\ db' \in Projection
         /\ \A p \in Pages : Known(p) => Known(p)'
         /\ e.type = "row" => Known(e.page)'
         /\ \A p \in Pages, w \in {"active", "trash"} :
              db.conflict[p][w] # "none" => db'.conflict[p][w] # "none"
         /\ e.type = "conflict" => db'.conflict[e.page][e.word] # "none"
         /\ \A k \in recorded' : /\ k.type = "row" => Known(k.page)'
                                 /\ k.type = "conflict" => db'.conflict[k.page][k.word] # "none"
         /\ \A p \in Pages :
              /\ db'.absence[p] # db.absence[p] => e.type = "absence" /\ e.page = p
              /\ db'.tombstone[p] # db.tombstone[p]
                 => \/ e.type = "tombstone" /\ e.page = p /\ db'.tombstone[p] = e.word
                    \/ db'.tombstone[p] \in {"none", "unclassified"}
         /\ db'.target = db.target
         /\ db'.checkpoint =
              IF e.type = "checkpoint" /\ db' # db
              THEN [state |-> e.word, cursor |-> e.page, watermark |-> e.number]
              ELSE db.checkpoint
<1>1. db \in Projection /\ recorded \subseteq Events
  BY DEF TypeOK
<1>2. /\ \A k \in recorded : k.type = "row" => Known(k.page)
      /\ \A k \in recorded : k.type = "conflict" => db.conflict[k.page][k.word] # "none"
  BY DEF RowsCovered, ConflictsRaised
<1>3. Key(e) \in Events /\ Key(e).type = e.type /\ Key(e).page = e.page /\ Key(e).word = e.word
  BY KeyTyped
<1>4. CASE Key(e) \in recorded
  <2>1. recorded' = recorded /\ db' = db
    BY <1>4 DEF AppendEvent
  <2> QED  BY <1>1, <1>2, <1>3, <1>4, <2>1 DEF Known
<1>5. CASE Key(e) \notin recorded
  <2>1. recorded' = recorded \cup {Key(e)} /\ db' = Apply(e)
    BY <1>5 DEF AppendEvent
  <2>2. recorded' \subseteq Events /\ db' \in Projection
    BY <1>1, <1>3, <2>1, ApplyTyped
  <2>3. \A p \in Pages :
          /\ Known(p) \/ (e.type = "row" /\ e.page = p) => Known(p)'
          /\ \A w \in {"active", "trash"} :
               db.conflict[p][w] # "none" \/ (e.type = "conflict" /\ e.page = p /\ e.word = w)
               => db'.conflict[p][w] # "none"
          /\ db'.absence[p] # db.absence[p] => e.type = "absence" /\ e.page = p
          /\ db'.tombstone[p] # db.tombstone[p]
             => \/ e.type = "tombstone" /\ e.page = p /\ db'.tombstone[p] = e.word
                \/ db'.tombstone[p] \in {"none", "unclassified"}
    <3> SUFFICES ASSUME NEW p \in Pages
                 PROVE  /\ Known(p) \/ (e.type = "row" /\ e.page = p) => Known(p)'
                        /\ \A w \in {"active", "trash"} :
                             \/ db.conflict[p][w] # "none"
                             \/ e.type = "conflict" /\ e.page = p /\ e.word = w
                             => db'.conflict[p][w] # "none"
                        /\ db'.absence[p] # db.absence[p] => e.type = "absence" /\ e.page = p
                        /\ db'.tombstone[p] # db.tombstone[p]
                           => \/ /\ e.type = "tombstone" /\ e.page = p
                                 /\ db'.tombstone[p] = e.word
                              \/ db'.tombstone[p] \in {"none", "unclassified"}
      OBVIOUS
    <3>1. Known(p) \/ (e.type = "row" /\ e.page = p) => Known(p)'
      BY <1>1, <2>1, ApplyKnown DEF Known
    <3>2. \A w \in {"active", "trash"} :
            \/ db.conflict[p][w] # "none"
            \/ e.type = "conflict" /\ e.page = p /\ e.word = w
            => db'.conflict[p][w] # "none"
      BY <1>1, <2>1, ApplyRaised
    <3>3. db'.absence[p] # db.absence[p] => e.type = "absence" /\ e.page = p
      BY <1>1, <2>1, ApplyAbsent
    <3>4. db'.tombstone[p] # db.tombstone[p]
          => \/ e.type = "tombstone" /\ e.page = p /\ db'.tombstone[p] = e.word
             \/ db'.tombstone[p] \in {"none", "unclassified"}
      BY <1>1, <2>1, ApplyClassified
    <3> QED  BY <3>1, <3>2, <3>3, <3>4
  <2>4. \A k \in recorded' : /\ k.type = "row" => Known(k.page)'
                             /\ k.type = "conflict" => db'.conflict[k.page][k.word] # "none"
    <3> SUFFICES ASSUME NEW k \in recorded'
                 PROVE  /\ k.type = "row" => Known(k.page)'
                        /\ k.type = "conflict" => db'.conflict[k.page][k.word] # "none"
      OBVIOUS
    <3>1. k \in Events
      BY <2>2
    <3>2. /\ k.type \in {"row", "conflict"} => k.page \in Pages
          /\ k.type = "conflict" => k.word \in {"active", "trash"}
      BY <3>1, EventFields
    <3>3. CASE k \in recorded
      BY <1>2, <2>3, <3>2, <3>3
    <3>4. CASE k = Key(e)
      BY <1>3, <2>3, <3>2, <3>4
    <3> QED  BY <2>1, <3>3, <3>4
  <2>5. e.type \in {"row", "conflict"} => e.page \in Pages
    BY EventFields
  <2>6. e.type = "conflict" => e.word \in {"active", "trash"}
    BY EventFields
  <2>7. /\ db'.target = db.target
        /\ db'.checkpoint =
             IF e.type = "checkpoint" /\ db' # db
             THEN [state |-> e.word, cursor |-> e.page, watermark |-> e.number]
             ELSE db.checkpoint
    BY <1>1, <2>1, ApplyCheckpointed
  <2> QED  BY <2>2, <2>3, <2>4, <2>5, <2>6, <2>7
<1> QED  BY <1>4, <1>5

\* A page that was away stays one that was away.
LEMMA StaysAway ==
  ASSUME RemoteTracked, NEW p \in Pages, places[p] \subseteq places'[p], Away(p)
  PROVE  Away(p)'
<1>1. places[p] # {}
  BY DEF RemoteTracked
<1>2. PICK place \in places[p] : place # "active"
  BY <1>1 DEF Away
<1> QED  BY <1>2 DEF Away

LEMMA PullFields ==
  ASSUME TypeOK
  PROVE  /\ pull.cursor \in Cursors /\ pull.from \in Cursors
         /\ pull.since \in Times \cup {0} /\ pull.newest \in Times \cup {0}
         /\ pull.seen \subseteq Pages /\ pull.missing \subseteq Pages
         /\ pull.queue \in Seq(Events) /\ pull.disturbed \subseteq {"remote", "settlement"}
         /\ Pages \subseteq Nat \ {0} /\ Cursors \subseteq Nat /\ Times \subseteq Nat
<1>1. pull \in Pull
  BY DEF TypeOK
<1>2. Pages \subseteq Nat \ {0} /\ Cursors \subseteq Nat /\ Times \subseteq Nat
  BY ObservationAssumption DEF Cursors, Times
<1> QED  BY <1>1, <1>2 DEF Pull

\* A row the scan passes over is covered already, out of the incremental query, or away.
LEMMA PassedOver ==
  ASSUME TypeOK, RemoteTracked, NEW p \in Pages, p \notin Listed
  PROVE  p <= pull.cursor \/ pull.since # 0 \/ Away(p)
<1>1. remote[p].edited \in Nat
  BY ObservationAssumption DEF TypeOK, RemotePage, Times
<1>2. pull.cursor \in Nat /\ p \in Nat
  BY PullFields
<1>3. ~(p > pull.cursor) \/ pull.since # 0 \/ remote[p].place # "active"
  BY <1>1 DEF Listed
<1>4. remote[p].place # "active" => Away(p)
  BY DEF RemoteTracked, Away
<1> QED  BY <1>2, <1>3, <1>4

\* The rows a response lists when it is the last one.
LEMMA LastResponse ==
  ASSUME ~(Cardinality(Listed) > 1), NEW p \in Listed
  PROVE  Listed = {p}
<1>1. IsFiniteSet(Listed)
  <2>1. Listed \in SUBSET Pages /\ IsFiniteSet(Pages)
    BY ObservationAssumption DEF Listed
  <2> QED  BY <2>1, FS_Subset
<1>2. Cardinality(Listed) \in Nat /\ Cardinality(Listed) # 0
  BY <1>1, FS_CardinalityType, FS_EmptySet
<1>3. Cardinality(Listed) = 1
  BY <1>2
<1>4. \E q : Listed = {q}
  BY <1>1, <1>3, FS_Singleton
<1> QED  BY <1>4

LEMMA NoPullTyped == NoPull \in Pull
<1>1. <<>> \in Seq(Events)
  OBVIOUS
<1> QED  BY <1>1 DEF NoPull, Pull, Cursors

\* What others do to a running pull.
LEMMA DisturbEffect ==
  ASSUME TypeOK, NEW what \in {"remote", "settlement"}, Disturb(what)
  PROVE  /\ pull' \in Pull
         /\ \/ pull' = NoPull
            \/ pull' = [pull EXCEPT !.disturbed = pull.disturbed \cup {what}]
<1>1. pull \in Pull
  BY DEF TypeOK
<1>2. CASE pull.pc \in {"idle", "done"}
  BY <1>2, NoPullTyped DEF Disturb
<1>3. CASE pull.pc \notin {"idle", "done"}
  <2>1. pull' = [pull EXCEPT !.disturbed = pull.disturbed \cup {what}]
    BY <1>3 DEF Disturb
  <2>2. pull.disturbed \cup {what} \in SUBSET {"remote", "settlement"}
    BY <1>1 DEF Pull
  <2>3. pull' \in Pull
    BY <1>1, <2>1, <2>2 DEF Pull
  <2> QED  BY <2>1, <2>3
<1> QED  BY <1>2, <1>3

\* A step of others: the log stays, pages only go to more places, rows stay, conflicts
\* stay recorded, and a target that moves is noted in the running pull.
Aside ==
  /\ recorded' = recorded
  /\ \A p \in Pages : places[p] \subseteq places'[p] /\ (Known(p) => Known(p)')
  /\ \A p \in Pages, w \in {"active", "trash"} :
       db.conflict[p][w] # "none" => db'.conflict[p][w] # "none"
  /\ \A p \in Pages : /\ db'.absence[p] = db.absence[p]
                      /\ db'.tombstone[p] \in {db.tombstone[p], "none"}
  /\ db'.checkpoint = db.checkpoint
  /\ \/ pull' = NoPull
     \/ /\ pull' = [pull EXCEPT !.disturbed = pull'.disturbed]
        /\ pull.disturbed \subseteq pull'.disturbed
        /\ db'.target = db.target \/ "settlement" \in pull'.disturbed

LEMMA AsideKeeps ==
  ASSUME Inv, Aside, TypeOK', RemoteTracked'
  PROVE  Inv'
<1>1. /\ TypeOK /\ RemoteTracked /\ QueueSound /\ ScannedOrAway /\ RowsCovered
      /\ ConflictsRaised /\ AbsenceMeansAway /\ ClassifiedAsFound
  BY DEF Inv
<1>2. \A p \in Pages : places[p] \subseteq places'[p] /\ (Away(p) => Away(p)')
  BY <1>1, StaysAway DEF Aside
<1>3. \/ /\ pull'.queue = <<>> /\ pull'.missing = {} /\ pull'.pc = "idle"
         /\ pull'.from = 0 /\ pull'.since = 0 /\ pull'.checked = FALSE
      \/ /\ pull'.queue = pull.queue /\ pull'.missing = pull.missing /\ pull'.pc = pull.pc
         /\ pull'.from = pull.from /\ pull'.since = pull.since /\ pull'.ended = pull.ended
         /\ pull'.cursor = pull.cursor /\ pull'.seen = pull.seen
         /\ pull'.checked = pull.checked /\ pull.disturbed \subseteq pull'.disturbed
         /\ db'.target = db.target \/ "settlement" \in pull'.disturbed
  <2>1. CASE pull' = NoPull
    BY <2>1 DEF NoPull
  <2>2. CASE pull' # NoPull
    <3>1. pull \in Pull
      BY <1>1 DEF TypeOK
    <3> QED  BY <2>2, <3>1 DEF Aside, Pull
  <2> QED  BY <2>1, <2>2
<1>4. \A i \in 1..Len(pull.queue) :
        /\ pull.queue[i] \in Events
        /\ pull.queue[i].type # "checkpoint" => pull.queue[i].page \in Pages
  <2>1. \A i \in 1..Len(pull.queue) : pull.queue[i] \in Events
    BY <1>1, PullFields, ElementOfSeq
  <2> QED  BY <2>1, EventFields
<1>5. \A p \in Pages : Covered(p) => Covered(p)'
  BY <1>2 DEF Aside, Covered
<1>6. QueueSound'
  BY <1>1, <1>2, <1>3, <1>4 DEF QueueSound, Sound
<1>7. ScannedOrAway'
  <2>1. pull.missing \subseteq Pages
    BY <1>1, PullFields
  <2> QED  BY <1>1, <1>2, <1>3, <2>1 DEF ScannedOrAway
<1>8. RowsCovered'
  <2>1. \A e \in recorded' : e.type = "row" => Known(e.page)'
    <3>1. \A e \in recorded : e.type = "row" => e.page \in Pages
      BY <1>1, EventFields DEF TypeOK
    <3> QED  BY <1>1, <3>1 DEF RowsCovered, Aside
  <2>2. db'.checkpoint.state # "none" => \A p \in Pages :
          StandsFor(p, db'.checkpoint.state, db'.checkpoint.cursor) => Covered(p)'
    BY <1>1, <1>5 DEF RowsCovered, Aside, StandsFor
  <2>3. \A p \in Pages : p <= pull'.from \/ pull'.since # 0 => Covered(p)'
    <3>1. \A p \in Pages : ~(p <= 0)
      BY ObservationAssumption
    <3> QED  BY <1>1, <1>3, <1>5, <3>1 DEF RowsCovered
  <2>4. \A p \in Pages : ToBeCovered(p) /\ pull'.queue = pull.queue => ToBeCovered(p)'
    BY <1>5 DEF ToBeCovered, RowQueued
  <2>5. pull'.pc = "query" => \A p \in Pages : p <= pull'.cursor => ToBeCovered(p)'
    BY <1>1, <1>3, <2>4 DEF RowsCovered
  <2>6. ASSUME NEW i \in 1..Len(pull'.queue), pull'.queue[i].type = "checkpoint"
        PROVE  /\ pull'.pc = "append" /\ i = Len(pull'.queue)
               /\ \A p \in Pages :
                    StandsFor(p, pull'.queue[i].word, pull'.queue[i].page) => ToBeCovered(p)'
    BY <1>1, <1>3, <2>4, <2>6 DEF RowsCovered, CheckpointLast, StandsFor
  <2> QED  BY <2>1, <2>2, <2>3, <2>5, <2>6 DEF RowsCovered, CheckpointLast, StandsFor
<1>9. ConflictsRaised'
  <2>1. \A e \in recorded : e.type = "conflict" => e.page \in Pages /\ e.word \in {"active", "trash"}
    BY <1>1, EventFields DEF TypeOK
  <2>2. \A e \in recorded' : e.type = "conflict" => db'.conflict[e.page][e.word] # "none"
    BY <1>1, <2>1 DEF ConflictsRaised, Aside
  <2>3. pull'.checked => pull'.queue # <<>>
    BY <1>1, <1>3 DEF ConflictsRaised
  <2>4. ASSUME pull'.checked, "settlement" \notin pull'.disturbed,
               NEW e \in Divergence(Head(pull.queue))'
        PROVE  db'.conflict[e.page][e.word] # "none"
    <3>1. /\ pull'.queue = pull.queue /\ pull.checked /\ db'.target = db.target
          /\ "settlement" \notin pull.disturbed
      BY <1>3, <2>4
    <3>2. Head(pull.queue) \in Events
      BY <1>1, <3>1, PullFields, HeadTailProperties DEF ConflictsRaised
    <3>3. e \in Divergence(Head(pull.queue))
      BY <2>4, <3>1 DEF Divergence
    <3>4. db.conflict[e.page][e.word] # "none"
      BY <1>1, <3>1, <3>3 DEF ConflictsRaised
    <3>5. e.page \in Pages /\ e.word \in {"active", "trash"}
      BY <3>2, <3>3, EventFields DEF Divergence, Event
    <3> QED  BY <3>4, <3>5 DEF Aside
  <2> QED  BY <2>2, <2>3, <2>4 DEF ConflictsRaised
<1>10. AbsenceMeansAway' /\ ClassifiedAsFound'
  <2>1. AbsenceMeansAway'
    BY <1>1, <1>2 DEF AbsenceMeansAway, Aside, Away
  <2>2. ClassifiedAsFound'
    BY <1>1, <1>2 DEF ClassifiedAsFound, Aside
  <2> QED  BY <2>1, <2>2
<1> QED  BY <1>6, <1>7, <1>8, <1>9, <1>10 DEF Inv

LEMMA SpendTyped ==
  ASSUME TypeOK, NEW what \in {"edits", "moves", "pushes", "faults"}, NEW limit, Spend(what, limit)
  PROVE  /\ budget' \in [{"edits", "moves", "pushes", "faults"} -> Nat]
         /\ budget'.edits = IF what = "edits" THEN budget.edits + 1 ELSE budget.edits
  BY DEF TypeOK, Spend

LEMMA RemoteTyped ==
  ASSUME TypeOK, NEW p \in Pages
  PROVE  remote[p].value \in Values /\ remote[p].edited \in Times /\ remote[p].place \in Places
  BY DEF TypeOK, RemotePage

LEMMA EditKeeps ==
  ASSUME Inv, NEW p \in Pages, Edit(p)
  PROVE  Inv'
<1>1. TypeOK /\ RemoteTracked
  BY DEF Inv
<1>2. PICK v \in Values :
        remote' = [remote EXCEPT ![p].value = v, ![p].edited = Clock + 1]
  BY DEF Edit
<1>3. /\ budget' \in [{"edits", "moves", "pushes", "faults"} -> Nat]
      /\ budget'.edits = budget.edits + 1 /\ budget.edits < MaxEdits
  BY <1>1, SpendTyped DEF Edit, Spend
<1>4. /\ MaxEdits \in Nat /\ budget.edits \in Nat
      /\ Clock \in Nat /\ Clock <= budget.edits + 1
  BY <1>1, ClockBound, ObservationAssumption DEF TypeOK
<1>5. Clock + 1 \in Times /\ Clock + 1 <= budget'.edits + 1
  BY <1>3, <1>4 DEF Times
<1> DEFINE t == Clock + 1
<1>6. t \in Times /\ t <= budget'.edits + 1
  BY <1>5
<1>7. remote' = [remote EXCEPT ![p].value = v, ![p].edited = t]
  BY <1>2
<1> HIDE DEF t
<1>8. /\ remote' \in [Pages -> RemotePage]
      /\ remote'[p].edited = t /\ remote'[p].place = remote[p].place
      /\ \A q \in Pages : q # p => remote'[q] = remote[q]
  BY <1>1, <1>6, <1>7 DEF TypeOK, RemotePage
<1>9. pull' \in Pull /\ (\/ pull' = NoPull
                         \/ pull' = [pull EXCEPT !.disturbed = pull.disturbed \cup {"remote"}])
  BY <1>1, DisturbEffect DEF Edit
<1>10. UNCHANGED <<recorded, db, landed, places>>
  BY DEF Edit
<1>11. TypeOK'
  BY <1>1, <1>3, <1>8, <1>9, <1>10 DEF TypeOK
<1>12. RemoteTracked'
  <2> SUFFICES ASSUME NEW q \in Pages
               PROVE  remote'[q].edited <= budget'.edits + 1 /\ remote'[q].place \in places'[q]
    BY DEF RemoteTracked
  <2>1. remote[q].edited <= budget.edits + 1 /\ remote[q].place \in places[q]
    BY <1>1 DEF RemoteTracked
  <2>2. remote[q].edited \in Nat
    BY <1>1, RemoteTyped, PullFields
  <2> QED  BY <1>3, <1>4, <1>6, <1>8, <1>10, <2>1, <2>2
<1>13. Aside
  <2>1. pull' = NoPull \/ (/\ pull' = [pull EXCEPT !.disturbed = pull'.disturbed]
                           /\ pull.disturbed \subseteq pull'.disturbed)
    BY <1>1, <1>9 DEF TypeOK, Pull
  <2> QED  BY <1>10, <2>1 DEF Aside, Known
<1> QED  BY <1>11, <1>12, <1>13, AsideKeeps

\* A page that changes its place.
LEMMA PlacePageKeeps ==
  ASSUME Inv, NEW p \in Pages, NEW place \in Places, PlacePage(p, place), UNCHANGED <<recorded, db>>,
         landed' \in [Pages -> Commands], budget'.edits = budget.edits,
         budget' \in [{"edits", "moves", "pushes", "faults"} -> Nat]
  PROVE  Inv'
<1>1. TypeOK /\ RemoteTracked
  BY DEF Inv
<1>2. remote' = [remote EXCEPT ![p] = [@ EXCEPT !.place = place]]
  BY DEF PlacePage
<1>3. remote' \in [Pages -> RemotePage]
  BY <1>1, <1>2 DEF TypeOK, RemotePage
<1>4. places' = [places EXCEPT ![p] = @ \cup {place}] /\ places' \in [Pages -> SUBSET Places]
  BY <1>1 DEF PlacePage, TypeOK
<1>5. pull' \in Pull /\ (\/ pull' = NoPull
                         \/ pull' = [pull EXCEPT !.disturbed = pull.disturbed \cup {"remote"}])
  BY <1>1, DisturbEffect DEF PlacePage
<1>6. TypeOK'
  BY <1>1, <1>3, <1>4, <1>5 DEF TypeOK
<1>7. RemoteTracked'
  BY <1>1, <1>2, <1>4 DEF RemoteTracked, TypeOK, RemotePage
<1>8. Aside
  <2>1. pull' = NoPull \/ (/\ pull' = [pull EXCEPT !.disturbed = pull'.disturbed]
                           /\ pull.disturbed \subseteq pull'.disturbed)
    BY <1>1, <1>5 DEF TypeOK, Pull
  <2>2. \A q \in Pages : places[q] \subseteq places'[q]
    BY <1>1, <1>4 DEF TypeOK
  <2> QED  BY <2>1, <2>2 DEF Aside, Known
<1> QED  BY <1>6, <1>7, <1>8, AsideKeeps

LEMMA MoveKeeps ==
  ASSUME Inv, NEW p \in Pages, Move(p)
  PROVE  Inv'
<1>1. TypeOK
  BY DEF Inv
<1>2. PICK place \in Places : PlacePage(p, place)
  BY DEF Move
<1>3. UNCHANGED <<recorded, db, landed>> /\ Spend("moves", MaxMoves)
  BY DEF Move
<1>4. landed' \in [Pages -> Commands]
  BY <1>1, <1>3 DEF TypeOK
<1>5. /\ budget' \in [{"edits", "moves", "pushes", "faults"} -> Nat]
      /\ budget'.edits = budget.edits
  BY <1>1, <1>3, SpendTyped
<1> QED  BY <1>2, <1>3, <1>4, <1>5, PlacePageKeeps

LEMMA PushKeeps ==
  ASSUME Inv, NEW p \in Pages, NEW c \in {"TrashPage", "RestorePage"}, Push(p, c)
  PROVE  Inv'
<1>1. TypeOK
  BY DEF Inv
<1>2. PlacePage(p, Wanted(c)) /\ Wanted(c) \in Places
  BY DEF Push, Wanted, Places
<1>3. UNCHANGED <<recorded, db>> /\ Spend("pushes", MaxPushes)
  BY DEF Push
<1>4. landed' \in [Pages -> Commands]
  BY <1>1 DEF TypeOK, Push, Commands
<1>5. /\ budget' \in [{"edits", "moves", "pushes", "faults"} -> Nat]
      /\ budget'.edits = budget.edits
  BY <1>1, <1>3, SpendTyped
<1> QED  BY <1>2, <1>3, <1>4, <1>5, PlacePageKeeps

\* A settlement or resolution that keeps every conflict recorded.
LEMMA ResolutionKeeps ==
  ASSUME Inv, NEW p \in Pages, db' \in Projection,
         \A q \in Pages : db'.row[q].value = db.row[q].value,
         \A q \in Pages, w \in {"active", "trash"} :
           db.conflict[q][w] # "none" => db'.conflict[q][w] # "none",
         db'.absence = db.absence, db'.checkpoint = db.checkpoint,
         \A q \in Pages : db'.tombstone[q] \in {db.tombstone[q], "none"},
         Disturb("settlement"), landed' \in [Pages -> Commands],
         UNCHANGED <<remote, recorded, places, budget>>
  PROVE  Inv'
<1>1. TypeOK /\ RemoteTracked
  BY DEF Inv
<1>2. pull' \in Pull /\ (\/ pull' = NoPull
                         \/ pull' = [pull EXCEPT !.disturbed = pull.disturbed \cup {"settlement"}])
  BY <1>1, DisturbEffect
<1>3. TypeOK'
  BY <1>1, <1>2 DEF TypeOK
<1>4. RemoteTracked'
  BY <1>1 DEF RemoteTracked
<1>5. Aside
  <2>1. pull' = NoPull \/ (/\ pull' = [pull EXCEPT !.disturbed = pull'.disturbed]
                           /\ pull.disturbed \subseteq pull'.disturbed
                           /\ "settlement" \in pull'.disturbed)
    BY <1>1, <1>2 DEF TypeOK, Pull
  <2> QED  BY <2>1 DEF Aside, Known
<1> QED  BY <1>3, <1>4, <1>5, AsideKeeps

LEMMA RowTyped ==
  ASSUME db \in Projection, NEW p \in Pages, NEW b \in BOOLEAN
  PROVE  /\ [db.row EXCEPT ![p].inTrash = b] \in [Pages -> [value : Values \cup {0}, inTrash : BOOLEAN]]
         /\ \A q \in Pages : [db.row EXCEPT ![p].inTrash = b][q].value = db.row[q].value
<1> DEFINE R == [value : Values \cup {0}, inTrash : BOOLEAN]
<1>1. db.row \in [Pages -> R]
  BY DEF Projection
<1>2. \A r \in R : [r EXCEPT !.inTrash = b] \in R /\ [r EXCEPT !.inTrash = b].value = r.value
  OBVIOUS
<1> HIDE DEF R
<1>3. [db.row EXCEPT ![p].inTrash = b] = [db.row EXCEPT ![p] = [db.row[p] EXCEPT !.inTrash = b]]
  OBVIOUS
<1>4. /\ [db.row EXCEPT ![p] = [db.row[p] EXCEPT !.inTrash = b]] \in [Pages -> R]
      /\ \A q \in Pages :
           [db.row EXCEPT ![p] = [db.row[p] EXCEPT !.inTrash = b]][q].value = db.row[q].value
  BY <1>1, <1>2
<1> QED  BY <1>3, <1>4 DEF R

LEMMA SettleKeeps ==
  ASSUME Inv, NEW p \in Pages, Settle(p)
  PROVE  Inv'
<1> DEFINE b == landed[p] = "TrashPage"
           c == [w \in DOMAIN db.conflict[p] |->
                   IF db.conflict[p][w] = "resolving" THEN "resolved" ELSE db.conflict[p][w]]
           t == IF landed[p] = "RestorePage" /\ db.tombstone[p] = "remote_trash"
                THEN "none" ELSE db.tombstone[p]
<1>1. TypeOK /\ db \in Projection
  BY DEF Inv, TypeOK
<1>2. db' = [db EXCEPT !.row[p].inTrash = b, !.target[p] = Wanted(landed[p]),
                       !.conflict[p] = c, !.tombstone[p] = t]
  BY <1>1 DEF Settle, Projection
<1>3. /\ b \in BOOLEAN /\ Wanted(landed[p]) \in {"active", "trash"}
      /\ t \in Reasons \cup {"none", "unclassified"} /\ t \in {db.tombstone[p], "none"}
  BY <1>1 DEF Wanted, Projection
<1>4. /\ c \in [{"active", "trash"} -> {"none", "open", "resolving", "resolved"}]
      /\ \A w \in {"active", "trash"} : db.conflict[p][w] # "none" => c[w] # "none"
  BY <1>1 DEF Projection
<1> HIDE DEF b, c, t
<1>5. db' \in Projection
  <2>1. db' = [db EXCEPT !.row = [db.row EXCEPT ![p].inTrash = b],
                         !.target = [db.target EXCEPT ![p] = Wanted(landed[p])],
                         !.conflict = [db.conflict EXCEPT ![p] = c],
                         !.tombstone = [db.tombstone EXCEPT ![p] = t]]
    BY <1>1, <1>2 DEF Projection
  <2>2. [db.row EXCEPT ![p].inTrash = b]
          \in [Pages -> [value : Values \cup {0}, inTrash : BOOLEAN]]
    BY <1>1, <1>3, RowTyped
  <2> QED  BY <1>1, <1>3, <1>4, <2>1, <2>2 DEF Projection
<1>6. /\ \A q \in Pages : db'.row[q].value = db.row[q].value
      /\ \A q \in Pages, w \in {"active", "trash"} :
           db.conflict[q][w] # "none" => db'.conflict[q][w] # "none"
      /\ db'.absence = db.absence /\ db'.checkpoint = db.checkpoint
      /\ \A q \in Pages : db'.tombstone[q] \in {db.tombstone[q], "none"}
  BY <1>1, <1>2, <1>3, <1>4 DEF Projection
<1>7. landed' \in [Pages -> Commands]
  BY <1>1 DEF TypeOK, Settle, Commands
<1>8. Disturb("settlement") /\ UNCHANGED <<remote, recorded, places, budget>>
  BY DEF Settle
<1> QED  BY <1>5, <1>6, <1>7, <1>8, ResolutionKeeps

LEMMA KeepRemoteKeeps ==
  ASSUME Inv, NEW p \in Pages, NEW w \in {"active", "trash"}, KeepRemote(p, w)
  PROVE  Inv'
<1> DEFINE b == w = "trash"
           t == IF w = "active" /\ db.tombstone[p] = "remote_trash"
                THEN "none" ELSE db.tombstone[p]
<1>1. TypeOK /\ db \in Projection
  BY DEF Inv, TypeOK
<1>2. db' = [db EXCEPT !.conflict[p][w] = "resolved", !.row[p].inTrash = b, !.tombstone[p] = t]
  BY <1>1 DEF KeepRemote, Projection
<1>3. /\ b \in BOOLEAN
      /\ t \in Reasons \cup {"none", "unclassified"} /\ t \in {db.tombstone[p], "none"}
  BY <1>1 DEF Projection
<1> HIDE DEF b, t
<1>4. db' \in Projection
  <2>1. db' = [db EXCEPT !.conflict = [db.conflict EXCEPT ![p][w] = "resolved"],
                         !.row = [db.row EXCEPT ![p].inTrash = b],
                         !.tombstone = [db.tombstone EXCEPT ![p] = t]]
    BY <1>1, <1>2 DEF Projection
  <2>2. [db.row EXCEPT ![p].inTrash = b]
          \in [Pages -> [value : Values \cup {0}, inTrash : BOOLEAN]]
    BY <1>1, <1>3, RowTyped
  <2> QED  BY <1>1, <1>3, <2>1, <2>2 DEF Projection
<1>5. /\ \A q \in Pages : db'.row[q].value = db.row[q].value
      /\ \A q \in Pages, v \in {"active", "trash"} :
           db.conflict[q][v] # "none" => db'.conflict[q][v] # "none"
      /\ db'.absence = db.absence /\ db'.checkpoint = db.checkpoint
      /\ \A q \in Pages : db'.tombstone[q] \in {db.tombstone[q], "none"}
  BY <1>1, <1>2, <1>3 DEF Projection
<1>6. landed' \in [Pages -> Commands]
  BY <1>1 DEF TypeOK, KeepRemote
<1>7. Disturb("settlement") /\ UNCHANGED <<remote, recorded, places, budget>>
  BY DEF KeepRemote
<1> QED  BY <1>4, <1>5, <1>6, <1>7, ResolutionKeeps

LEMMA KeepLocalKeeps ==
  ASSUME Inv, NEW p \in Pages, NEW w \in {"active", "trash"}, KeepLocal(p, w)
  PROVE  Inv'
<1>1. TypeOK /\ RemoteTracked /\ db \in Projection /\ pull \in Pull
  BY DEF Inv, TypeOK
<1>2. db' = [db EXCEPT !.conflict[p][w] = "resolving"]
  BY DEF KeepLocal
<1>3. UNCHANGED <<remote, recorded, landed, pull, places, budget>>
  BY DEF KeepLocal
<1>4. TypeOK' /\ RemoteTracked'
  <2>1. db' \in Projection
    BY <1>1, <1>2 DEF Projection
  <2> QED  BY <1>1, <1>3, <2>1 DEF TypeOK, RemoteTracked
<1>5. Aside
  <2>1. pull' = [pull EXCEPT !.disturbed = pull'.disturbed] /\ pull.disturbed \subseteq pull'.disturbed
    BY <1>1, <1>3 DEF Pull
  <2>2. /\ \A q \in Pages : Known(q) => Known(q)'
        /\ \A q \in Pages, v \in {"active", "trash"} :
             db.conflict[q][v] # "none" => db'.conflict[q][v] # "none"
        /\ db'.absence = db.absence /\ db'.tombstone = db.tombstone
        /\ db'.checkpoint = db.checkpoint /\ db'.target = db.target
    BY <1>1, <1>2 DEF Projection, Known
  <2> QED  BY <1>3, <2>1, <2>2 DEF Aside
<1> QED  BY <1>4, <1>5, AsideKeeps

LEMMA InterruptKeeps ==
  ASSUME Inv, Interrupt
  PROVE  Inv'
<1>1. TypeOK /\ RemoteTracked
  BY DEF Inv
<1>2. pull' = NoPull /\ UNCHANGED <<remote, recorded, db, landed, places>>
  BY DEF Interrupt
<1>3. /\ budget' \in [{"edits", "moves", "pushes", "faults"} -> Nat]
      /\ budget'.edits = budget.edits
  BY <1>1, SpendTyped DEF Interrupt
<1>4. TypeOK' /\ RemoteTracked'
  BY <1>1, <1>2, <1>3, NoPullTyped DEF TypeOK, RemoteTracked
<1>5. Aside
  BY <1>2 DEF Aside, Known
<1> QED  BY <1>4, <1>5, AsideKeeps

\* A step of the pull that records nothing.
LEMMA ReadingKeeps ==
  ASSUME Inv, pull' \in Pull, UNCHANGED <<remote, recorded, db, landed, places>>,
         budget' \in [{"edits", "moves", "pushes", "faults"} -> Nat],
         budget'.edits = budget.edits,
         QueueSound', ScannedOrAway', CheckpointLast',
         \A p \in Pages : p <= pull'.from \/ pull'.since # 0 => Covered(p),
         pull'.pc = "query" => \A p \in Pages : p <= pull'.cursor => ToBeCovered(p)',
         pull'.checked => /\ pull.checked /\ pull'.queue # <<>> /\ Head(pull'.queue) = Head(pull.queue)
                          /\ pull'.disturbed = pull.disturbed
  PROVE  Inv'
<1>1. TypeOK /\ RemoteTracked /\ RowsCovered /\ ConflictsRaised
  BY DEF Inv
<1>2. TypeOK' /\ RemoteTracked'
  BY <1>1 DEF TypeOK, RemoteTracked
<1>3. RowsCovered'
  <2>1. \A p \in Pages : Covered(p) <=> Covered(p)'
    BY DEF Covered, Away, Known
  <2>2. \A e \in recorded' : e.type = "row" => Known(e.page)'
    BY <1>1 DEF RowsCovered, Known
  <2>3. db'.checkpoint.state # "none" => \A p \in Pages :
          StandsFor(p, db'.checkpoint.state, db'.checkpoint.cursor) => Covered(p)'
    BY <1>1, <2>1 DEF RowsCovered, StandsFor
  <2>4. \A p \in Pages : p <= pull'.from \/ pull'.since # 0 => Covered(p)'
    BY <2>1
  <2> QED  BY <2>2, <2>3, <2>4 DEF RowsCovered, StandsFor, CheckpointLast
<1>4. ConflictsRaised'
  <2>1. \A e \in recorded' : e.type = "conflict" => db'.conflict[e.page][e.word] # "none"
    BY <1>1 DEF ConflictsRaised
  <2>2. ASSUME pull'.checked, "settlement" \notin pull'.disturbed
        PROVE  \A e \in Divergence(Head(pull.queue))' : db'.conflict[e.page][e.word] # "none"
    <3>1. Divergence(Head(pull.queue))' = Divergence(Head(pull.queue))
      BY <2>2 DEF Divergence
    <3>2. \A e \in Divergence(Head(pull.queue)) : db.conflict[e.page][e.word] # "none"
      BY <1>1, <2>2 DEF ConflictsRaised
    <3> QED  BY <3>1, <3>2
  <2> QED  BY <2>1, <2>2 DEF ConflictsRaised
<1>5. AbsenceMeansAway' /\ ClassifiedAsFound'
  BY DEF Inv, AbsenceMeansAway, ClassifiedAsFound
<1> QED  BY <1>2, <1>3, <1>4, <1>5 DEF Inv

LEMMA BeginKeeps ==
  ASSUME Inv, NEW incremental \in BOOLEAN, Begin(incremental)
  PROVE  Inv'
<1> DEFINE s == Since(incremental)
           c == ResumeCursor
<1>1. TypeOK /\ RowsCovered /\ db \in Projection
  BY DEF Inv, TypeOK
<1>2. pull' = [NoPull EXCEPT !.pc = "query", !.since = s, !.from = c, !.cursor = c, !.newest = s]
  BY DEF Begin
<1>3. s \in Times \cup {0} /\ c \in Cursors
  BY <1>1 DEF Since, ResumeCursor, Projection, Cursors
<1>4. \A p \in Pages : p <= c \/ s # 0 => Covered(p)
  <2>1. \A p \in Pages : ~(p <= 0)
    BY ObservationAssumption
  <2>2. \A p \in Pages : p <= c => Covered(p)
    BY <1>1, <2>1 DEF ResumeCursor, RowsCovered, StandsFor
  <2>3. s # 0 => \A p \in Pages : Covered(p)
    BY <1>1 DEF Since, RowsCovered, StandsFor
  <2> QED  BY <2>2, <2>3
<1> HIDE DEF s, c
<1>5. /\ pull' \in Pull /\ pull'.queue = <<>> /\ pull'.missing = {} /\ pull'.pc = "query"
      /\ pull'.from = c /\ pull'.cursor = c /\ pull'.since = s /\ pull'.ended = "no"
      /\ pull'.checked = FALSE
  BY <1>2, <1>3, NoPullTyped DEF NoPull, Pull
<1>6. UNCHANGED <<remote, recorded, db, landed, places, budget>>
  BY DEF Begin
<1>7. budget' \in [{"edits", "moves", "pushes", "faults"} -> Nat]
  BY <1>1, <1>6 DEF TypeOK
<1>8. QueueSound' /\ CheckpointLast'
  BY <1>5 DEF QueueSound, CheckpointLast
<1>9. ScannedOrAway'
  <2>1. \A p \in Pages : ~(p <= 0)
    BY ObservationAssumption
  <2> QED  BY <1>5, <2>1 DEF ScannedOrAway
<1>10. \A p \in Pages : Covered(p) => ToBeCovered(p)'
  BY <1>6 DEF Covered, ToBeCovered, Away, Known
<1> QED  BY <1>4, <1>5, <1>6, <1>7, <1>8, <1>9, <1>10, ReadingKeeps

LEMMA ClassifyKeeps ==
  ASSUME Inv, Classify
  PROVE  Inv'
<1> DEFINE M == Missing
           c == IF M = {} THEN "mark" ELSE "verify"
<1>1. TypeOK /\ RowsCovered /\ ScannedOrAway /\ pull \in Pull
  BY DEF Inv, TypeOK
<1>2. pull' = [pull EXCEPT !.missing = M, !.pc = c] /\ pull.pc = "append" /\ pull.queue = <<>>
  BY DEF Classify
<1>3. M \in SUBSET Pages /\ c \in {"mark", "verify"}
  BY DEF Missing
<1>4. \A p \in M : Away(p)
  BY <1>1, <1>2 DEF Missing, CanClassify, ScannedOrAway
<1> HIDE DEF M, c
<1>5. /\ pull' \in Pull /\ pull'.queue = <<>> /\ pull'.missing = M /\ pull'.pc = c
      /\ pull'.from = pull.from /\ pull'.since = pull.since /\ pull'.checked = pull.checked
  BY <1>1, <1>2, <1>3 DEF Pull
<1>6. UNCHANGED <<remote, recorded, db, landed, places, budget>>
  BY DEF Classify
<1>7. budget' \in [{"edits", "moves", "pushes", "faults"} -> Nat]
  BY <1>1, <1>6 DEF TypeOK
<1>8. QueueSound' /\ CheckpointLast'
  BY <1>5 DEF QueueSound, CheckpointLast
<1>9. ScannedOrAway'
  BY <1>3, <1>4, <1>5, <1>6 DEF ScannedOrAway, Away, c
<1>10. \A p \in Pages : p <= pull'.from \/ pull'.since # 0 => Covered(p)
  BY <1>1, <1>5 DEF RowsCovered
<1>11. ~pull'.checked
  BY <1>2, <1>5 DEF Inv, ConflictsRaised
<1> QED  BY <1>3, <1>5, <1>6, <1>7, <1>8, <1>9, <1>10, <1>11, ReadingKeeps

LEMMA CompleteKeeps ==
  ASSUME Inv, Complete
  PROVE  Inv'
<1>1. TypeOK /\ RowsCovered /\ pull \in Pull
  BY DEF Inv, TypeOK
<1>2. /\ pull' \in Pull /\ pull'.queue = <<>> /\ pull'.missing = {} /\ pull'.pc = "done"
      /\ pull'.from = pull.from /\ pull'.since = pull.since /\ pull'.checked = FALSE
  BY <1>1, NoPullTyped DEF Complete, NoPull, Pull
<1>3. UNCHANGED <<remote, recorded, db, landed, places, budget>>
  BY DEF Complete
<1>4. budget' \in [{"edits", "moves", "pushes", "faults"} -> Nat]
  BY <1>1, <1>3 DEF TypeOK
<1>5. QueueSound' /\ CheckpointLast' /\ ScannedOrAway'
  BY <1>2 DEF QueueSound, CheckpointLast, ScannedOrAway
<1>6. \A p \in Pages : p <= pull'.from \/ pull'.since # 0 => Covered(p)
  BY <1>1, <1>2 DEF RowsCovered
<1> QED  BY <1>2, <1>3, <1>4, <1>5, <1>6, ReadingKeeps

\* Appending to the queue leaves its head and its events where they are.
LEMMA QueueGrows ==
  ASSUME NEW s \in Seq(Events), NEW t \in Seq(Events)
  PROVE  /\ s \o t \in Seq(Events) /\ Len(s \o t) = Len(s) + Len(t)
         /\ s # <<>> => s \o t # <<>> /\ Head(s \o t) = Head(s)
         /\ \A i \in 1..Len(s) : i \in 1..Len(s \o t) /\ (s \o t)[i] = s[i]
         /\ \A i \in 1..Len(s \o t) :
              \/ i \in 1..Len(s) /\ (s \o t)[i] = s[i]
              \/ i > Len(s) /\ i - Len(s) \in 1..Len(t) /\ (s \o t)[i] = t[i - Len(s)]
<1>1. /\ s \o t \in Seq(Events) /\ Len(s \o t) = Len(s) + Len(t)
      /\ \A i \in 1..Len(s) + Len(t) :
           (s \o t)[i] = IF i <= Len(s) THEN s[i] ELSE t[i - Len(s)]
  BY ConcatProperties
<1>2. Len(s) \in Nat /\ Len(t) \in Nat
  BY LenProperties
<1>3. s # <<>> => s \o t # <<>> /\ Head(s \o t) = Head(s)
  <2> SUFFICES ASSUME s # <<>>
               PROVE  s \o t # <<>> /\ Head(s \o t) = Head(s)
    OBVIOUS
  <2>1. Len(s) > 0
    BY <1>2, EmptySeq
  <2>2. s \o t # <<>>
    BY <1>1, <1>2, <2>1, EmptySeq
  <2>3. Head(s \o t) = (s \o t)[1] /\ Head(s) = s[1]
    BY <1>1, <2>2
  <2> QED  BY <1>1, <1>2, <2>1, <2>2, <2>3
<1> QED  BY <1>1, <1>2, <1>3

LEMMA AbsenceEventsTyped ==
  ASSUME NEW p \in Pages, NEW r \in Retrievals
  PROVE  /\ AbsenceEvents(p, r) \in Seq(Events)
         /\ \A i \in 1..Len(AbsenceEvents(p, r)) :
              \/ AbsenceEvents(p, r)[i] = Event("absence", p, 0, r)
              \/ /\ Reason(r) # "none"
                 /\ AbsenceEvents(p, r)[i] = Event("tombstone", p, 0, Reason(r))
<1> DEFINE a == Event("absence", p, 0, r)
           t == Event("tombstone", p, 0, Reason(r))
<1>1. a \in Events
  BY DEF Event, Events, EventSet
<1>2. Reason(r) # "none" => t \in Events
  BY DEF Event, Events, EventSet, Reason, Reasons, Retrievals
<1> DEFINE u == IF Reason(r) = "none" THEN <<>> ELSE <<t>>
<1>3. AbsenceEvents(p, r) = <<a>> \o u
  BY DEF AbsenceEvents
<1> HIDE DEF a, t
<1>4. /\ <<a>> \in Seq(Events) /\ Len(<<a>>) = 1 /\ <<a>>[1] = a
      /\ u \in Seq(Events) /\ \A i \in 1..Len(u) : Reason(r) # "none" /\ u[i] = t
  BY <1>1, <1>2
<1> HIDE DEF u
<1>5. /\ AbsenceEvents(p, r) \in Seq(Events)
      /\ \A i \in 1..Len(AbsenceEvents(p, r)) :
           \/ AbsenceEvents(p, r)[i] = a
           \/ Reason(r) # "none" /\ AbsenceEvents(p, r)[i] = t
  BY <1>3, <1>4, QueueGrows
<1> QED  BY <1>5 DEF a, t

LEMMA VerifyKeeps ==
  ASSUME Inv, Verify
  PROVE  Inv'
<1> DEFINE p == Min(pull.missing)
           c == IF pull.missing = {p} THEN "mark" ELSE pull.pc
<1>1. TypeOK /\ RemoteTracked /\ RowsCovered /\ ScannedOrAway /\ QueueSound /\ ConflictsRaised
  BY DEF Inv
<1>2. pull \in Pull /\ pull.queue \in Seq(Events) /\ pull.missing \subseteq Pages /\ pull.pc = "verify"
  BY <1>1, PullFields DEF TypeOK, Verify
<1>3. p \in pull.missing /\ p \in Pages /\ Away(p)
  BY <1>1, <1>2, FirstPage DEF ScannedOrAway
<1>4. PICK r \in Retrievals, f \in BOOLEAN :
        /\ r \in {Retrieval(p), "unknown"}
        /\ pull' = [pull EXCEPT !.missing = pull.missing \ {p}, !.faulty = f, !.pc = c,
                                !.queue = pull.queue \o AbsenceEvents(p, r)]
        /\ budget' \in [{"edits", "moves", "pushes", "faults"} -> Nat]
        /\ budget'.edits = budget.edits
  <2> DEFINE Found(retrieval, faulty) ==
               pull' = [pull EXCEPT !.missing = pull.missing \ {p}, !.faulty = pull.faulty \/ faulty,
                                    !.pc = c, !.queue = pull.queue \o AbsenceEvents(p, retrieval)]
  <2>1. \/ Found(Retrieval(p), FALSE) /\ UNCHANGED budget
        \/ Found("unknown", TRUE) /\ Spend("faults", MaxFaults)
    BY <1>2 DEF Verify, Pull
  <2>2. Retrieval(p) \in Retrievals /\ "unknown" \in Retrievals
    BY <1>1, <1>3, RemoteTyped DEF Retrieval, Retrievals, Places
  <2>3. (pull.faulty \/ FALSE) \in BOOLEAN /\ (pull.faulty \/ TRUE) \in BOOLEAN
    OBVIOUS
  <2>4. CASE Found(Retrieval(p), FALSE) /\ UNCHANGED budget
    <3>1. /\ budget' \in [{"edits", "moves", "pushes", "faults"} -> Nat]
          /\ budget'.edits = budget.edits
      BY <1>1, <2>4 DEF TypeOK
    <3> QED  BY <2>2, <2>3, <2>4, <3>1
  <2>5. CASE Found("unknown", TRUE) /\ Spend("faults", MaxFaults)
    <3>1. /\ budget' \in [{"edits", "moves", "pushes", "faults"} -> Nat]
          /\ budget'.edits = budget.edits
      BY <1>1, <2>5, SpendTyped
    <3> QED  BY <2>2, <2>3, <2>5, <3>1
  <2> QED  BY <2>1, <2>4, <2>5
<1> DEFINE t == AbsenceEvents(p, r)
           q == pull.queue \o t
           M == pull.missing \ {p}
<1>5. /\ t \in Seq(Events)
      /\ \A i \in 1..Len(t) : \/ t[i] = Event("absence", p, 0, r)
                              \/ Reason(r) # "none" /\ t[i] = Event("tombstone", p, 0, Reason(r))
  BY <1>3, AbsenceEventsTyped
<1>6. \A i \in 1..Len(t) : t[i].type # "checkpoint" /\ Sound(t[i])
  <2>1. r = "in-trash" => "trash" \in places[p]
    BY <1>1, <1>3, <1>4, RemoteTyped DEF Retrieval, RemoteTracked, Places
  <2>2. r = "moved-out" => "elsewhere" \in places[p]
    BY <1>1, <1>3, <1>4, RemoteTyped DEF Retrieval, RemoteTracked, Places
  <2>3. /\ Reason(r) = "remote_trash" => r = "in-trash"
        /\ Reason(r) = "moved_out" => r = "moved-out"
    BY DEF Reason, Retrievals
  <2>4. Sound(Event("absence", p, 0, r))
    BY <1>3 DEF Sound, Event
  <2>5. Sound(Event("tombstone", p, 0, Reason(r)))
    BY <2>1, <2>2, <2>3 DEF Sound, Event
  <2>6. /\ Event("absence", p, 0, r).type # "checkpoint"
        /\ Event("tombstone", p, 0, Reason(r)).type # "checkpoint"
    BY DEF Event
  <2> QED  BY <1>5, <2>4, <2>5, <2>6
<1> HIDE DEF t
<1>7. /\ q \in Seq(Events)
      /\ pull.queue # <<>> => q # <<>> /\ Head(q) = Head(pull.queue)
      /\ \A i \in 1..Len(q) :
           \/ i \in 1..Len(pull.queue) /\ q[i] = pull.queue[i]
           \/ i > Len(pull.queue) /\ i - Len(pull.queue) \in 1..Len(t) /\ q[i] = t[i - Len(pull.queue)]
  BY <1>2, <1>5, QueueGrows
<1>8. \A i \in 1..Len(q) : q[i].type # "checkpoint" /\ Sound(q[i])
  <2>1. \A i \in 1..Len(pull.queue) : pull.queue[i].type # "checkpoint" /\ Sound(pull.queue[i])
    BY <1>1, <1>2 DEF RowsCovered, CheckpointLast, QueueSound
  <2> QED  BY <1>6, <1>7, <2>1, Zenon
<1>9. pull' = [pull EXCEPT !.missing = M, !.faulty = f, !.pc = c, !.queue = q]
  BY <1>4 DEF t
<1>10. c \in {"mark", "verify"} /\ (c = "verify" => M # {})
  BY <1>2, <1>3
<1> HIDE DEF p, c, q, M
<1>11. /\ pull' \in Pull /\ pull'.queue = q /\ pull'.missing = M /\ pull'.pc = c
       /\ pull'.from = pull.from /\ pull'.since = pull.since /\ pull'.checked = pull.checked
       /\ pull'.disturbed = pull.disturbed
  <2>1. M \in SUBSET Pages
    BY <1>2 DEF M
  <2> QED  BY <1>2, <1>7, <1>9, <1>10, <2>1 DEF Pull
<1>12. UNCHANGED <<remote, recorded, db, landed, places>>
  BY DEF Verify
<1>13. QueueSound' /\ CheckpointLast'
  BY <1>8, <1>11, <1>12 DEF QueueSound, CheckpointLast, Sound, Away
<1>14. ScannedOrAway'
  BY <1>1, <1>10, <1>11, <1>12 DEF ScannedOrAway, Away, M
<1>15. \A x \in Pages : x <= pull'.from \/ pull'.since # 0 => Covered(x)
  BY <1>1, <1>11 DEF RowsCovered
<1>16. pull'.checked => /\ pull.checked /\ pull'.queue # <<>> /\ Head(pull'.queue) = Head(pull.queue)
                        /\ pull'.disturbed = pull.disturbed
  BY <1>1, <1>7, <1>11 DEF ConflictsRaised
<1>17. pull'.pc # "query"
  BY <1>10, <1>11
<1> QED  BY <1>4, <1>11, <1>12, <1>13, <1>14, <1>15, <1>16, <1>17, ReadingKeeps

LEMMA RowEventsTyped ==
  ASSUME TypeOK, NEW p \in Pages
  PROVE  /\ RowEvents(p) \in Seq(Events) /\ Len(RowEvents(p)) = 2
         /\ RowEvents(p)[1].type = "row" /\ RowEvents(p)[1].page = p
         /\ \A i \in 1..2 : RowEvents(p)[i].type \in {"row", "property"}
<1> DEFINE a == Event("row", p, remote[p].value, "active")
           b == Event("property", p, remote[p].value, "")
<1>1. a \in Events /\ b \in Events
  BY RemoteTyped DEF Event, Events, EventSet
<1>2. a.type = "row" /\ a.page = p /\ b.type = "property"
  BY DEF Event
<1>3. RowEvents(p) = <<a, b>>
  BY DEF RowEvents
<1> HIDE DEF a, b
<1> QED  BY <1>1, <1>2, <1>3

\* A response moves the scan to the row it returns, past no row that is listed.
LEMMA ResponseMoves ==
  ASSUME TypeOK, RemoteTracked,
         NEW rows, rows = IF Listed = {} THEN {} ELSE {Min(Listed)},
         NEW cursor, cursor = IF rows = {} THEN pull.cursor ELSE Min(Listed),
         NEW ended,
         IF Cardinality(Listed) > 1 THEN ended # "terminal" ELSE ended = "terminal"
  PROVE  /\ rows \subseteq Pages /\ cursor \in Cursors
         /\ rows # {} => rows = {cursor} /\ cursor \in Pages
         /\ \A p \in Pages : p <= cursor \/ ended = "terminal" =>
              p <= pull.cursor \/ p \in rows \/ pull.since # 0 \/ Away(p)
<1>1. Listed \subseteq Pages
  BY DEF Listed
<1>2. CASE Listed = {}
  <2>1. rows = {} /\ cursor = pull.cursor
    BY <1>2
  <2> QED  BY <1>2, <2>1, PassedOver, PullFields
<1>3. CASE Listed # {}
  <2>1. rows = {Min(Listed)} /\ cursor = Min(Listed)
    BY <1>3
  <2>2. cursor \in Listed /\ \A q \in Listed : cursor <= q
    BY <1>1, <1>3, <2>1, FirstPage
  <2>3. ASSUME NEW p \in Pages, p <= cursor \/ ended = "terminal"
        PROVE  p <= pull.cursor \/ p \in rows \/ pull.since # 0 \/ Away(p)
    <3>1. CASE p \notin Listed
      BY <3>1, PassedOver
    <3>2. CASE p \in Listed /\ p <= cursor
      <4>1. p \in Nat /\ cursor \in Nat /\ cursor <= p
        BY <1>1, <2>2, <3>2, PullFields
      <4>2. p = cursor
        BY <3>2, <4>1
      <4> QED  BY <2>1, <4>2
    <3>3. CASE p \in Listed /\ ended = "terminal"
      <4>1. Listed = {p}
        BY <3>3, LastResponse
      <4> QED  BY <2>1, <2>2, <4>1
    <3> QED  BY <2>3, <3>1, <3>2, <3>3
  <2> QED  BY <1>1, <2>1, <2>2, <2>3 DEF Cursors
<1> QED  BY <1>2, <1>3

LEMMA QueryPageKeeps ==
  ASSUME Inv, QueryPage
  PROVE  Inv'
<1>1. /\ TypeOK /\ RemoteTracked /\ RowsCovered /\ ScannedOrAway /\ QueueSound /\ ConflictsRaised
      /\ pull.pc = "query"
  BY DEF Inv, QueryPage
<1>2. pull \in Pull /\ pull.queue \in Seq(Events)
  BY <1>1, PullFields DEF TypeOK
<1> DEFINE rows == IF Listed = {} THEN {} ELSE {Min(Listed)}
           cursor == IF rows = {} THEN pull.cursor ELSE Min(Listed)
           newest == IF rows = {} THEN pull.newest ELSE Later(pull.newest, remote[cursor].edited)
           grown == IF rows = {} THEN pull.queue ELSE pull.queue \o RowEvents(cursor)
<1>3. PICK ended \in {"no", "terminal", "cut", "capped"} :
        /\ IF Cardinality(Listed) > 1 THEN ended # "terminal" ELSE ended = "terminal"
        /\ IF ended \in {"cut", "capped"} THEN Spend("faults", MaxFaults) ELSE UNCHANGED budget
        /\ pull' = [pull EXCEPT
             !.cursor = cursor, !.newest = newest, !.ended = ended, !.seen = @ \cup rows,
             !.pc = IF ended = "no" THEN @ ELSE "append",
             !.queue = IF ended = "no" THEN grown
                       ELSE Finished(grown, CheckpointEvent(ended, cursor, newest))]
  BY Zenon DEF QueryPage
<1> HIDE DEF rows
<1>4. /\ rows \subseteq Pages /\ cursor \in Cursors
      /\ rows # {} => rows = {cursor} /\ cursor \in Pages
      /\ \A p \in Pages : p <= cursor \/ ended = "terminal" =>
           p <= pull.cursor \/ p \in rows \/ pull.since # 0 \/ Away(p)
  BY <1>1, <1>3, ResponseMoves DEF rows
<1>5. newest \in Times \cup {0}
  <2>1. pull.newest \in Times \cup {0} /\ (cursor \in Pages => remote[cursor].edited \in Times)
    BY <1>1, PullFields, RemoteTyped
  <2> HIDE DEF cursor
  <2> QED  BY <1>4, <2>1 DEF Later
<1>6. /\ budget' \in [{"edits", "moves", "pushes", "faults"} -> Nat]
      /\ budget'.edits = budget.edits
  <2>1. CASE UNCHANGED budget
    BY <1>1, <2>1 DEF TypeOK
  <2>2. CASE Spend("faults", MaxFaults)
    BY <1>1, <2>2, SpendTyped
  <2> QED  BY <1>3, <2>1, <2>2
<1>7. /\ grown \in Seq(Events)
      /\ \A i \in 1..Len(grown) : grown[i].type # "checkpoint" /\ Sound(grown[i])
      /\ \A i \in 1..Len(pull.queue) : i \in 1..Len(grown) /\ grown[i] = pull.queue[i]
      /\ rows # {} => \E i \in 1..Len(grown) : grown[i].type = "row" /\ grown[i].page = cursor
      /\ pull.queue # <<>> => grown # <<>> /\ Head(grown) = Head(pull.queue)
  <2>1. \A i \in 1..Len(pull.queue) : pull.queue[i].type # "checkpoint" /\ Sound(pull.queue[i])
    BY <1>1 DEF RowsCovered, CheckpointLast, QueueSound
  <2>2. CASE rows = {}
    BY <1>2, <2>1, <2>2
  <2>3. CASE rows # {}
    <3> DEFINE t == RowEvents(cursor)
    <3>1. grown = pull.queue \o t
      BY <2>3
    <3>2. /\ t \in Seq(Events) /\ Len(t) = 2 /\ t[1].type = "row" /\ t[1].page = cursor
          /\ \A i \in 1..2 : t[i].type \in {"row", "property"}
      BY <1>1, <1>4, <2>3, RowEventsTyped
    <3>3. \A i \in 1..2 : t[i].type # "checkpoint" /\ Sound(t[i])
      BY <3>2 DEF Sound
    <3> HIDE DEF t, grown
    <3>4. /\ grown \in Seq(Events) /\ Len(grown) = Len(pull.queue) + 2
          /\ pull.queue # <<>> => grown # <<>> /\ Head(grown) = Head(pull.queue)
          /\ \A i \in 1..Len(pull.queue) : i \in 1..Len(grown) /\ grown[i] = pull.queue[i]
          /\ \A i \in 1..Len(grown) :
               \/ i \in 1..Len(pull.queue) /\ grown[i] = pull.queue[i]
               \/ /\ i > Len(pull.queue) /\ i - Len(pull.queue) \in 1..2
                  /\ grown[i] = t[i - Len(pull.queue)]
      <4>1. /\ pull.queue \o t \in Seq(Events) /\ Len(pull.queue \o t) = Len(pull.queue) + Len(t)
            /\ pull.queue # <<>> => pull.queue \o t # <<>> /\ Head(pull.queue \o t) = Head(pull.queue)
            /\ \A i \in 1..Len(pull.queue) :
                 i \in 1..Len(pull.queue \o t) /\ (pull.queue \o t)[i] = pull.queue[i]
            /\ \A i \in 1..Len(pull.queue \o t) :
                 \/ i \in 1..Len(pull.queue) /\ (pull.queue \o t)[i] = pull.queue[i]
                 \/ /\ i > Len(pull.queue) /\ i - Len(pull.queue) \in 1..Len(t)
                    /\ (pull.queue \o t)[i] = t[i - Len(pull.queue)]
        BY <1>2, <3>2, QueueGrows
      <4> QED  BY <3>1, <3>2, <4>1, Zenon
    <3>5. \A i \in 1..Len(grown) : grown[i].type # "checkpoint" /\ Sound(grown[i])
      BY <2>1, <3>3, <3>4, Zenon
    <3>6. Len(pull.queue) + 1 \in 1..Len(grown) /\ grown[Len(pull.queue) + 1] = t[1]
      <4>1. Len(pull.queue) \in Nat
        BY <1>2, LenProperties
      <4>2. Len(pull.queue) + 1 \in 1..Len(grown) /\ ~(Len(pull.queue) + 1 \in 1..Len(pull.queue))
            /\ Len(pull.queue) + 1 - Len(pull.queue) = 1
        BY <3>4, <4>1
      <4> QED  BY <3>4, <4>2
    <3> QED  BY <2>3, <3>2, <3>4, <3>5, <3>6
  <2> QED  BY <2>2, <2>3
<1>8. \A p \in Pages : p <= cursor \/ ended = "terminal" =>
        /\ Covered(p) \/ \E i \in 1..Len(grown) : grown[i].type = "row" /\ grown[i].page = p
        /\ pull.from = 0 /\ pull.since = 0 => p \in pull.seen \cup rows \/ Away(p)
  <2> SUFFICES ASSUME NEW p \in Pages, p <= cursor \/ ended = "terminal"
               PROVE  /\ \/ Covered(p)
                         \/ \E i \in 1..Len(grown) : grown[i].type = "row" /\ grown[i].page = p
                      /\ pull.from = 0 /\ pull.since = 0 => p \in pull.seen \cup rows \/ Away(p)
    OBVIOUS
  <2> HIDE DEF cursor, grown
  <2>1. p <= pull.cursor \/ p \in rows \/ pull.since # 0 \/ Away(p)
    BY <1>4
  <2>2. CASE p <= pull.cursor
    <3>1. ToBeCovered(p)
      BY <1>1, <2>2 DEF RowsCovered
    <3>2. pull.from = 0 /\ pull.since = 0 => p \in pull.seen \/ Away(p)
      BY <1>1, <2>2 DEF ScannedOrAway
    <3> QED  BY <1>7, <3>1, <3>2 DEF ToBeCovered, RowQueued
  <2>3. CASE p \in rows
    BY <1>4, <1>7, <2>3
  <2>4. CASE pull.since # 0
    BY <1>1, <2>4 DEF RowsCovered
  <2>5. CASE Away(p)
    BY <2>5 DEF Covered
  <2> QED  BY <2>1, <2>2, <2>3, <2>4, <2>5
<1> HIDE DEF cursor, newest, grown
<1> DEFINE k == CheckpointEvent(ended, cursor, newest)
           q == IF ended = "no" THEN grown ELSE Finished(grown, k)
           c == IF ended = "no" THEN pull.pc ELSE "append"
           v == pull.seen \cup rows
<1>9. /\ k \in Events /\ k.type = "checkpoint"
      /\ k.word = "complete" => ended = "terminal"
      /\ k.page \in {cursor, 0} /\ k.word \in {"complete", "incomplete"}
  <2>1. pull.since \in Times \cup {0}
    BY <1>1, PullFields
  <2>2. \A page \in Cursors, time \in Times \cup {0}, word \in {"complete", "incomplete"} :
          Event("checkpoint", page, time, word) \in Events
    BY DEF Event, Events, EventSet
  <2>3. 0 \in Cursors
    BY DEF Cursors
  <2> QED  BY <1>4, <1>5, <2>1, <2>2, <2>3 DEF CheckpointEvent, Event
<1> HIDE DEF k
<1>10. /\ q \in Seq(Events)
       /\ \A i \in 1..Len(grown) : i \in 1..Len(q) /\ q[i] = grown[i]
       /\ \A i \in 1..Len(q) : \/ i \in 1..Len(grown) /\ q[i] = grown[i]
                               \/ ended # "no" /\ i = Len(q) /\ q[i] = k
       /\ grown # <<>> => q # <<>> /\ Head(q) = Head(grown)
  <2>1. Len(grown) \in Nat
    BY <1>7, LenProperties
  <2>2. CASE ended = "no"
    BY <1>7, <2>2
  <2>3. CASE ended # "no"
    <3>1. q = Append(grown, k)
      BY <2>3 DEF Finished
    <3>2. /\ q \in Seq(Events) /\ q # <<>> /\ Len(q) = Len(grown) + 1
          /\ \A i \in 1..Len(grown) : q[i] = grown[i]
          /\ q[Len(grown) + 1] = k
      BY <1>7, <1>9, <3>1, AppendProperties
    <3>3. grown # <<>> => Head(q) = Head(grown)
      BY <1>7, <3>1, HeadTailAppend
    <3> HIDE DEF q
    <3> QED  BY <2>1, <2>3, <3>2, <3>3
  <2> QED  BY <2>2, <2>3
<1>11. pull' = [pull EXCEPT !.cursor = cursor, !.newest = newest, !.ended = ended, !.seen = v,
                            !.pc = c, !.queue = q]
  BY <1>2, <1>3 DEF k, Pull
<1>12. v \in SUBSET Pages /\ c \in {"query", "append"} /\ (c = "query" <=> ended = "no")
  BY <1>1, <1>4, PullFields
<1> HIDE DEF q, c, v
<1>13. /\ pull' \in Pull /\ pull'.queue = q /\ pull'.missing = pull.missing /\ pull'.pc = c
       /\ pull'.from = pull.from /\ pull'.since = pull.since /\ pull'.checked = pull.checked
       /\ pull'.disturbed = pull.disturbed /\ pull'.cursor = cursor /\ pull'.seen = v
       /\ pull'.ended = ended
  BY <1>2, <1>4, <1>5, <1>10, <1>11, <1>12 DEF Pull
<1>14. UNCHANGED <<remote, recorded, db, landed, places>>
  BY DEF QueryPage
<1>15. QueueSound'
  <2>1. \A i \in 1..Len(q) : Sound(q[i])
    BY <1>7, <1>9, <1>10 DEF Sound
  <2> QED  BY <1>13, <1>14, <2>1 DEF QueueSound, Sound, Away
<1>16. ScannedOrAway'
  BY <1>1, <1>8, <1>12, <1>13, <1>14 DEF ScannedOrAway, Away, v
<1>17. \A p \in Pages : p <= cursor \/ ended = "terminal" => ToBeCovered(p)'
  <2>1. \A p \in Pages : Covered(p) => Covered(p)'
    BY <1>14 DEF Covered, Away, Known
  <2> QED  BY <1>8, <1>10, <1>13, <2>1 DEF ToBeCovered, RowQueued
<1>18. CheckpointLast'
  <2> SUFFICES ASSUME NEW i \in 1..Len(q), q[i].type = "checkpoint"
               PROVE  /\ c = "append" /\ i = Len(q)
                      /\ \A p \in Pages : StandsFor(p, q[i].word, q[i].page) => ToBeCovered(p)'
    BY <1>13 DEF CheckpointLast, StandsFor
  <2>1. ended # "no" /\ i = Len(q) /\ q[i] = k
    BY <1>7, <1>10
  <2>2. \A p \in Pages : StandsFor(p, k.word, k.page) => p <= cursor \/ ended = "terminal"
    <3>1. \A p \in Pages : ~(p <= 0)
      BY ObservationAssumption
    <3> QED  BY <1>9, <3>1 DEF StandsFor
  <2> QED  BY <1>12, <1>17, <2>1, <2>2
<1>19. \A p \in Pages : p <= pull'.from \/ pull'.since # 0 => Covered(p)
  BY <1>1, <1>13 DEF RowsCovered
<1>20. pull'.checked => /\ pull.checked /\ pull'.queue # <<>> /\ Head(pull'.queue) = Head(pull.queue)
                        /\ pull'.disturbed = pull.disturbed
  BY <1>1, <1>7, <1>10, <1>13 DEF ConflictsRaised
<1>21. pull'.pc = "query" => \A p \in Pages : p <= pull'.cursor => ToBeCovered(p)'
  BY <1>13, <1>17
<1> QED  BY <1>6, <1>13, <1>14, <1>15, <1>16, <1>18, <1>19, <1>20, <1>21, ReadingKeeps

\* A divergence is a conflict with one of the two remote states.
LEMMA DivergenceTyped ==
  ASSUME NEW h \in Events, NEW e \in Divergence(h)
  PROVE  /\ e \in Events /\ e.type = "conflict" /\ Divergence(h) = {e}
         /\ e.page \in Pages /\ e.word \in {"active", "trash"}
<1>1. CASE h.type = "row"
  <2>1. h.page \in Pages /\ e = Event("conflict", h.page, 0, "active")
    BY <1>1, EventFields DEF Divergence
  <2> QED  BY <1>1, <2>1 DEF Divergence, Event, Events, EventSet
<1>2. CASE h.type = "tombstone"
  <2>1. h.page \in Pages /\ e = Event("conflict", h.page, 0, "trash")
    BY <1>2, EventFields DEF Divergence
  <2> QED  BY <1>2, <2>1 DEF Divergence, Event, Events, EventSet
<1> QED  BY <1>1, <1>2 DEF Divergence

LEMMA RaiseDivergenceKeeps ==
  ASSUME Inv, RaiseDivergence
  PROVE  Inv'
<1> DEFINE h == Head(pull.queue)
<1>1. /\ TypeOK /\ RemoteTracked /\ QueueSound /\ ScannedOrAway /\ RowsCovered /\ ConflictsRaised
      /\ AbsenceMeansAway /\ ClassifiedAsFound
  BY DEF Inv
<1>2. /\ pull \in Pull /\ pull.queue \in Seq(Events) /\ pull.queue # <<>>
      /\ pull' = [pull EXCEPT !.checked = TRUE] /\ UNCHANGED <<remote, landed, places, budget>>
  BY <1>1, PullFields DEF RaiseDivergence, Appending, TypeOK
<1>3. h \in Events
  BY <1>2, HeadTailProperties
<1>4. /\ pull' \in Pull /\ pull'.queue = pull.queue /\ pull'.missing = pull.missing
      /\ pull'.pc = pull.pc /\ pull'.from = pull.from /\ pull'.since = pull.since
      /\ pull'.disturbed = pull.disturbed /\ pull'.cursor = pull.cursor /\ pull'.seen = pull.seen
      /\ pull'.ended = pull.ended
  BY <1>2 DEF Pull
<1>5. /\ recorded' \subseteq Events /\ db' \in Projection
      /\ \A p \in Pages : Known(p) => Known(p)'
      /\ \A k \in recorded' : /\ k.type = "row" => Known(k.page)'
                              /\ k.type = "conflict" => db'.conflict[k.page][k.word] # "none"
      /\ \A p \in Pages : /\ db'.absence[p] = db.absence[p]
                          /\ db'.tombstone[p] \in {db.tombstone[p], "none", "unclassified"}
      /\ db'.target = db.target /\ db'.checkpoint = db.checkpoint
      /\ \A e \in Divergence(h) : db'.conflict[e.page][e.word] # "none"
  <2>1. CASE Divergence(h) = {}
    <3>1. UNCHANGED <<recorded, db>>
      BY <2>1 DEF RaiseDivergence
    <3> QED  BY <1>1, <2>1, <3>1 DEF TypeOK, RowsCovered, ConflictsRaised, Known
  <2>2. CASE Divergence(h) # {}
    <3>1. PICK e \in Divergence(h) : AppendEvent(e)
      BY <2>2 DEF RaiseDivergence
    <3>2. e \in Events /\ e.type = "conflict" /\ Divergence(h) = {e}
      BY <1>3, DivergenceTyped
    <3> HIDE DEF h
    <3>3. recorded' \subseteq Events /\ db' \in Projection
      BY <1>1, <3>1, <3>2, AppendEffect
    <3>4. \A p \in Pages : Known(p) => Known(p)'
      BY <1>1, <3>1, <3>2, AppendEffect
    <3>5. \A k \in recorded' : /\ k.type = "row" => Known(k.page)'
                               /\ k.type = "conflict" => db'.conflict[k.page][k.word] # "none"
      BY <1>1, <3>1, <3>2, AppendEffect
    <3>6. \A p \in Pages : /\ db'.absence[p] = db.absence[p]
                           /\ db'.tombstone[p] \in {db.tombstone[p], "none", "unclassified"}
      BY <1>1, <3>1, <3>2, AppendEffect
    <3>7. /\ db'.target = db.target /\ db'.checkpoint = db.checkpoint
          /\ db'.conflict[e.page][e.word] # "none"
      BY <1>1, <3>1, <3>2, AppendEffect
    <3> QED  BY <3>2, <3>3, <3>4, <3>5, <3>6, <3>7
  <2> QED  BY <2>1, <2>2
<1>6. TypeOK' /\ RemoteTracked'
  BY <1>1, <1>2, <1>4, <1>5 DEF TypeOK, RemoteTracked
<1>7. QueueSound' /\ ScannedOrAway'
  BY <1>1, <1>2, <1>4 DEF QueueSound, Sound, ScannedOrAway, Away
<1>8. RowsCovered'
  <2>1. \A p \in Pages : (Covered(p) => Covered(p)') /\ (ToBeCovered(p) => ToBeCovered(p)')
    BY <1>2, <1>4, <1>5 DEF Covered, ToBeCovered, RowQueued, Away
  <2> QED  BY <1>1, <1>4, <1>5, <2>1 DEF RowsCovered, CheckpointLast, StandsFor
<1>9. ConflictsRaised'
  <2>1. Divergence(Head(pull.queue))' = Divergence(h)
    BY <1>4, <1>5 DEF Divergence
  <2>2. \A e \in Divergence(Head(pull.queue))' : db'.conflict[e.page][e.word] # "none"
    BY <1>5, <2>1
  <2> QED  BY <1>2, <1>4, <1>5, <2>2 DEF ConflictsRaised
<1>10. AbsenceMeansAway' /\ ClassifiedAsFound'
  BY <1>1, <1>2, <1>5 DEF AbsenceMeansAway, ClassifiedAsFound
<1> QED  BY <1>6, <1>7, <1>8, <1>9, <1>10 DEF Inv

LEMMA AppendNextKeeps ==
  ASSUME Inv, AppendNext
  PROVE  Inv'
<1> DEFINE q == Tail(pull.queue)
<1>1. /\ TypeOK /\ RemoteTracked /\ QueueSound /\ ScannedOrAway /\ RowsCovered /\ ConflictsRaised
      /\ AbsenceMeansAway /\ ClassifiedAsFound
  BY DEF Inv
<1>2. /\ pull \in Pull /\ pull.queue \in Seq(Events) /\ pull.queue # <<>>
      /\ pull' = [pull EXCEPT !.queue = q, !.checked = FALSE]
      /\ UNCHANGED <<remote, landed, places, budget>> /\ AppendEvent(Head(pull.queue))
  BY <1>1, PullFields DEF AppendNext, Appending, TypeOK
<1> PICK h \in Events : h = Head(pull.queue)
  BY <1>2, HeadTailProperties
<1>3. /\ h \in Events /\ h = pull.queue[1] /\ 1 \in 1..Len(pull.queue) /\ AppendEvent(h)
      /\ q \in Seq(Events) /\ Len(q) = Len(pull.queue) - 1 /\ Len(q) \in Nat
      /\ \A i \in 1..Len(q) : q[i] = pull.queue[i + 1] /\ i + 1 \in 1..Len(pull.queue)
  <2>1. Len(pull.queue) \in Nat \ {0}
    BY <1>2, EmptySeq
  <2>2. /\ q \in Seq(Events) /\ Len(q) = Len(pull.queue) - 1
        /\ \A i \in 1..Len(q) : q[i] = pull.queue[i + 1]
    BY <1>2, HeadTailProperties
  <2>3. h = pull.queue[1]
    BY <1>2
  <2>4. AppendEvent(h)
    BY <1>2 DEF AppendEvent
  <2> QED  BY <2>1, <2>2, <2>3, <2>4
<1> HIDE DEF q
<1>4. /\ pull' \in Pull /\ pull'.queue = q /\ pull'.missing = pull.missing
      /\ pull'.pc = pull.pc /\ pull'.from = pull.from /\ pull'.since = pull.since
      /\ pull'.disturbed = pull.disturbed /\ pull'.cursor = pull.cursor /\ pull'.seen = pull.seen
      /\ pull'.ended = pull.ended /\ pull'.checked = FALSE
  BY <1>2, <1>3 DEF Pull
<1>5. recorded' \subseteq Events /\ db' \in Projection
  BY <1>1, <1>3, AppendEffect
<1>6. /\ \A p \in Pages : Known(p) => Known(p)'
      /\ h.type = "row" => Known(h.page)'
  BY <1>1, <1>3, AppendEffect
<1>7. \A k \in recorded' : /\ k.type = "row" => Known(k.page)'
                           /\ k.type = "conflict" => db'.conflict[k.page][k.word] # "none"
  BY <1>1, <1>3, AppendEffect
<1>8. \A p \in Pages :
        /\ db'.absence[p] # db.absence[p] => h.type = "absence" /\ h.page = p
        /\ db'.tombstone[p] # db.tombstone[p]
           => \/ h.type = "tombstone" /\ h.page = p /\ db'.tombstone[p] = h.word
              \/ db'.tombstone[p] \in {"none", "unclassified"}
  BY <1>1, <1>3, AppendEffect
<1>9. db'.checkpoint = IF h.type = "checkpoint" /\ db' # db
                       THEN [state |-> h.word, cursor |-> h.page, watermark |-> h.number]
                       ELSE db.checkpoint
  BY <1>1, <1>3, AppendEffect
<1>10. TypeOK' /\ RemoteTracked'
  BY <1>1, <1>2, <1>4, <1>5 DEF TypeOK, RemoteTracked
<1>11. QueueSound' /\ ScannedOrAway'
  <2>1. \A i \in 1..Len(q) : Sound(q[i])
    BY <1>1, <1>3 DEF QueueSound
  <2>2. QueueSound'
    BY <1>2, <1>4, <2>1 DEF QueueSound, Sound, Away
  <2>3. ScannedOrAway'
    BY <1>1, <1>2, <1>4 DEF ScannedOrAway, Away
  <2> QED  BY <2>2, <2>3
<1>12. RowsCovered'
  <2>1. \A p \in Pages : Covered(p) => Covered(p)'
    BY <1>2, <1>6 DEF Covered, Away
  <2>2. ASSUME NEW p \in Pages, ToBeCovered(p)
        PROVE  ToBeCovered(p)'
    <3>1. CASE Covered(p)
      BY <2>1, <3>1 DEF ToBeCovered
    <3>2. CASE RowQueued(p)
      <4>1. PICK i \in 1..Len(pull.queue) :
              pull.queue[i].type = "row" /\ pull.queue[i].page = p
        BY <3>2 DEF RowQueued
      <4>2. CASE i = 1
        BY <1>3, <1>6, <4>1, <4>2 DEF ToBeCovered, Covered
      <4>3. CASE i # 1
        <5>1. i - 1 \in 1..Len(q) /\ q[i - 1] = pull.queue[i]
          BY <1>3, <4>3
        <5> QED  BY <1>4, <4>1, <5>1 DEF ToBeCovered, RowQueued
      <4> QED  BY <4>2, <4>3
    <3> QED  BY <2>2, <3>1, <3>2 DEF ToBeCovered
  <2>3. \A p \in Pages : p <= pull'.from \/ pull'.since # 0 => Covered(p)'
    BY <1>1, <1>4, <2>1 DEF RowsCovered
  <2>4. pull'.pc = "query" => \A p \in Pages : p <= pull'.cursor => ToBeCovered(p)'
    BY <1>1, <1>4, <2>2 DEF RowsCovered
  <2>5. ASSUME NEW i \in 1..Len(q), q[i].type = "checkpoint"
        PROVE  /\ pull.pc = "append" /\ i = Len(q)
               /\ \A p \in Pages : StandsFor(p, q[i].word, q[i].page) => ToBeCovered(p)'
    <3>1. i + 1 \in 1..Len(pull.queue) /\ q[i] = pull.queue[i + 1]
      BY <1>3
    <3>2. /\ pull.pc = "append" /\ i + 1 = Len(pull.queue)
          /\ \A p \in Pages : StandsFor(p, q[i].word, q[i].page) => ToBeCovered(p)
      BY <1>1, <2>5, <3>1 DEF RowsCovered, CheckpointLast
    <3> QED  BY <1>3, <2>2, <3>2
  <2>6. db'.checkpoint.state # "none" => \A p \in Pages :
          StandsFor(p, db'.checkpoint.state, db'.checkpoint.cursor) => Covered(p)'
    <3>1. CASE h.type = "checkpoint" /\ db' # db
      <4>1. db'.checkpoint.state = h.word /\ db'.checkpoint.cursor = h.page
        BY <1>9, <3>1
      <4>2. 1 = Len(pull.queue) /\ \A p \in Pages : StandsFor(p, h.word, h.page) => ToBeCovered(p)
        BY <1>1, <1>3, <3>1 DEF RowsCovered, CheckpointLast
      <4>3. \A p \in Pages : ~RowQueued(p)
        BY <1>3, <3>1, <4>2 DEF RowQueued
      <4> QED  BY <2>1, <4>1, <4>2, <4>3 DEF ToBeCovered, StandsFor
    <3>2. CASE ~(h.type = "checkpoint" /\ db' # db)
      BY <1>1, <1>9, <2>1, <3>2 DEF RowsCovered, StandsFor
    <3> QED  BY <3>1, <3>2
  <2> QED  BY <1>4, <1>7, <2>3, <2>4, <2>5, <2>6 DEF RowsCovered, CheckpointLast, StandsFor
<1>13. ConflictsRaised'
  BY <1>4, <1>7 DEF ConflictsRaised
<1>14. AbsenceMeansAway' /\ ClassifiedAsFound'
  <2>1. Sound(h)
    BY <1>1, <1>3 DEF QueueSound
  <2> QED  BY <1>1, <1>2, <1>8, <2>1 DEF AbsenceMeansAway, ClassifiedAsFound, Sound, Away
<1> QED  BY <1>10, <1>11, <1>12, <1>13, <1>14 DEF Inv

LEMMA InitInv ==
  ASSUME Init
  PROVE  Inv
<1>1. 1 \in Values /\ 1 \in Times /\ 0 \in Cursors /\ 0 \notin Values
  BY ObservationAssumption DEF Values, Times, Cursors
<1>2. remote \in [Pages -> RemotePage] /\ db \in Projection
  BY <1>1 DEF Init, RemotePage, Places, Projection
<1>3. TypeOK
  BY <1>2, NoPullTyped DEF Init, TypeOK, Commands, Places
<1>4. RemoteTracked
  BY DEF Init, RemoteTracked
<1>5. QueueSound /\ ScannedOrAway
  BY DEF Init, NoPull, QueueSound, ScannedOrAway
<1>6. RowsCovered
  <2>1. \A p \in Pages : ~(p <= 0)
    BY ObservationAssumption
  <2> QED  BY <2>1 DEF Init, NoPull, RowsCovered, CheckpointLast
<1>7. ConflictsRaised
  BY DEF Init, NoPull, ConflictsRaised
<1>8. AbsenceMeansAway /\ ClassifiedAsFound
  BY DEF Init, AbsenceMeansAway, ClassifiedAsFound
<1> QED  BY <1>3, <1>4, <1>5, <1>6, <1>7, <1>8 DEF Inv

LEMMA StutterKeeps ==
  ASSUME Inv, UNCHANGED vars
  PROVE  Inv'
<1>1. TypeOK' /\ RemoteTracked'
  BY DEF Inv, TypeOK, RemoteTracked, vars
<1>2. Aside
  <2>1. pull' = [pull EXCEPT !.disturbed = pull'.disturbed]
    BY DEF Inv, TypeOK, Pull, vars
  <2> QED  BY <2>1 DEF Aside, Known, vars
<1> QED  BY <1>1, <1>2, AsideKeeps

LEMMA NextInv ==
  ASSUME Inv, [Next]_vars
  PROVE  Inv'
<1>1. ASSUME NEW p \in Pages, Edit(p) \/ Move(p) \/ Settle(p)
      PROVE  Inv'
  BY <1>1, EditKeeps, MoveKeeps, SettleKeeps
<1>2. ASSUME NEW p \in Pages, NEW c \in {"TrashPage", "RestorePage"}, Push(p, c)
      PROVE  Inv'
  BY <1>2, PushKeeps
<1>3. ASSUME NEW p \in Pages, NEW w \in {"active", "trash"}, KeepRemote(p, w) \/ KeepLocal(p, w)
      PROVE  Inv'
  BY <1>3, KeepRemoteKeeps, KeepLocalKeeps
<1>4. ASSUME NEW incremental \in BOOLEAN, Begin(incremental)
      PROVE  Inv'
  BY <1>4, BeginKeeps
<1>5. CASE PullStep
  BY <1>5, QueryPageKeeps, RaiseDivergenceKeeps, AppendNextKeeps, ClassifyKeeps, VerifyKeeps,
    CompleteKeeps DEF PullStep
<1>6. CASE Interrupt
  BY <1>6, InterruptKeeps
<1>7. CASE UNCHANGED vars
  BY <1>7, StutterKeeps
<1> QED  BY <1>1, <1>2, <1>3, <1>4, <1>5, <1>6, <1>7 DEF Next

\* The invariant of the pull: what is queued and recorded means what it says, rows come
\* before the checkpoint that stands for them, and conflicts before the flips they announce.
THEOREM Invariance == Spec => []Inv
  BY InitInv, NextInv, PTL DEF Spec

\* Every reachable state is well typed (TypeOK), whatever the bounds.
THEOREM TypeCorrect == Spec => []TypeOK
<1>1. Inv => TypeOK
  BY DEF Inv
<1> QED  BY <1>1, Invariance, PTL

\* No incremental, resumed, cut or capped scan leaves absence evidence against a page that
\* never left the data source (AbsenceMeansAway; sync.ts, canClassifyDisappearedRows).
THEOREM AbsenceIsEvidence == Spec => []AbsenceMeansAway
<1>1. Inv => AbsenceMeansAway
  BY DEF Inv
<1> QED  BY <1>1, Invariance, PTL

\* A page is classified as trashed, or as moved out, only if it was once found so
\* (ClassifiedAsFound; sync.ts, classifyQueryAbsencePage).
THEOREM ClassificationIsFound == Spec => []ClassifiedAsFound
<1>1. Inv => ClassifiedAsFound
  BY DEF Inv
<1> QED  BY <1>1, Invariance, PTL

\* Once a complete checkpoint is recorded, every page that never left has a row
\* (CompleteMeansCovered), wherever pulls crashed.
THEOREM CompleteCheckpointCovers == Spec => []CompleteMeansCovered
<1>1. Inv => CompleteMeansCovered
  <2> SUFFICES ASSUME Inv, db.checkpoint.state = "complete", NEW p \in Pages,
                      places[p] = {"active"}
               PROVE  Known(p)
    BY DEF CompleteMeansCovered
  <2>1. Covered(p)
    BY DEF Inv, RowsCovered, StandsFor
  <2> QED  BY <2>1 DEF Covered, Away
<1> QED  BY <1>1, Invariance, PTL

\* What an append does to in_trash: a row clears it, a trash tombstone sets it, and neither
\* while a lifecycle conflict is live.
LEMMA AppendFlips ==
  ASSUME TypeOK, NEW e \in Events, AppendEvent(e), NEW p \in Pages,
         db'.row[p].inTrash # db.row[p].inTrash
  PROVE  /\ e.page = p /\ ~Frozen(p)
         /\ \/ e.type = "row" /\ ~db'.row[p].inTrash
            \/ e.type = "tombstone" /\ e.word = "remote_trash" /\ db'.row[p].inTrash
<1>1. db \in Projection /\ db' = Apply(e)
  BY DEF TypeOK, AppendEvent
<1>2. CASE e.type = "row"
  <2>1. e.page \in Pages /\ db' = ApplyRow(e)
    BY <1>1, <1>2, EventFields DEF Apply
  <2> DEFINE b == Frozen(e.page) /\ db.row[e.page].inTrash
  <2>2. db'.row = [db.row EXCEPT ![e.page] = [value |-> e.number, inTrash |-> b]]
    BY <1>1, <2>1 DEF ApplyRow, Projection
  <2>3. e.page = p /\ db'.row[p].inTrash = b
    <3> HIDE DEF b
    <3> QED  BY <1>1, <2>1, <2>2 DEF Projection
  <2>4. db.row[p].inTrash \in BOOLEAN /\ Frozen(p) \in BOOLEAN
    BY <1>1 DEF Projection, Frozen
  <2> QED  BY <1>2, <2>3, <2>4, Zenon
<1>3. CASE e.type = "tombstone"
  <2>1. e.page \in Pages /\ db' = ApplyTombstone(e)
    BY <1>1, <1>3, EventFields DEF Apply
  <2> DEFINE b == db.row[e.page].inTrash \/ (e.word = "remote_trash" /\ ~Frozen(e.page))
  <2>2. db' = [db EXCEPT !.tombstone[e.page] = e.word, !.row[e.page].inTrash = b]
    BY <2>1 DEF ApplyTombstone
  <2>3. e.page = p /\ db'.row[p].inTrash = b
    <3> HIDE DEF b
    <3> QED  BY <1>1, <2>1, <2>2 DEF Projection
  <2>4. db.row[p].inTrash \in BOOLEAN /\ Frozen(p) \in BOOLEAN
    BY <1>1 DEF Projection, Frozen
  <2> QED  BY <1>3, <2>3, <2>4, Zenon
<1>4. CASE e.type \in {"property", "absence", "conflict", "checkpoint"}
  BY <1>1, <1>4 DEF Apply, ApplyProperty, ApplyAbsence, ApplyConflict, ApplyCheckpoint, Projection
<1> QED  BY <1>2, <1>3, <1>4, EventFields

\* The steps that turn in_trash of a page around.
LEMMA FlipSources ==
  ASSUME Inv, [Next]_vars, NEW p \in Pages, db'.row[p].inTrash # db.row[p].inTrash
  PROVE  \/ Settle(p)
         \/ \E w \in {"active", "trash"} : KeepRemote(p, w)
         \/ AppendNext
<1>1. TypeOK /\ db \in Projection
  BY DEF Inv, TypeOK
<1>2. ASSUME NEW q \in Pages, Settle(q), q # p
      PROVE  FALSE
  BY <1>1, <1>2 DEF Settle, Projection
<1>3. ASSUME NEW q \in Pages, NEW w \in {"active", "trash"}, KeepRemote(q, w), q # p
      PROVE  FALSE
  BY <1>1, <1>3 DEF KeepRemote, Projection
<1>4. ASSUME NEW q \in Pages, NEW w \in {"active", "trash"}, KeepLocal(q, w)
      PROVE  FALSE
  BY <1>1, <1>4 DEF KeepLocal, Projection
<1>5. ASSUME RaiseDivergence
      PROVE  FALSE
  <2>1. pull.queue \in Seq(Events) /\ pull.queue # <<>>
    BY <1>1, <1>5, PullFields DEF RaiseDivergence, Appending
  <2>2. Head(pull.queue) \in Events
    BY <2>1, HeadTailProperties
  <2>3. PICK e \in Divergence(Head(pull.queue)) : AppendEvent(e)
    BY <1>5 DEF RaiseDivergence
  <2>4. e \in Events /\ e.type = "conflict"
    BY <2>2, <2>3, DivergenceTyped
  <2> QED  BY <1>1, <2>3, <2>4, AppendFlips
<1>6. db' # db
  OBVIOUS
<1>7. ~(\E q \in Pages : Edit(q) \/ Move(q))
  BY <1>6 DEF Edit, Move
<1>8. ~(\E q \in Pages, c \in {"TrashPage", "RestorePage"} : Push(q, c))
  BY <1>6 DEF Push
<1>9. ~(\E incremental \in BOOLEAN : Begin(incremental)) /\ ~Interrupt /\ ~UNCHANGED vars
  BY <1>6 DEF Begin, Interrupt, vars
<1>10. ~QueryPage /\ ~Classify /\ ~Verify /\ ~Complete
  BY <1>6 DEF QueryPage, Classify, Verify, Complete
<1> QED  BY <1>2, <1>3, <1>4, <1>5, <1>7, <1>8, <1>9, <1>10 DEF Next, PullStep

\* The event that an append turns in_trash around with.
LEMMA AppendFlipEvent ==
  ASSUME Inv, AppendNext, NEW p \in Pages, db'.row[p].inTrash # db.row[p].inTrash
  PROVE  \E e \in Events :
           /\ e = Head(pull.queue) /\ e.page = p /\ ~Frozen(p) /\ db'.target = db.target
           /\ \/ e.type = "row" /\ ~db'.row[p].inTrash
              \/ e.type = "tombstone" /\ e.word = "remote_trash" /\ db'.row[p].inTrash
           /\ pull.checked
<1>1. TypeOK /\ RowsCovered /\ ConflictsRaised
  BY DEF Inv
<1>2. pull.queue \in Seq(Events) /\ pull.queue # <<>>
  BY <1>1, PullFields DEF AppendNext, Appending
<1>3. PICK e \in Events : e = Head(pull.queue)
  BY <1>2, HeadTailProperties
<1>4. AppendEvent(e) /\ (pull.checked \/ e.type \notin {"row", "tombstone"})
  BY <1>3 DEF AppendNext, AppendEvent
<1>5. /\ e.page = p /\ ~Frozen(p)
      /\ \/ e.type = "row" /\ ~db'.row[p].inTrash
         \/ e.type = "tombstone" /\ e.word = "remote_trash" /\ db'.row[p].inTrash
  BY <1>1, <1>4, AppendFlips
<1>6. db'.target = db.target
  BY <1>1, <1>4, AppendEffect
<1> QED  BY <1>3, <1>4, <1>5, <1>6

LEMMA KeepRemoteResolves ==
  ASSUME db \in Projection, NEW p \in Pages, NEW w \in {"active", "trash"}, KeepRemote(p, w)
  PROVE  db'.conflict[p] # db.conflict[p]
<1>1. db.conflict[p][w] = "open"
  BY DEF KeepRemote
<1>2. db'.conflict = [db.conflict EXCEPT ![p][w] = "resolved"]
  BY DEF KeepRemote, Projection
<1>3. db'.conflict[p][w] = "resolved"
  BY <1>2 DEF Projection
<1> QED  BY <1>1, <1>3

\* A pull that turns in_trash away from the settled target has a recorded conflict to show
\* for it, unless a command settled while it ran (FlipWasRaised; sync.ts,
\* lifecycleDivergenceEvents and tombstoneLifecycleDivergenceEvents).
THEOREM FlipIsRaised == Spec => FlipWasRaised
<1>1. ASSUME Inv, [Next]_vars, NEW p \in Pages, NEW w,
             w = IF db'.row[p].inTrash THEN "trash" ELSE "active",
             db'.row[p].inTrash # db.row[p].inTrash, db'.target[p] \notin {"none", w},
             db'.conflict[p] = db.conflict[p], "settlement" \notin pull.disturbed
      PROVE  db.conflict[p][w] # "none"
  <2>1. db \in Projection /\ ConflictsRaised
    BY <1>1 DEF Inv, TypeOK
  <2>2. ~Settle(p)
    <3>1. ASSUME Settle(p)
          PROVE  FALSE
      <4>1. /\ db'.target[p] = Wanted(landed[p])
            /\ db'.row[p].inTrash = (landed[p] = "TrashPage")
        BY <2>1, <3>1 DEF Settle, Projection
      <4> QED  BY <1>1, <4>1 DEF Wanted
    <3> QED  BY <3>1
  <2>3. \A v \in {"active", "trash"} : ~KeepRemote(p, v)
    BY <1>1, <2>1, KeepRemoteResolves
  <2>4. AppendNext
    BY <1>1, <2>2, <2>3, FlipSources
  <2>5. PICK e \in Events :
          /\ e = Head(pull.queue) /\ e.page = p /\ db'.target = db.target
          /\ \/ e.type = "row" /\ ~db'.row[p].inTrash
             \/ e.type = "tombstone" /\ e.word = "remote_trash" /\ db'.row[p].inTrash
          /\ pull.checked
    BY <1>1, <2>4, AppendFlipEvent
  <2>6. db.target[p] \in {"active", "trash"} /\ db.target[p] # w
    BY <1>1, <2>1, <2>5 DEF Projection
  <2>7. Event("conflict", p, 0, w) \in Divergence(Head(pull.queue))
    BY <1>1, <2>5, <2>6 DEF Divergence
  <2> QED  BY <1>1, <2>1, <2>5, <2>7 DEF ConflictsRaised, Event
<1>2. Inv /\ [Next]_vars =>
        [\A p \in Pages :
           LET w == IF db'.row[p].inTrash THEN "trash" ELSE "active" IN
           /\ db'.row[p].inTrash # db.row[p].inTrash
           /\ db'.target[p] \notin {"none", w} /\ db'.conflict[p] = db.conflict[p]
           /\ "settlement" \notin pull.disturbed
           => db.conflict[p][w] # "none"]_vars
  BY <1>1
<1> QED  BY <1>2, Invariance, PTL DEF Spec, FlipWasRaised

\* in_trash stays as it is while a lifecycle conflict is live, whatever pulls observe
\* (FrozenWhileConflicted; store.ts, #hasOpenLifecycleConflict).
THEOREM ConflictFreezes == Spec => FrozenWhileConflicted
<1>1. ASSUME Inv, [Next]_vars, NEW p \in Pages, landed' = landed,
             NEW w \in {"active", "trash"}, db.conflict[p][w] \in {"open", "resolving"},
             db'.conflict[p] = db.conflict[p],
             db'.row[p].inTrash # db.row[p].inTrash
      PROVE  FALSE
  <2>1. db \in Projection /\ landed \in [Pages -> Commands]
    BY <1>1 DEF Inv, TypeOK
  <2>2. ~Settle(p)
    BY <1>1, <2>1 DEF Settle
  <2>3. \A v \in {"active", "trash"} : ~KeepRemote(p, v)
    BY <1>1, <2>1, KeepRemoteResolves
  <2>4. AppendNext
    BY <1>1, <2>2, <2>3, FlipSources
  <2>5. ~Frozen(p)
    BY <1>1, <2>4, AppendFlipEvent
  <2> QED  BY <1>1, <2>5 DEF Frozen
<1>2. Inv /\ [Next]_vars =>
        [\A p \in Pages : /\ \E w \in {"active", "trash"} :
                               /\ db.conflict[p][w] \in {"open", "resolving"}
                               /\ db'.conflict[p][w] = db.conflict[p][w]
                          /\ landed' = landed
                          => \/ db'.row[p].inTrash = db.row[p].inTrash
                             \/ db'.conflict[p] # db.conflict[p]]_vars
  BY <1>1
<1> QED  BY <1>2, Invariance, PTL DEF Spec, FrozenWhileConflicted
-----------------------------------------------------------------------------
(* A full pull that ran undisturbed mirrors Notion, when nothing returns and   *)
(* nothing is pushed while a pull runs.                                        *)

\* What an event with a fresh key does to the row of a page ...
LEMMA RowApplied ==
  ASSUME db \in Projection, NEW e \in Events, NEW p \in Pages
  PROVE  /\ e.type = "row" /\ e.page = p =>
              /\ Apply(e).row[p].value = e.number
              /\ Apply(e).row[p].inTrash <=> (Frozen(p) /\ db.row[p].inTrash)
         /\ e.type = "tombstone" /\ e.page = p =>
              /\ Apply(e).row[p].value = db.row[p].value
              /\ Apply(e).row[p].inTrash <=>
                   (db.row[p].inTrash \/ (e.word = "remote_trash" /\ ~Frozen(p)))
         /\ e.page # p \/ e.type \notin {"row", "tombstone"} =>
              Apply(e).row[p] = db.row[p]
<1> USE EventFields
<1>1. CASE e.type = "row"
  <2> DEFINE b == Frozen(e.page) /\ db.row[e.page].inTrash
             r == [value |-> e.number, inTrash |-> b]
  <2>1. e.page \in Pages /\ Apply(e).row = [db.row EXCEPT ![e.page] = r]
    BY <1>1 DEF Apply, ApplyRow, Projection
  <2>2. r.value = e.number /\ r.inTrash = b
    OBVIOUS
  <2> HIDE DEF r
  <2>3. e.page = p => Apply(e).row[p] = r
    BY <2>1 DEF Projection
  <2>4. e.page # p => Apply(e).row[p] = db.row[p]
    BY <2>1 DEF Projection
  <2>5. e.page = p => (Apply(e).row[p].inTrash <=> (Frozen(p) /\ db.row[p].inTrash))
    BY <2>2, <2>3, Zenon
  <2> QED  BY <1>1, <2>2, <2>3, <2>4, <2>5
<1>2. CASE e.type = "tombstone"
  <2> DEFINE b == db.row[e.page].inTrash \/ (e.word = "remote_trash" /\ ~Frozen(e.page))
             r == [value |-> db.row[e.page].value, inTrash |-> b]
  <2>1. e.page \in Pages /\ Apply(e) = ApplyTombstone(e)
    BY <1>2 DEF Apply
  <2>2. ApplyTombstone(e) = [db EXCEPT !.tombstone[e.page] = e.word,
                                       !.row[e.page].inTrash = b]
    BY DEF ApplyTombstone
  <2>3. r.value = db.row[e.page].value /\ r.inTrash = b
    OBVIOUS
  <2> HIDE DEF b
  <2>4. Apply(e).row = [db.row EXCEPT ![e.page] = r]
    <3>1. [db.row[e.page] EXCEPT !.inTrash = b] = r
      BY <2>1 DEF Projection
    <3> HIDE DEF r
    <3>2. Apply(e) = [db EXCEPT !.tombstone[e.page] = e.word, !.row[e.page] = r]
      BY <2>1, <2>2, <3>1
    <3> QED  BY <2>1, <3>2 DEF Projection
  <2> HIDE DEF r
  <2>5. e.page = p => Apply(e).row[p] = r
    BY <2>1, <2>4 DEF Projection
  <2>6. e.page # p => Apply(e).row[p] = db.row[p]
    BY <2>1, <2>4 DEF Projection
  <2>7. e.page = p =>
          (Apply(e).row[p].inTrash
             <=> (db.row[p].inTrash \/ (e.word = "remote_trash" /\ ~Frozen(p))))
    BY <2>3, <2>5, Zenon DEF b
  <2> QED  BY <1>2, <2>3, <2>5, <2>6, <2>7
<1>3. CASE e.type \in {"property", "absence", "conflict", "checkpoint"}
  BY <1>3 DEF Apply, ApplyProperty, ApplyAbsence, ApplyConflict, ApplyCheckpoint, Projection
<1> QED  BY <1>1, <1>2, <1>3

\* ... and to the rest of the projection.
LEMMA RestApplied ==
  ASSUME db \in Projection, NEW e \in Events, NEW p \in Pages
  PROVE  /\ Apply(e).shadow[p] =
              IF e.type = "property" /\ e.page = p THEN e.number ELSE db.shadow[p]
         /\ \A w \in {"active", "trash"} :
              Apply(e).conflict[p][w] =
                IF e.type = "conflict" /\ e.page = p /\ e.word = w THEN "open"
                ELSE db.conflict[p][w]
         /\ e.type = "tombstone" /\ e.page = p => Apply(e).tombstone[p] = e.word
         /\ e.type # "tombstone" \/ e.page # p =>
              \/ Apply(e).tombstone[p] = db.tombstone[p]
              \/ {db.tombstone[p], Apply(e).tombstone[p]} \subseteq {"none", "unclassified"}
         /\ Apply(e).target = db.target
<1> USE EventFields
<1>1. CASE e.type = "row"
  BY <1>1 DEF Apply, ApplyRow, Projection
<1>2. CASE e.type = "property"
  BY <1>2 DEF Apply, ApplyProperty, Projection
<1>3. CASE e.type = "absence"
  BY <1>3 DEF Apply, ApplyAbsence, Projection
<1>4. CASE e.type = "tombstone"
  <2> DEFINE b == db.row[e.page].inTrash \/ (e.word = "remote_trash" /\ ~Frozen(e.page))
  <2>1. Apply(e) = [db EXCEPT !.tombstone[e.page] = e.word, !.row[e.page].inTrash = b]
    BY <1>4 DEF Apply, ApplyTombstone
  <2> HIDE DEF b
  <2> QED  BY <1>4, <2>1 DEF Projection
<1>5. CASE e.type = "conflict"
  BY <1>5 DEF Apply, ApplyConflict, Projection
<1>6. CASE e.type = "checkpoint"
  BY <1>6 DEF Apply, ApplyCheckpoint, Projection
<1> QED  BY <1>1, <1>2, <1>3, <1>4, <1>5, <1>6

\* An append without a fresh key changes nothing; the key of any event but a checkpoint is
\* the event itself.
LEMMA Appended ==
  ASSUME TypeOK, NEW e \in Events, AppendEvent(e)
  PROVE  /\ db' = db /\ recorded' = recorded /\ (e.type # "checkpoint" => e \in recorded)
         \/ /\ db' = Apply(e) /\ recorded' = recorded \cup {Key(e)}
            /\ e.type # "checkpoint" => Key(e) = e
            /\ Key(e).type = e.type
  BY KeyTyped DEF AppendEvent, Key

LEMMA TombstoneKey ==
  ASSUME NEW p, NEW reason
  PROVE  LET t == Event("tombstone", p, 0, reason) IN
           t.type = "tombstone" /\ t.page = p /\ t.word = reason
  BY DEF Event

\* A settlement, a resolution and an append, page by page.
LEMMA SettleEffect ==
  ASSUME TypeOK, NEW q \in Pages, Settle(q), NEW p \in Pages
  PROVE  /\ db'.row[p].value = db.row[p].value /\ db'.shadow[p] = db.shadow[p]
         /\ p # q => /\ db'.row[p] = db.row[p] /\ db'.target[p] = db.target[p]
                     /\ db'.conflict[p] = db.conflict[p] /\ db'.tombstone[p] = db.tombstone[p]
                     /\ landed'[p] = landed[p]
         /\ p = q => /\ db'.row[p].inTrash <=> landed[p] = "TrashPage"
                     /\ db'.target[p] = Wanted(landed[p])
                     /\ landed[p] \in {"TrashPage", "RestorePage"} /\ landed'[p] = "none"
         /\ \A w \in {"active", "trash"} :
              /\ db.conflict[p][w] = "none" <=> db'.conflict[p][w] = "none"
              /\ db.conflict[p][w] = "open" <=> db'.conflict[p][w] = "open"
         /\ db'.tombstone[p] =
              IF p = q /\ landed[p] = "RestorePage" /\ db.tombstone[p] = "remote_trash"
              THEN "none" ELSE db.tombstone[p]
<1> DEFINE b == landed[q] = "TrashPage"
           c == [w \in DOMAIN db.conflict[q] |->
                   IF db.conflict[q][w] = "resolving" THEN "resolved" ELSE db.conflict[q][w]]
           t == IF landed[q] = "RestorePage" /\ db.tombstone[q] = "remote_trash"
                THEN "none" ELSE db.tombstone[q]
<1>1. db \in Projection /\ landed \in [Pages -> Commands]
  BY DEF TypeOK
<1>2. db' = [db EXCEPT !.row[q].inTrash = b, !.target[q] = Wanted(landed[q]),
                       !.conflict[q] = c, !.tombstone[q] = t]
  BY <1>1 DEF Settle, Projection
<1>3. \A w \in {"active", "trash"} :
        c[w] = IF db.conflict[q][w] = "resolving" THEN "resolved" ELSE db.conflict[q][w]
  BY <1>1 DEF Projection
<1>4. t = IF landed[q] = "RestorePage" /\ db.tombstone[q] = "remote_trash"
          THEN "none" ELSE db.tombstone[q]
  OBVIOUS
<1>5. landed' = [landed EXCEPT ![q] = "none"] /\ landed[q] \in {"TrashPage", "RestorePage"}
  BY <1>1 DEF Settle, Commands
<1> DEFINE r == [value |-> db.row[q].value, inTrash |-> b]
<1>6. r.value = db.row[q].value /\ r.inTrash = b /\ b \in BOOLEAN
  OBVIOUS
<1> HIDE DEF c, t
<1>7. db'.row = [db.row EXCEPT ![q] = r]
  <2> HIDE DEF b
  <2>1. [db.row[q] EXCEPT !.inTrash = b] = r
    BY <1>1 DEF Projection
  <2>2. db'.row = [db.row EXCEPT ![q].inTrash = b]
    BY <1>1, <1>2 DEF Projection
  <2> QED  BY <1>1, <2>1, <2>2 DEF Projection
<1> HIDE DEF r
<1>8. p # q => db'.row[p] = db.row[p]
  BY <1>1, <1>7 DEF Projection
<1>9. p = q => db'.row[p] = r
  BY <1>1, <1>7 DEF Projection
<1>10. p = q => (db'.row[p].inTrash <=> landed[p] = "TrashPage")
  BY <1>6, <1>9, Zenon
<1>11. db'.row[p].value = db.row[p].value
  BY <1>6, <1>8, <1>9
<1> HIDE DEF b
<1>12. /\ db'.shadow[p] = db.shadow[p]
       /\ p # q => /\ db'.target[p] = db.target[p] /\ db'.conflict[p] = db.conflict[p]
                   /\ db'.tombstone[p] = db.tombstone[p]
       /\ p = q => db'.target[p] = Wanted(landed[p]) /\ db'.conflict[p] = c
                   /\ db'.tombstone[p] = t
  BY <1>1, <1>2 DEF Projection
<1>13. \A w \in {"active", "trash"} :
              /\ db.conflict[p][w] = "none" <=> db'.conflict[p][w] = "none"
              /\ db.conflict[p][w] = "open" <=> db'.conflict[p][w] = "open"
  BY <1>3, <1>12
<1> QED  BY <1>1, <1>4, <1>5, <1>8, <1>10, <1>11, <1>12, <1>13

LEMMA KeepRemoteEffect ==
  ASSUME TypeOK, NEW q \in Pages, NEW v \in {"active", "trash"}, KeepRemote(q, v), NEW p \in Pages
  PROVE  /\ db'.row[p].value = db.row[p].value /\ db'.shadow[p] = db.shadow[p]
         /\ db'.target[p] = db.target[p]
         /\ p # q => /\ db'.row[p] = db.row[p] /\ db'.conflict[p] = db.conflict[p]
                     /\ db'.tombstone[p] = db.tombstone[p]
         /\ p = q => db'.row[p].inTrash <=> v = "trash"
         /\ \A w \in {"active", "trash"} :
              db'.conflict[p][w] = IF p = q /\ w = v THEN "resolved" ELSE db.conflict[p][w]
         /\ db'.tombstone[p] =
              IF p = q /\ v = "active" /\ db.tombstone[p] = "remote_trash"
              THEN "none" ELSE db.tombstone[p]
<1> DEFINE b == v = "trash"
           t == IF v = "active" /\ db.tombstone[q] = "remote_trash"
                THEN "none" ELSE db.tombstone[q]
           r == [value |-> db.row[q].value, inTrash |-> b]
<1>1. db \in Projection
  BY DEF TypeOK
<1>2. db' = [db EXCEPT !.conflict[q][v] = "resolved", !.row[q].inTrash = b, !.tombstone[q] = t]
  BY <1>1 DEF KeepRemote, Projection
<1>3. t = IF v = "active" /\ db.tombstone[q] = "remote_trash"
          THEN "none" ELSE db.tombstone[q]
  OBVIOUS
<1>4. r.value = db.row[q].value /\ r.inTrash = b /\ b \in BOOLEAN
  OBVIOUS
<1> HIDE DEF t
<1>5. db'.row = [db.row EXCEPT ![q] = r]
  <2> HIDE DEF b
  <2>1. [db.row[q] EXCEPT !.inTrash = b] = r
    BY <1>1 DEF Projection
  <2>2. db'.row = [db.row EXCEPT ![q].inTrash = b]
    BY <1>1, <1>2 DEF Projection
  <2> QED  BY <1>1, <2>1, <2>2 DEF Projection
<1> HIDE DEF r
<1>6. p # q => db'.row[p] = db.row[p]
  BY <1>1, <1>5 DEF Projection
<1>7. p = q => db'.row[p] = r
  BY <1>1, <1>5 DEF Projection
<1>8. p = q => (db'.row[p].inTrash <=> v = "trash")
  BY <1>4, <1>7, Zenon
<1>9. db'.row[p].value = db.row[p].value
  BY <1>4, <1>6, <1>7
<1> HIDE DEF b
<1>10. /\ db'.shadow[p] = db.shadow[p] /\ db'.target[p] = db.target[p]
       /\ p # q => db'.conflict[p] = db.conflict[p] /\ db'.tombstone[p] = db.tombstone[p]
       /\ p = q => db'.tombstone[p] = t
       /\ \A w \in {"active", "trash"} :
            db'.conflict[p][w] = IF p = q /\ w = v THEN "resolved" ELSE db.conflict[p][w]
  BY <1>1, <1>2 DEF Projection
<1> QED  BY <1>3, <1>6, <1>8, <1>9, <1>10

LEMMA KeepLocalEffect ==
  ASSUME TypeOK, NEW q \in Pages, NEW v \in {"active", "trash"}, KeepLocal(q, v), NEW p \in Pages
  PROVE  /\ db'.row = db.row /\ db'.shadow = db.shadow /\ db'.target = db.target
         /\ db'.tombstone = db.tombstone /\ db.conflict[q][v] = "open"
         /\ \A w \in {"active", "trash"} :
              db'.conflict[p][w] = IF p = q /\ w = v THEN "resolving" ELSE db.conflict[p][w]
  BY DEF TypeOK, KeepLocal, Projection

\* Raising a divergence changes no more than the conflict of the head's page.
LEMMA RaiseEffect ==
  ASSUME TypeOK, RaiseDivergence, NEW p \in Pages
  PROVE  /\ Head(pull.queue) \in Events /\ pull.queue # <<>>
         /\ db'.row = db.row /\ db'.shadow = db.shadow /\ db'.target = db.target
         /\ db'.tombstone = db.tombstone
         /\ recorded \subseteq recorded'
         /\ \A k \in recorded' : k \in recorded \/ k.type = "conflict"
         /\ \A w \in {"active", "trash"} :
              \/ db'.conflict[p][w] = db.conflict[p][w]
              \/ /\ db'.conflict[p][w] = "open" /\ Head(pull.queue).page = p
                 /\ \/ /\ Head(pull.queue).type = "row" /\ w = "active"
                       /\ db.target[p] = "trash"
                    \/ /\ Head(pull.queue).type = "tombstone" /\ w = "trash"
                       /\ Head(pull.queue).word = "remote_trash" /\ db.target[p] = "active"
<1>1. pull.queue # <<>> /\ pull.queue \in Seq(Events) /\ db \in Projection
  BY PullFields DEF RaiseDivergence, Appending, TypeOK
<1> DEFINE h == Head(pull.queue)
<1>2. h \in Events
  BY <1>1, HeadTailProperties
<1>3. CASE Divergence(h) = {}
  BY <1>1, <1>2, <1>3 DEF RaiseDivergence
<1>4. CASE Divergence(h) # {}
  <2>1. PICK e \in Divergence(h) : AppendEvent(e)
    BY <1>4 DEF RaiseDivergence
  <2>2. e \in Events /\ e.type = "conflict" /\ e.page \in Pages /\ e.word \in {"active", "trash"}
    BY <1>2, <2>1, DivergenceTyped
  <2>3. /\ e.page = h.page
        /\ \/ h.type = "row" /\ e.word = "active" /\ db.target[e.page] = "trash"
           \/ /\ h.type = "tombstone" /\ e.word = "trash" /\ h.word = "remote_trash"
              /\ db.target[e.page] = "active"
    BY <2>1 DEF Divergence, Event
  <2> HIDE DEF h
  <2>4. CASE db' = db /\ recorded' = recorded
    BY <1>1, <1>2, <2>4 DEF h
  <2>5. CASE db' = Apply(e) /\ recorded' = recorded \cup {Key(e)}
    <3>1. db' = ApplyConflict(e)
      BY <2>2, <2>5 DEF Apply
    <3>2. /\ db'.row = db.row /\ db'.shadow = db.shadow /\ db'.target = db.target
          /\ db'.tombstone = db.tombstone
      BY <1>1, <3>1 DEF ApplyConflict, Projection
    <3>3. \A w \in {"active", "trash"} :
            db'.conflict[p][w] = IF e.page = p /\ e.word = w THEN "open" ELSE db.conflict[p][w]
      BY <1>1, <2>2, <2>5, RestApplied
    <3>4. Key(e).type = "conflict"
      BY <2>2, KeyTyped
    <3> QED  BY <1>1, <1>2, <2>3, <2>5, <3>2, <3>3, <3>4 DEF h
  <2> QED  BY <2>1, <2>2, <2>4, <2>5, Appended
<1> QED  BY <1>3, <1>4

\* A step that leaves alone what LifecycleTracked reads of page p.
LEMMA LifecycleStays ==
  ASSUME NEW p \in Pages, LifecycleTracked(p),
         places'[p] = places[p], remote'[p].place = remote[p].place, landed'[p] = landed[p],
         db'.row[p].inTrash = db.row[p].inTrash, db'.target[p] = db.target[p],
         \A w \in {"active", "trash"} : db'.conflict[p][w] = db.conflict[p][w],
         Tombstoned(p, "remote_trash")' <=> Tombstoned(p, "remote_trash")
  PROVE  LifecycleTracked(p)'
  BY DEF LifecycleTracked, Undisputed, FirstDispute, Frozen, Tombstoned

\* Where a page may go when nothing returns: it settles no dispute that is known.
LEMMA MoveKeepsTrack ==
  ASSUME Inv, MirrorInv, ~Returns, NEW q \in Pages, Move(q), NEW p \in Pages
  PROVE  LifecycleTracked(p)'
<1>1. /\ LifecycleTracked(p) /\ TypeOK
      /\ Tombstoned(p, "remote_trash") => "trash" \in places[p]
  <2>1. Tombstoned(p, "remote_trash") =>
          Sound(Event("tombstone", p, 0, "remote_trash"))
    BY DEF MirrorInv, DivergenceRaised, Tombstoned
  <2> QED  BY <2>1, TombstoneKey DEF Inv, MirrorInv, Sound
<1>2. PICK place \in Places \ {remote[q].place} :
        /\ place \notin places[q] \/ FirstDispute(q, place)
        /\ PlacePage(q, place)
  BY DEF Move
<1>3. UNCHANGED <<recorded, db, landed>>
  BY DEF Move
<1>4. /\ remote' = [remote EXCEPT ![q].place = place]
      /\ places' = [places EXCEPT ![q] = @ \cup {place}]
  BY <1>2 DEF PlacePage
<1>5. CASE p # q
  <2>1. remote'[p] = remote[p] /\ places'[p] = places[p]
    BY <1>1, <1>4, <1>5 DEF TypeOK
  <2> QED  BY <1>1, <1>3, <2>1, LifecycleStays DEF Tombstoned
<1>6. CASE p = q
  <2>1. remote'[p].place = place /\ places'[p] = places[p] \cup {place}
    BY <1>1, <1>4, <1>6 DEF TypeOK, RemotePage
  <2> QED
    BY <1>1, <1>2, <1>3, <1>6, <2>1
    DEF LifecycleTracked, Undisputed, FirstDispute, Frozen, Tombstoned
<1> QED  BY <1>5, <1>6

LEMMA PushKeepsTrack ==
  ASSUME Inv, MirrorInv, ~Returns, NEW q \in Pages, NEW c \in {"TrashPage", "RestorePage"},
         Push(q, c), NEW p \in Pages
  PROVE  LifecycleTracked(p)'
<1>1. LifecycleTracked(p) /\ TypeOK
  BY DEF Inv, MirrorInv
<1>2. /\ landed[q] = "none" /\ UNCHANGED <<recorded, db>>
      /\ remote[q].place \in {"active", "trash"}
      /\ \/ db.row[q].inTrash # (c = "TrashPage")
         \/ db.conflict[q][IF c = "TrashPage" THEN "active" ELSE "trash"] = "resolving"
      /\ \A w \in {"active", "trash"} : db.conflict[q][w] # "open"
      /\ landed' = [landed EXCEPT ![q] = c]
      /\ remote' = [remote EXCEPT ![q].place = Wanted(c)]
      /\ places' = [places EXCEPT ![q] = @ \cup {Wanted(c)}]
  BY DEF Push, MayPush, PlacePage
<1>3. CASE p # q
  <2>1. remote'[p] = remote[p] /\ places'[p] = places[p] /\ landed'[p] = landed[p]
    BY <1>1, <1>2, <1>3 DEF TypeOK
  <2> QED  BY <1>1, <1>2, <2>1, LifecycleStays DEF Tombstoned
<1>4. CASE p = q
  <2>1. /\ remote'[p].place = Wanted(c) /\ places'[p] = places[p] \cup {Wanted(c)}
        /\ landed'[p] = c
    BY <1>1, <1>2, <1>4 DEF TypeOK, RemotePage
  <2>2. db.row[p].inTrash \in BOOLEAN
    BY <1>1 DEF TypeOK, Projection
  <2>3. /\ c = "TrashPage" => ~db.row[p].inTrash \/ db.conflict[p]["active"] = "resolving"
        /\ c = "RestorePage" => db.row[p].inTrash \/ db.conflict[p]["trash"] = "resolving"
    BY <1>2, <1>4, <2>2
  <2>4. ~Undisputed(p) \/ (c = "TrashPage" <=> ~db.row[p].inTrash)
    BY <2>3, <2>2 DEF Undisputed
  <2> QED
    BY <1>1, <1>2, <1>4, <2>1, <2>3, <2>4
    DEF LifecycleTracked, Undisputed, FirstDispute, Frozen, Tombstoned, Wanted
<1> QED  BY <1>3, <1>4

LEMMA SettleKeepsTrack ==
  ASSUME Inv, MirrorInv, NEW q \in Pages, Settle(q), NEW p \in Pages
  PROVE  LifecycleTracked(p)'
<1>1. LifecycleTracked(p) /\ TypeOK
  BY DEF Inv, MirrorInv
<1>2. UNCHANGED <<remote, recorded, places>>
  BY DEF Settle
<1>3. CASE p # q
  BY <1>1, <1>2, <1>3, SettleEffect, LifecycleStays DEF Tombstoned
<1>4. CASE p = q
  <2>1. /\ db'.row[p].inTrash <=> landed[p] = "TrashPage"
        /\ db'.target[p] = Wanted(landed[p])
        /\ landed[p] \in {"TrashPage", "RestorePage"} /\ landed'[p] = "none"
        /\ \A w \in {"active", "trash"} :
             /\ db.conflict[p][w] = "none" <=> db'.conflict[p][w] = "none"
             /\ db.conflict[p][w] = "open" <=> db'.conflict[p][w] = "open"
    BY <1>1, <1>4, SettleEffect
  <2> QED
    BY <1>1, <1>2, <2>1
    DEF LifecycleTracked, Undisputed, FirstDispute, Frozen, Tombstoned, Wanted
<1> QED  BY <1>3, <1>4

LEMMA KeepRemoteKeepsTrack ==
  ASSUME Inv, MirrorInv, NEW q \in Pages, NEW v \in {"active", "trash"}, KeepRemote(q, v),
         NEW p \in Pages
  PROVE  LifecycleTracked(p)'
<1>1. LifecycleTracked(p) /\ TypeOK
  BY DEF Inv, MirrorInv
<1>2. UNCHANGED <<remote, recorded, landed, places>> /\ db.conflict[q][v] = "open"
  BY DEF KeepRemote
<1>3. CASE p # q
  BY <1>1, <1>2, <1>3, KeepRemoteEffect, LifecycleStays DEF Tombstoned
<1>4. CASE p = q
  <2>1. /\ db'.row[p].inTrash <=> v = "trash"
        /\ db'.target[p] = db.target[p]
        /\ \A w \in {"active", "trash"} :
             db'.conflict[p][w] = IF w = v THEN "resolved" ELSE db.conflict[p][w]
    BY <1>1, <1>4, KeepRemoteEffect
  <2> QED
    BY <1>1, <1>2, <1>4, <2>1
    DEF LifecycleTracked, Undisputed, FirstDispute, Frozen, Tombstoned
<1> QED  BY <1>3, <1>4

LEMMA KeepLocalKeepsTrack ==
  ASSUME Inv, MirrorInv, NEW q \in Pages, NEW v \in {"active", "trash"}, KeepLocal(q, v),
         NEW p \in Pages
  PROVE  LifecycleTracked(p)'
<1>1. LifecycleTracked(p) /\ TypeOK
  BY DEF Inv, MirrorInv
<1>2. UNCHANGED <<remote, recorded, landed, places>> /\ db.conflict[q][v] = "open"
  BY DEF KeepLocal
<1>3. /\ db'.row[p] = db.row[p] /\ db'.target[p] = db.target[p]
      /\ \A w \in {"active", "trash"} :
           db'.conflict[p][w] = IF p = q /\ w = v THEN "resolving" ELSE db.conflict[p][w]
  BY <1>1, KeepLocalEffect
<1> QED
  BY <1>1, <1>2, <1>3
  DEF LifecycleTracked, Undisputed, FirstDispute, Frozen, Tombstoned

\* A raised conflict freezes the page; the state it was raised for is not left unnoticed.
LEMMA RaiseKeepsTrack ==
  ASSUME Inv, MirrorInv, RaiseDivergence, NEW p \in Pages
  PROVE  LifecycleTracked(p)'
<1> DEFINE h == Head(pull.queue)
<1>1. LifecycleTracked(p) /\ Overtaken(p) /\ TypeOK
  BY DEF Inv, MirrorInv
<1>2. UNCHANGED <<remote, landed, places>>
  BY DEF RaiseDivergence
<1>3. pull.queue # <<>> /\ h \in Events /\ pull.queue \in Seq(Events)
  BY <1>1, RaiseEffect, PullFields
<1>4. 1 \in 1..Len(pull.queue) /\ pull.queue[1] = h
  <2>1. Len(pull.queue) \in Nat \ {0}
    BY <1>3, EmptySeq
  <2> QED  BY <1>3, <2>1
<1>5. Tombstoned(p, "remote_trash")' <=> Tombstoned(p, "remote_trash")
  BY <1>1, RaiseEffect, TombstoneKey DEF Tombstoned
<1>6. db'.row[p] = db.row[p] /\ db'.target[p] = db.target[p]
  BY <1>1, RaiseEffect
<1>7. CASE \A w \in {"active", "trash"} : db'.conflict[p][w] = db.conflict[p][w]
  BY <1>1, <1>2, <1>5, <1>6, <1>7, LifecycleStays
<1>8. CASE \E w \in {"active", "trash"} : db'.conflict[p][w] # db.conflict[p][w]
  <2>1. PICK w \in {"active", "trash"} : db'.conflict[p][w] # db.conflict[p][w]
    BY <1>8
  <2>2. /\ db'.conflict[p][w] = "open" /\ h.page = p
        /\ \/ h.type = "row" /\ w = "active" /\ db.target[p] = "trash"
           \/ /\ h.type = "tombstone" /\ w = "trash" /\ h.word = "remote_trash"
              /\ db.target[p] = "active"
    BY <1>1, <2>1, RaiseEffect
  <2>3. \A v \in {"active", "trash"} : v # w => db'.conflict[p][v] = db.conflict[p][v]
    <3> SUFFICES ASSUME NEW v \in {"active", "trash"}, v # w,
                        db'.conflict[p][v] # db.conflict[p][v]
                 PROVE  FALSE
      OBVIOUS
    <3>1. /\ \/ h.type = "row" /\ v = "active" /\ db.target[p] = "trash"
             \/ h.type = "tombstone" /\ v = "trash" /\ db.target[p] = "active"
      BY <1>1, RaiseEffect
    <3> QED  BY <2>2, <3>1
  <2>4. CASE h.type = "row" /\ w = "active" /\ db.target[p] = "trash"
    <3>1. RowQueued(p)
      BY <1>4, <2>2, <2>4 DEF RowQueued
    <3>2. remote[p].place # "trash"
      BY <1>1, <2>4, <3>1 DEF Overtaken
    <3> QED
      BY <1>1, <1>2, <1>5, <1>6, <2>2, <2>3, <2>4, <3>2
      DEF LifecycleTracked, Undisputed, FirstDispute, Frozen
  <2>5. CASE /\ h.type = "tombstone" /\ w = "trash" /\ h.word = "remote_trash"
             /\ db.target[p] = "active"
    <3>1. h = Event("tombstone", p, 0, "remote_trash")
      BY <1>3, <2>2, <2>5 DEF Events, EventSet, Event
    <3>2. TombstoneQueued(p, "remote_trash")
      BY <1>4, <3>1 DEF TombstoneQueued
    <3>3. remote[p].place # "active"
      BY <1>1, <2>5, <3>2 DEF Overtaken
    <3>4. "trash" \in places[p]
      <4>1. Sound(h)
        BY <1>4 DEF Inv, QueueSound
      <4> QED  BY <2>2, <2>5, <4>1 DEF Sound
    <3> QED
      BY <1>1, <1>2, <1>5, <1>6, <2>2, <2>3, <2>5, <3>3, <3>4
      DEF LifecycleTracked, Undisputed, FirstDispute, Frozen
  <2> QED  BY <2>2, <2>4, <2>5
<1> QED  BY <1>7, <1>8

\* The next append: its event comes off the queue.
LEMMA AppendNextEffect ==
  ASSUME TypeOK, AppendNext
  PROVE  /\ Head(pull.queue) \in Events /\ pull.pc \in {"append", "mark"}
         /\ 1 \in 1..Len(pull.queue) /\ pull.queue[1] = Head(pull.queue)
         /\ AppendEvent(Head(pull.queue))
         /\ pull.checked \/ Head(pull.queue).type \notin {"row", "tombstone"}
         /\ pull' = [pull EXCEPT !.queue = Tail(pull.queue), !.checked = FALSE]
         /\ pull'.queue = Tail(pull.queue) /\ ~pull'.checked
         /\ pull'.pc = pull.pc /\ pull'.missing = pull.missing /\ pull'.seen = pull.seen
         /\ pull'.ended = pull.ended /\ pull'.cursor = pull.cursor
         /\ pull'.from = pull.from /\ pull'.since = pull.since /\ pull'.faulty = pull.faulty
         /\ pull'.disturbed = pull.disturbed
         /\ Tail(pull.queue) \in Seq(Events) /\ Len(pull.queue) \in Nat
         /\ Len(Tail(pull.queue)) = Len(pull.queue) - 1
         /\ \A i \in 1..Len(Tail(pull.queue)) :
              i + 1 \in 2..Len(pull.queue) /\ Tail(pull.queue)[i] = pull.queue[i + 1]
         /\ UNCHANGED <<remote, landed, places>>
<1>1. pull \in Pull /\ pull.queue \in Seq(Events) /\ pull.queue # <<>>
  BY PullFields DEF AppendNext, Appending, TypeOK
<1>2. /\ pull.pc \in {"append", "mark"} /\ AppendEvent(Head(pull.queue))
      /\ pull.checked \/ Head(pull.queue).type \notin {"row", "tombstone"}
      /\ pull' = [pull EXCEPT !.queue = Tail(pull.queue), !.checked = FALSE]
      /\ UNCHANGED <<remote, landed, places>>
  BY DEF AppendNext, Appending
<1>3. Head(pull.queue) \in Events
  BY <1>1, HeadTailProperties
<1>4. Len(pull.queue) \in Nat \ {0}
  BY <1>1, EmptySeq
<1>5. /\ Tail(pull.queue) \in Seq(Events) /\ Len(Tail(pull.queue)) = Len(pull.queue) - 1
      /\ \A i \in 1..Len(Tail(pull.queue)) : Tail(pull.queue)[i] = pull.queue[i + 1]
  BY <1>1, HeadTailProperties
<1>6. 1 \in 1..Len(pull.queue) /\ pull.queue[1] = Head(pull.queue)
  BY <1>1, <1>4
<1>7. \A i \in 1..Len(Tail(pull.queue)) : i + 1 \in 2..Len(pull.queue)
  BY <1>4, <1>5
<1>8. /\ pull'.queue = Tail(pull.queue) /\ ~pull'.checked
      /\ pull'.pc = pull.pc /\ pull'.missing = pull.missing /\ pull'.seen = pull.seen
      /\ pull'.ended = pull.ended /\ pull'.cursor = pull.cursor
      /\ pull'.from = pull.from /\ pull'.since = pull.since /\ pull'.faulty = pull.faulty
      /\ pull'.disturbed = pull.disturbed
  BY <1>1, <1>2 DEF Pull
<1> QED  BY <1>2, <1>3, <1>4, <1>5, <1>6, <1>7, <1>8

\* What a row or a tombstone of page p does to it when it is appended, for the first time
\* or again; any other event that a pull queues leaves in_trash alone.
LEMMA AppendedRow ==
  ASSUME TypeOK, NEW e \in Events, AppendEvent(e), NEW p \in Pages
  PROVE  /\ e.type = "row" /\ e.page = p /\ e \notin recorded =>
              /\ db'.row[p].value = e.number
              /\ db'.row[p].inTrash <=> (Frozen(p) /\ db.row[p].inTrash)
         /\ e.type = "tombstone" /\ e.page = p /\ e \notin recorded =>
              /\ db'.row[p].inTrash <=>
                   (db.row[p].inTrash \/ (e.word = "remote_trash" /\ ~Frozen(p)))
              /\ db'.tombstone[p] = e.word
         /\ e.type # "row" \/ e.page # p => db'.row[p].value = db.row[p].value
         /\ e.type \notin {"row", "tombstone"} \/ e.page # p => db'.row[p] = db.row[p]
         /\ e.type = "tombstone" /\ e.page = p /\ e \in recorded => db' = db
         /\ e.type = "row" /\ e.page = p /\ e \in recorded => db' = db
         /\ e.type # "conflict" =>
              \A w \in {"active", "trash"} : db'.conflict[p][w] = db.conflict[p][w]
         /\ e.type # "tombstone" \/ e.page # p =>
              \/ db'.tombstone[p] = db.tombstone[p]
              \/ {db.tombstone[p], db'.tombstone[p]} \subseteq {"none", "unclassified"}
         /\ db'.target = db.target
         /\ db'.shadow[p] = IF e.type = "property" /\ e.page = p /\ e \notin recorded
                            THEN e.number ELSE db.shadow[p]
         /\ \A reason : Tombstoned(p, reason)' <=>
              Tombstoned(p, reason) \/ e = Event("tombstone", p, 0, reason)
<1>1. db \in Projection
  BY DEF TypeOK
<1>2. e.type # "checkpoint" => Key(e) = e
  BY DEF Key
<1>3. \A reason : Tombstoned(p, reason)' <=>
              Tombstoned(p, reason) \/ e = Event("tombstone", p, 0, reason)
  <2> SUFFICES ASSUME NEW reason
               PROVE  Tombstoned(p, reason)' <=>
                        Tombstoned(p, reason) \/ e = Event("tombstone", p, 0, reason)
    OBVIOUS
  <2> DEFINE t == Event("tombstone", p, 0, reason)
  <2>1. t.type = "tombstone"
    BY TombstoneKey
  <2>2. Key(e).type = e.type
    BY KeyTyped
  <2>3. t \in recorded' <=> t \in recorded \/ e = t
    <3> HIDE DEF t
    <3> QED  BY <1>2, <2>1, <2>2 DEF AppendEvent
  <2> QED  BY <2>3 DEF Tombstoned
<1>4. CASE db' = db /\ recorded' = recorded /\ (e.type # "checkpoint" => e \in recorded)
  BY <1>3, <1>4
<1>5. CASE /\ db' = Apply(e) /\ recorded' = recorded \cup {Key(e)}
           /\ e.type # "checkpoint" => e \notin recorded
  <2>1. /\ e.type = "row" /\ e.page = p =>
              /\ db'.row[p].value = e.number
              /\ db'.row[p].inTrash <=> (Frozen(p) /\ db.row[p].inTrash)
        /\ e.type = "tombstone" /\ e.page = p =>
              /\ db'.row[p].value = db.row[p].value
              /\ db'.row[p].inTrash <=>
                   (db.row[p].inTrash \/ (e.word = "remote_trash" /\ ~Frozen(p)))
        /\ e.page # p \/ e.type \notin {"row", "tombstone"} => db'.row[p] = db.row[p]
    BY <1>1, <1>5, RowApplied
  <2>2. e.page # p \/ e.type # "row" => db'.row[p].value = db.row[p].value
    BY <2>1
  <2>3. /\ db'.shadow[p] =
              IF e.type = "property" /\ e.page = p THEN e.number ELSE db.shadow[p]
        /\ e.type # "conflict" =>
             \A w \in {"active", "trash"} : db'.conflict[p][w] = db.conflict[p][w]
        /\ e.type = "tombstone" /\ e.page = p => db'.tombstone[p] = e.word
        /\ e.type # "tombstone" \/ e.page # p =>
              \/ db'.tombstone[p] = db.tombstone[p]
              \/ {db.tombstone[p], db'.tombstone[p]} \subseteq {"none", "unclassified"}
        /\ db'.target = db.target
    BY <1>1, <1>5, RestApplied
  <2> QED  BY <1>3, <1>5, <2>1, <2>2, <2>3
<1>6. \/ db' = db /\ recorded' = recorded /\ (e.type # "checkpoint" => e \in recorded)
      \/ /\ db' = Apply(e) /\ recorded' = recorded \cup {Key(e)}
         /\ e.type # "checkpoint" => e \notin recorded
  BY <1>2 DEF AppendEvent
<1> QED  BY <1>4, <1>5, <1>6

\* A row appended against the target finds its conflict raised, and a tombstone is what a
\* page is in the trash by.
LEMMA AppendKeepsTrack ==
  ASSUME Inv, MirrorInv, AppendNext, NEW p \in Pages
  PROVE  LifecycleTracked(p)'
<1> DEFINE h == Head(pull.queue)
<1>1. /\ LifecycleTracked(p) /\ Overtaken(p) /\ TypeOK
      /\ UNCHANGED <<remote, landed, places>>
      /\ h \in Events /\ AppendEvent(h) /\ h = pull.queue[1] /\ 1 \in 1..Len(pull.queue)
      /\ pull.checked \/ h.type \notin {"row", "tombstone"}
  BY AppendNextEffect DEF Inv, MirrorInv
<1>2. h.type # "conflict" /\ Sound(h)
  BY <1>1 DEF MirrorInv, QueuePhases, Inv, QueueSound
<1>3. \A w \in {"active", "trash"} : db'.conflict[p][w] = db.conflict[p][w]
  BY <1>1, <1>2, AppendedRow
<1>4. db'.target[p] = db.target[p]
  BY <1>1, AppendedRow
<1>5. Tombstoned(p, "remote_trash")' <=>
        Tombstoned(p, "remote_trash") \/ h = Event("tombstone", p, 0, "remote_trash")
  BY <1>1, AppendedRow
<1>6. CASE h.type = "row" /\ h.page = p
  <2>1. Tombstoned(p, "remote_trash")' <=> Tombstoned(p, "remote_trash")
    BY <1>5, <1>6, TombstoneKey
  <2>2. CASE h \in recorded
    <3>1. db' = db
      BY <1>1, <1>6, <2>2, AppendedRow
    <3> QED  BY <1>1, <2>1, <3>1, LifecycleStays
  <2>3. CASE h \notin recorded
    <3>1. db'.row[p].inTrash <=> (Frozen(p) /\ db.row[p].inTrash)
      BY <1>1, <1>6, <2>3, AppendedRow
    <3>2. db.target[p] = "trash" => db.conflict[p]["active"] # "none"
      <4>1. db.target[p] = "trash" =>
              Divergence(h) = {Event("conflict", p, 0, "active")}
        BY <1>6 DEF Divergence
      <4>2. /\ Event("conflict", p, 0, "active").page = p
            /\ Event("conflict", p, 0, "active").word = "active"
        BY DEF Event
      <4>3. \A e \in Divergence(h) : db.conflict[e.page][e.word] # "none"
        BY <1>1, <1>6 DEF MirrorInv, DivergenceRaised
      <4> QED  BY <4>1, <4>2, <4>3
    <3>3. RowQueued(p)
      BY <1>1, <1>6 DEF RowQueued
    <3>4. remote[p].place = "trash" => ~Tombstoned(p, "remote_trash")
      BY <1>1, <3>3 DEF Overtaken
    <3> QED
      BY <1>1, <1>3, <1>4, <2>1, <3>1, <3>2, <3>4
      DEF LifecycleTracked, Undisputed, FirstDispute, Frozen, Tombstoned
  <2> QED  BY <2>2, <2>3
<1>7. CASE h.type = "tombstone" /\ h.page = p
  <2>1. CASE h \in recorded
    <3>1. db' = db
      BY <1>1, <1>7, <2>1, AppendedRow
    <3>2. recorded' = recorded
      BY <1>7, <1>1, <2>1 DEF AppendEvent, Key
    <3> QED  BY <1>1, <3>1, <3>2, LifecycleStays DEF Tombstoned
  <2>2. CASE h \notin recorded /\ h.word = "remote_trash"
    <3>1. h = Event("tombstone", p, 0, "remote_trash")
      BY <1>1, <1>7, <2>2 DEF Events, EventSet, Event
    <3>2. TombstoneQueued(p, "remote_trash")
      BY <1>1, <3>1 DEF TombstoneQueued
    <3>3. remote[p].place = "active" => db.target[p] = "trash" /\ Undisputed(p)
      BY <1>1, <3>2 DEF Overtaken
    <3>4. "trash" \in places[p]
      BY <1>2, <1>7, <2>2 DEF Sound
    <3>5. db'.row[p].inTrash <=> (db.row[p].inTrash \/ ~Frozen(p))
      BY <1>1, <1>7, <2>2, AppendedRow
    <3>6. Tombstoned(p, "remote_trash")'
      BY <1>5, <3>1
    <3>7. Event("tombstone", p, 0, "remote_trash") \in recorded'
      BY <3>6 DEF Tombstoned
    <3> QED
      BY <1>1, <1>3, <1>4, <3>3, <3>4, <3>5, <3>6, <3>7
      DEF LifecycleTracked, Undisputed, FirstDispute, Frozen
  <2>3. CASE h \notin recorded /\ h.word # "remote_trash"
    <3>1. db'.row[p].inTrash <=> db.row[p].inTrash
      BY <1>1, <1>7, <2>3, AppendedRow
    <3>2. Tombstoned(p, "remote_trash")' <=> Tombstoned(p, "remote_trash")
      BY <1>5, <2>3, TombstoneKey
    <3> QED
      BY <1>1, <1>3, <1>4, <3>1, <3>2
      DEF LifecycleTracked, Undisputed, FirstDispute, Frozen, Tombstoned
  <2> QED  BY <2>1, <2>2, <2>3
<1>8. CASE h.type \notin {"row", "tombstone"} \/ h.page # p
  <2>1. db'.row[p] = db.row[p]
    BY <1>1, <1>8, AppendedRow
  <2>2. Tombstoned(p, "remote_trash")' <=> Tombstoned(p, "remote_trash")
    BY <1>5, <1>8, TombstoneKey
  <2> QED  BY <1>1, <1>3, <1>4, <2>1, <2>2, LifecycleStays
<1> QED  BY <1>6, <1>7, <1>8

\* The steps that change neither the pages nor the log nor the projection.
LEMMA QuietSteps ==
  ASSUME \/ \E incremental \in BOOLEAN : Begin(incremental)
         \/ QueryPage \/ Classify \/ Verify \/ Complete \/ Interrupt \/ UNCHANGED vars
  PROVE  UNCHANGED <<remote, recorded, db, landed, places>>
  BY DEF Begin, QueryPage, Classify, Verify, Complete, Interrupt, vars

LEMMA LifecycleStep ==
  ASSUME Inv, MirrorInv, ~Returns, [Next]_vars, NEW p \in Pages
  PROVE  LifecycleTracked(p)'
<1>1. LifecycleTracked(p) /\ TypeOK
  BY DEF Inv, MirrorInv
<1>2. CASE UNCHANGED <<remote, recorded, db, landed, places>>
  BY <1>1, <1>2, LifecycleStays DEF Tombstoned
<1>3. ASSUME NEW q \in Pages, Edit(q)
      PROVE  LifecycleTracked(p)'
  <2>1. UNCHANGED <<recorded, db, landed, places>>
    BY <1>3 DEF Edit
  <2>2. remote'[p].place = remote[p].place
    <3>1. PICK v \in Values :
            remote' = [remote EXCEPT ![q].value = v, ![q].edited = Clock + 1]
      BY <1>3 DEF Edit
    <3> QED  BY <1>1, <3>1 DEF TypeOK, RemotePage
  <2> QED  BY <1>1, <2>1, <2>2, LifecycleStays DEF Tombstoned
<1> QED
  BY <1>2, <1>3, QuietSteps, MoveKeepsTrack, PushKeepsTrack, SettleKeepsTrack,
     KeepRemoteKeepsTrack, KeepLocalKeepsTrack, RaiseKeepsTrack, AppendKeepsTrack
  DEF Next, PullStep

\* A page goes back to where it was only against a target whose tombstone is not in the log,
\* and what clears the flag or the conflict of a page clears its tombstone as trashed.
LEMMA TombstoneStep ==
  ASSUME Inv, MirrorInv, ~Returns, [Next]_vars, NEW p \in Pages
  PROVE  TombstoneTracked(p)'
<1> DEFINE t == Event("tombstone", p, 0, "remote_trash")
<1>1. TombstoneTracked(p) /\ LifecycleTracked(p) /\ Overtaken(p) /\ TypeOK
  BY DEF Inv, MirrorInv
<1>2. ASSUME remote'[p].place = remote[p].place, landed'[p] = landed[p], db' = db,
             recorded \subseteq recorded'
      PROVE  TombstoneTracked(p)'
  BY <1>1, <1>2 DEF TombstoneTracked, Tombstoned, Frozen, Undisputed
<1>3. ASSUME NEW q \in Pages, Edit(q)
      PROVE  TombstoneTracked(p)'
  <2>1. PICK v \in Values :
          remote' = [remote EXCEPT ![q].value = v, ![q].edited = Clock + 1]
    BY <1>3 DEF Edit
  <2>2. remote'[p].place = remote[p].place
    BY <1>1, <2>1 DEF TypeOK, RemotePage
  <2> QED  BY <1>2, <1>3, <2>2 DEF Edit
<1>4. ASSUME NEW q \in Pages, Move(q)
      PROVE  TombstoneTracked(p)'
  <2>1. PICK place \in Places \ {remote[q].place} :
          /\ place \notin places[q] \/ FirstDispute(q, place)
          /\ remote' = [remote EXCEPT ![q].place = place]
    BY <1>4 DEF Move, PlacePage
  <2>2. UNCHANGED <<recorded, db, landed>>
    BY <1>4 DEF Move
  <2>3. CASE p # q
    BY <1>1, <1>2, <2>1, <2>2, <2>3 DEF TypeOK
  <2>4. CASE p = q
    <3>1. remote'[p].place = place
      BY <1>1, <2>1, <2>4 DEF TypeOK, RemotePage
    <3>2. place = "active" => t \notin recorded
      BY <1>1, <2>1, <2>4 DEF LifecycleTracked, FirstDispute
    <3> QED
      BY <1>1, <2>2, <3>1, <3>2 DEF TombstoneTracked, Tombstoned
  <2> QED  BY <2>3, <2>4
<1>5. ASSUME NEW q \in Pages, NEW c \in {"TrashPage", "RestorePage"}, Push(q, c)
      PROVE  TombstoneTracked(p)'
  <2>1. /\ UNCHANGED <<recorded, db>> /\ landed' = [landed EXCEPT ![q] = c]
        /\ remote' = [remote EXCEPT ![q].place = Wanted(c)]
    BY <1>5 DEF Push, PlacePage
  <2>2. CASE p # q
    BY <1>1, <1>2, <2>1, <2>2 DEF TypeOK
  <2>3. CASE p = q
    <3>1. landed'[p] # "none"
      BY <1>1, <2>1, <2>3 DEF TypeOK
    <3> QED  BY <1>1, <2>1, <3>1 DEF TombstoneTracked, Tombstoned
  <2> QED  BY <2>2, <2>3
<1>6. ASSUME NEW q \in Pages, Settle(q)
      PROVE  TombstoneTracked(p)'
  <2>1. UNCHANGED <<remote, recorded>>
    BY <1>6 DEF Settle
  <2>2. db'.tombstone[p] =
          IF p = q /\ landed[p] = "RestorePage" /\ db.tombstone[p] = "remote_trash"
          THEN "none" ELSE db.tombstone[p]
    BY <1>1, <1>6, SettleEffect
  <2>3. CASE p # q
    <3>1. /\ db'.target[p] = db.target[p] /\ landed'[p] = landed[p]
          /\ db'.conflict[p] = db.conflict[p]
      BY <1>1, <1>6, <2>3, SettleEffect
    <3> QED
      BY <1>1, <2>1, <2>2, <2>3, <3>1 DEF TombstoneTracked, Tombstoned, Frozen, Undisputed
  <2>4. CASE p = q
    <3>1. landed[p] \in {"TrashPage", "RestorePage"}
      BY <1>1, <1>6, <2>4, SettleEffect
    <3>2. landed[p] = "TrashPage" => remote[p].place # "active"
      BY <1>1 DEF LifecycleTracked
    <3> QED
      BY <1>1, <2>1, <2>2, <2>4, <3>1, <3>2 DEF TombstoneTracked, Tombstoned
  <2> QED  BY <2>3, <2>4
<1>7. ASSUME NEW q \in Pages, NEW v \in {"active", "trash"}, KeepRemote(q, v)
      PROVE  TombstoneTracked(p)'
  <2>1. UNCHANGED <<remote, recorded, landed>> /\ db.conflict[q][v] = "open"
    BY <1>7 DEF KeepRemote
  <2>2. /\ db'.tombstone[p] =
             IF p = q /\ v = "active" /\ db.tombstone[p] = "remote_trash"
             THEN "none" ELSE db.tombstone[p]
        /\ db'.target[p] = db.target[p]
        /\ p # q => db'.conflict[p] = db.conflict[p]
    BY <1>1, <1>7, KeepRemoteEffect
  <2>3. CASE p # q
    BY <1>1, <2>1, <2>2, <2>3 DEF TombstoneTracked, Tombstoned, Frozen, Undisputed
  <2>4. CASE p = q
    <3>1. v = "trash" => remote[p].place # "active"
      BY <1>1, <2>1, <2>4 DEF LifecycleTracked
    <3> QED  BY <1>1, <2>1, <2>2, <2>4, <3>1 DEF TombstoneTracked, Tombstoned
  <2> QED  BY <2>3, <2>4
<1>8. ASSUME NEW q \in Pages, NEW v \in {"active", "trash"}, KeepLocal(q, v)
      PROVE  TombstoneTracked(p)'
  <2>1. UNCHANGED <<remote, recorded, landed>> /\ db.conflict[q][v] = "open"
    BY <1>8 DEF KeepLocal
  <2>2. /\ db'.tombstone = db.tombstone /\ db'.target = db.target
        /\ \A w \in {"active", "trash"} :
             db'.conflict[p][w] = IF p = q /\ w = v THEN "resolving" ELSE db.conflict[p][w]
    BY <1>1, <1>8, KeepLocalEffect
  <2> QED
    BY <1>1, <2>1, <2>2 DEF TombstoneTracked, Tombstoned, Frozen, Undisputed
<1>9. ASSUME RaiseDivergence
      PROVE  TombstoneTracked(p)'
  <2>1. UNCHANGED <<remote, landed>>
    BY <1>9 DEF RaiseDivergence
  <2>2. /\ db'.tombstone = db.tombstone /\ db'.target = db.target /\ recorded \subseteq recorded'
        /\ \A w \in {"active", "trash"} :
             db'.conflict[p][w] = db.conflict[p][w] \/ db'.conflict[p][w] = "open"
    BY <1>1, <1>9, RaiseEffect
  <2> QED
    BY <1>1, <2>1, <2>2 DEF TombstoneTracked, Tombstoned, Frozen, Undisputed
<1>10. ASSUME AppendNext
       PROVE  TombstoneTracked(p)'
  <2> DEFINE h == Head(pull.queue)
  <2>1. /\ UNCHANGED <<remote, landed>> /\ h \in Events /\ AppendEvent(h)
        /\ h = pull.queue[1] /\ 1 \in 1..Len(pull.queue)
    BY <1>1, <1>10, AppendNextEffect
  <2>2. h.type # "conflict"
    BY <1>1, <1>10, <2>1, AppendNextEffect DEF MirrorInv, QueuePhases
  <2>3. /\ \A w \in {"active", "trash"} : db'.conflict[p][w] = db.conflict[p][w]
        /\ db'.target = db.target
        /\ Tombstoned(p, "remote_trash")' <=> Tombstoned(p, "remote_trash") \/ h = t
    BY <1>1, <2>1, <2>2, AppendedRow
  <2>4. (Frozen(p)' <=> Frozen(p)) /\ (Undisputed(p)' <=> Undisputed(p))
    BY <2>3 DEF Frozen, Undisputed
  <2>5. CASE db'.tombstone[p] # "remote_trash"
    BY <2>5 DEF TombstoneTracked
  <2>6. CASE db'.tombstone[p] = db.tombstone[p]
    BY <1>1, <2>1, <2>3, <2>4, <2>6 DEF TombstoneTracked
  <2>7. CASE db'.tombstone[p] = "remote_trash" /\ db'.tombstone[p] # db.tombstone[p]
    <3>1. h.type = "tombstone" /\ h.page = p /\ h \notin recorded
      BY <1>1, <2>1, <2>7, AppendedRow
    <3>2. h.word = "remote_trash"
      BY <1>1, <2>1, <2>7, <3>1, AppendedRow
    <3>3. h = t
      BY <2>1, <3>1, <3>2 DEF Events, EventSet, Event
    <3>4. TombstoneQueued(p, "remote_trash")
      BY <2>1, <3>3 DEF TombstoneQueued
    <3>5. remote[p].place = "active" => db.target[p] = "trash" /\ Undisputed(p)
      BY <1>1, <3>4 DEF Overtaken
    <3> QED  BY <2>1, <2>3, <2>4, <3>3, <3>5 DEF TombstoneTracked
  <2> QED  BY <2>5, <2>6, <2>7
<1>11. CASE UNCHANGED <<remote, recorded, db, landed, places>>
  BY <1>2, <1>11
<1> QED
  BY <1>3, <1>4, <1>5, <1>6, <1>7, <1>8, <1>9, <1>10, <1>11, QuietSteps DEF Next, PullStep

\* What a response queues of a row.
RowEvent(p) == Event("row", p, remote[p].value, "active")
PropertyEvent(p) == Event("property", p, remote[p].value, "")

LEMMA ReadEvents ==
  ASSUME TypeOK, NEW p \in Pages
  PROVE  /\ RowEvents(p) = <<RowEvent(p), PropertyEvent(p)>>
         /\ RowEvent(p) \in Events /\ PropertyEvent(p) \in Events
         /\ RowEvent(p).type = "row" /\ RowEvent(p).page = p
         /\ RowEvent(p).number = remote[p].value
         /\ PropertyEvent(p).type = "property" /\ PropertyEvent(p).page = p
         /\ PropertyEvent(p).number = remote[p].value
<1>1. RowEvents(p) = <<RowEvent(p), PropertyEvent(p)>>
  BY DEF RowEvents, RowEvent, PropertyEvent
<1>2. RowEvent(p) \in Events /\ PropertyEvent(p) \in Events
  BY RemoteTyped DEF RowEvent, PropertyEvent, Event, Events, EventSet
<1>3. /\ RowEvent(p).type = "row" /\ RowEvent(p).page = p
      /\ RowEvent(p).number = remote[p].value
  BY DEF RowEvent, Event
<1>4. /\ PropertyEvent(p).type = "property" /\ PropertyEvent(p).page = p
      /\ PropertyEvent(p).number = remote[p].value
  BY DEF PropertyEvent, Event
<1> QED  BY <1>1, <1>2, <1>3, <1>4

\* A response queues the row and the property of the page it shows, with what the page
\* holds now, behind what was queued before.
LEMMA QueryPageEffect ==
  ASSUME TypeOK, QueryPage
  PROVE  /\ pull.pc = "query" /\ pull'.pc \in {"query", "append"}
         /\ pull'.pc = "query" => pull'.ended = "no"
         /\ pull'.from = pull.from /\ pull'.since = pull.since /\ pull'.missing = pull.missing
         /\ pull'.disturbed = pull.disturbed /\ pull'.checked = pull.checked
         /\ \A p \in pull'.seen : p \in pull.seen \/ (p \in Pages /\ remote[p].place = "active")
         /\ pull'.queue \in Seq(Events)
         /\ pull.queue # <<>> => pull'.queue # <<>> /\ Head(pull'.queue) = Head(pull.queue)
         /\ \A i \in 1..Len(pull.queue) :
              i \in 1..Len(pull'.queue) /\ pull'.queue[i] = pull.queue[i]
         /\ \A i \in 1..Len(pull'.queue) :
              \/ i \in 1..Len(pull.queue) /\ pull'.queue[i] = pull.queue[i]
              \/ /\ i > Len(pull.queue)
                 /\ \/ pull'.queue[i].type = "checkpoint"
                    \/ \E q \in Listed : pull'.queue[i] \in
                         {RowEvent(q), PropertyEvent(q)}
         /\ \A p \in Listed : p <= pull'.cursor \/ pull'.ended = "terminal" =>
              \E i, j \in 1..Len(pull'.queue) :
                /\ pull'.queue[i] = RowEvent(p)
                /\ pull'.queue[j] = PropertyEvent(p)
<1> DEFINE rows == IF Listed = {} THEN {} ELSE {Min(Listed)}
           cursor == IF rows = {} THEN pull.cursor ELSE Min(Listed)
           newest == IF rows = {} THEN pull.newest ELSE Later(pull.newest, remote[cursor].edited)
           grown == IF rows = {} THEN pull.queue ELSE pull.queue \o RowEvents(cursor)
<1>1. pull \in Pull /\ pull.queue \in Seq(Events) /\ Len(pull.queue) \in Nat /\ pull.pc = "query"
  BY PullFields DEF TypeOK, QueryPage
<1>2. PICK ended \in {"no", "terminal", "cut", "capped"} :
        /\ IF Cardinality(Listed) > 1 THEN ended # "terminal" ELSE ended = "terminal"
        /\ pull' = [pull EXCEPT
             !.cursor = cursor, !.newest = newest, !.ended = ended, !.seen = @ \cup rows,
             !.pc = IF ended = "no" THEN @ ELSE "append",
             !.queue = IF ended = "no" THEN grown
                       ELSE Finished(grown, CheckpointEvent(ended, cursor, newest))]
  BY Zenon DEF QueryPage
<1> DEFINE k == CheckpointEvent(ended, cursor, newest)
<1>3. /\ rows \subseteq Listed /\ (rows # {} => rows = {cursor} /\ cursor \in Listed)
      /\ Listed \subseteq Pages /\ \A p \in Listed : cursor <= p
      /\ cursor \in Cursors
  <2>1. Listed \subseteq Pages
    BY DEF Listed
  <2>2. CASE Listed = {}
    BY <2>1, <2>2, PullFields
  <2>3. CASE Listed # {}
    BY <2>1, <2>3, FirstPage DEF Cursors
  <2> QED  BY <2>2, <2>3
<1>4. k.type = "checkpoint" /\ k \in Events
  <2>1. cursor \in Pages => remote[cursor].edited \in Times
    BY RemoteTyped
  <2>2. pull.newest \in Times \cup {0} /\ pull.since \in Times \cup {0}
    BY PullFields
  <2>3. newest \in Times \cup {0}
    <3> HIDE DEF cursor, rows
    <3> QED  BY <1>3, <2>1, <2>2 DEF Later
  <2> HIDE DEF cursor, newest
  <2>4. \A x \in Cursors, n \in Times \cup {0}, w \in {"complete", "incomplete"} :
          /\ Event("checkpoint", x, n, w).type = "checkpoint"
          /\ Event("checkpoint", x, n, w) \in Events
    BY DEF Event, Events, EventSet
  <2>5. 0 \in Cursors
    BY DEF Cursors
  <2> QED  BY <1>3, <2>2, <2>3, <2>4, <2>5 DEF CheckpointEvent
<1> HIDE DEF rows, cursor, newest, k
<1>5. /\ grown \in Seq(Events) /\ Len(grown) \in Nat
      /\ pull.queue # <<>> => grown # <<>> /\ Head(grown) = Head(pull.queue)
      /\ \A i \in 1..Len(pull.queue) : i \in 1..Len(grown) /\ grown[i] = pull.queue[i]
      /\ \A i \in 1..Len(grown) :
           \/ i \in 1..Len(pull.queue) /\ grown[i] = pull.queue[i]
           \/ /\ i > Len(pull.queue)
              /\ \E q \in Listed : grown[i] \in
                   {RowEvent(q), PropertyEvent(q)}
      /\ rows # {} => \E i, j \in 1..Len(grown) :
           /\ grown[i] = RowEvent(cursor)
           /\ grown[j] = PropertyEvent(cursor)
  <2>1. CASE rows = {}
    BY <1>1, <2>1
  <2>2. CASE rows # {}
    <3> DEFINE t == RowEvents(cursor)
               a == RowEvent(cursor)
               b == PropertyEvent(cursor)
               n == Len(pull.queue)
    <3>1. t = <<a, b>> /\ t \in Seq(Events) /\ Len(t) = 2 /\ cursor \in Listed
      BY <1>3, <2>2, RowEventsTyped, ReadEvents
    <3>2. t[1] = a /\ t[2] = b
      <4> HIDE DEF a, b, t
      <4> QED  BY <3>1
    <3>3. grown = pull.queue \o t
      BY <2>2
    <3> HIDE DEF grown, t, a, b
    <3>4. /\ grown \in Seq(Events) /\ Len(grown) = n + 2
          /\ pull.queue # <<>> => grown # <<>> /\ Head(grown) = Head(pull.queue)
          /\ \A i \in 1..n : i \in 1..Len(grown) /\ grown[i] = pull.queue[i]
          /\ \A i \in 1..Len(grown) :
               \/ i \in 1..n /\ grown[i] = pull.queue[i]
               \/ i > n /\ i - n \in 1..2 /\ grown[i] = t[i - n]
      BY <1>1, <3>1, <3>3, QueueGrows
    <3>5. \A i \in 1..Len(grown) :
            \/ i \in 1..n /\ grown[i] = pull.queue[i]
            \/ i > n /\ grown[i] \in {a, b}
      BY <1>1, <3>2, <3>4
    <3>6. /\ n + 1 \in 1..Len(grown) /\ n + 2 \in 1..Len(grown)
          /\ grown[n + 1] = a /\ grown[n + 2] = b
      <4>1. /\ n + 1 \in 1..Len(grown) /\ n + 2 \in 1..Len(grown)
            /\ n + 1 \notin 1..n /\ n + 2 \notin 1..n
            /\ n + 1 - n = 1 /\ n + 2 - n = 2
        BY <1>1, <3>4
      <4> QED  BY <3>2, <3>4, <4>1
    <3> QED  BY <1>1, <3>1, <3>4, <3>5, <3>6 DEF a, b
  <2> QED  BY <2>1, <2>2
<1> HIDE DEF grown
<1> DEFINE q == IF ended = "no" THEN grown ELSE Append(grown, k)
<1>6. /\ q \in Seq(Events)
      /\ \A i \in 1..Len(grown) : i \in 1..Len(q) /\ q[i] = grown[i]
      /\ \A i \in 1..Len(q) :
           \/ i \in 1..Len(grown) /\ q[i] = grown[i]
           \/ i > Len(grown) /\ q[i] = k
      /\ grown # <<>> => q # <<>> /\ Head(q) = Head(grown)
  <2>1. CASE ended = "no"
    BY <1>5, <2>1
  <2>2. CASE ended # "no"
    <3>1. /\ q \in Seq(Events) /\ q # <<>> /\ Len(q) = Len(grown) + 1
          /\ \A i \in 1..Len(grown) : q[i] = grown[i]
          /\ q[Len(grown) + 1] = k
      BY <1>4, <1>5, <2>2, AppendProperties
    <3>2. grown # <<>> => Head(q) = Head(grown)
      BY <1>4, <1>5, <2>2, HeadTailAppend
    <3> HIDE DEF q
    <3> QED  BY <1>5, <3>1, <3>2
  <2> QED  BY <2>1, <2>2
<1>7. Len(pull.queue) <= Len(grown) /\ Len(grown) <= Len(q)
  <2> HIDE DEF q
  <2>1. Len(q) \in Nat
    BY <1>6, LenProperties
  <2>2. Len(pull.queue) = 0 \/ Len(pull.queue) \in 1..Len(pull.queue)
    BY <1>1
  <2>3. Len(grown) = 0 \/ Len(grown) \in 1..Len(grown)
    BY <1>5
  <2> QED  BY <1>1, <1>5, <1>6, <2>1, <2>2, <2>3
<1>8. /\ pull'.queue = q /\ pull'.cursor = cursor /\ pull'.ended = ended
      /\ pull'.seen = pull.seen \cup rows
      /\ pull'.pc = (IF ended = "no" THEN "query" ELSE "append")
      /\ pull'.from = pull.from /\ pull'.since = pull.since /\ pull'.missing = pull.missing
      /\ pull'.disturbed = pull.disturbed /\ pull'.checked = pull.checked
  BY <1>1, <1>2 DEF Pull, Finished, k
<1> HIDE DEF q
<1>9. \A p \in pull'.seen : p \in pull.seen \/ (p \in Pages /\ remote[p].place = "active")
  BY <1>3, <1>8 DEF Listed
<1>10. \A i \in 1..Len(q) :
         \/ i \in 1..Len(pull.queue) /\ q[i] = pull.queue[i]
         \/ /\ i > Len(pull.queue)
            /\ \/ q[i].type = "checkpoint"
               \/ \E x \in Listed : q[i] \in
                    {RowEvent(x), PropertyEvent(x)}
  <2> SUFFICES ASSUME NEW i \in 1..Len(q), ~(i \in 1..Len(pull.queue) /\ q[i] = pull.queue[i])
               PROVE  /\ i > Len(pull.queue)
                      /\ \/ q[i].type = "checkpoint"
                         \/ \E x \in Listed : q[i] \in
                              {RowEvent(x), PropertyEvent(x)}
    OBVIOUS
  <2>1. CASE i \in 1..Len(grown) /\ q[i] = grown[i]
    BY <1>5, <2>1
  <2>2. CASE i > Len(grown) /\ q[i] = k
    BY <1>1, <1>4, <1>5, <1>7, <2>2
  <2> QED  BY <1>6, <2>1, <2>2
<1>11. ASSUME NEW p \in Listed, p <= cursor \/ ended = "terminal"
       PROVE  \E i, j \in 1..Len(q) : /\ q[i] = RowEvent(p)
                                      /\ q[j] = PropertyEvent(p)
  <2>1. rows # {}
    BY DEF rows
  <2>2. p = cursor
    <3>1. CASE ended = "terminal"
      BY <1>2, <1>3, <2>1, <3>1, LastResponse
    <3>2. CASE p <= cursor
      <4>1. p \in Nat /\ cursor \in Nat /\ cursor <= p
        BY <1>3, PullFields
      <4> QED  BY <3>2, <4>1
    <3> QED  BY <1>11, <3>1, <3>2
  <2>3. PICK i, j \in 1..Len(grown) :
           /\ grown[i] = RowEvent(cursor)
           /\ grown[j] = PropertyEvent(cursor)
    BY <1>5, <2>1
  <2> QED  BY <1>6, <2>2, <2>3
<1>12. \A i \in 1..Len(pull.queue) : i \in 1..Len(q) /\ q[i] = pull.queue[i]
  BY <1>5, <1>6
<1> QED  BY <1>1, <1>5, <1>6, <1>8, <1>9, <1>10, <1>11, <1>12

LEMMA AbsenceEventsTwo ==
  ASSUME NEW p, NEW r
  PROVE  /\ 1 \in 1..Len(AbsenceEvents(p, r))
         /\ AbsenceEvents(p, r)[1] = Event("absence", p, 0, r)
         /\ \A i \in 1..Len(AbsenceEvents(p, r)) :
              i = 1 \/ (/\ i = 2 /\ Reason(r) # "none"
                        /\ AbsenceEvents(p, r)[2] = Event("tombstone", p, 0, Reason(r)))
         /\ Reason(r) # "none" => /\ 2 \in 1..Len(AbsenceEvents(p, r))
                                  /\ AbsenceEvents(p, r)[2] = Event("tombstone", p, 0, Reason(r))
<1> DEFINE a == Event("absence", p, 0, r)
           t == Event("tombstone", p, 0, Reason(r))
<1>1. CASE Reason(r) = "none"
  <2>1. AbsenceEvents(p, r) = <<a>> \o <<>>
    BY <1>1 DEF AbsenceEvents
  <2> HIDE DEF a
  <2>2. AbsenceEvents(p, r) = <<a>>
    BY <2>1, ConcatEmptySeq
  <2> QED  BY <1>1, <2>2 DEF a
<1>2. CASE Reason(r) # "none"
  <2>1. AbsenceEvents(p, r) = <<a>> \o <<t>>
    BY <1>2 DEF AbsenceEvents
  <2> HIDE DEF a, t
  <2> DEFINE u == <<a>> \o <<t>>
  <2>2. /\ <<a>> \in Seq({a, t}) /\ <<t>> \in Seq({a, t}) /\ Len(<<a>>) = 1 /\ Len(<<t>>) = 1
        /\ <<a>>[1] = a /\ <<t>>[1] = t
    OBVIOUS
  <2>3. /\ Len(u) = Len(<<a>>) + Len(<<t>>)
        /\ \A i \in 1..Len(<<a>>) + Len(<<t>>) :
             u[i] = IF i <= Len(<<a>>) THEN <<a>>[i] ELSE <<t>>[i - Len(<<a>>)]
    BY <2>2, ConcatProperties
  <2> HIDE DEF u
  <2>4. Len(u) = 2 /\ u[1] = a /\ u[2] = t
    BY <2>2, <2>3
  <2>5. AbsenceEvents(p, r) = u
    BY <2>1 DEF u
  <2>6. /\ \A i \in 1..Len(u) : i = 1 \/ i = 2
        /\ 1 \in 1..Len(u) /\ 2 \in 1..Len(u)
    BY <2>4
  <2>7. /\ 1 \in 1..Len(AbsenceEvents(p, r)) /\ 2 \in 1..Len(AbsenceEvents(p, r))
        /\ AbsenceEvents(p, r)[1] = a /\ AbsenceEvents(p, r)[2] = t
        /\ \A i \in 1..Len(AbsenceEvents(p, r)) : i = 1 \/ i = 2
    BY <2>4, <2>5, <2>6
  <2> QED  BY <1>2, <2>7, Zenon DEF a, t
<1> QED  BY <1>1, <1>2

\* A retrieval queues what it says of the page: an absence and at most one tombstone, of
\* the place the page is in unless the retrieval failed.
LEMMA VerifyEffect ==
  ASSUME TypeOK, ScannedOrAway, Verify
  PROVE  \E p \in pull.missing, r \in Retrievals :
         /\ pull.pc = "verify" /\ pull'.pc \in {"verify", "mark"}
         /\ pull'.pc = "mark" => pull'.missing = {}
         /\ pull'.missing = pull.missing \ {p} /\ p \in Pages
         /\ pull'.from = pull.from /\ pull'.since = pull.since /\ pull'.ended = pull.ended
         /\ pull'.seen = pull.seen /\ pull'.cursor = pull.cursor
         /\ pull'.disturbed = pull.disturbed /\ pull'.checked = pull.checked
         /\ pull.faulty => pull'.faulty
         /\ r = Retrieval(p) \/ (r = "unknown" /\ pull'.faulty)
         /\ pull.queue # <<>> => pull'.queue # <<>> /\ Head(pull'.queue) = Head(pull.queue)
         /\ Len(pull.queue) \in Nat
         /\ \A i \in 1..Len(pull.queue) :
              i \in 1..Len(pull'.queue) /\ pull'.queue[i] = pull.queue[i]
         /\ \A i \in 1..Len(pull'.queue) :
              \/ i \in 1..Len(pull.queue) /\ pull'.queue[i] = pull.queue[i]
              \/ i = Len(pull.queue) + 1 /\ pull'.queue[i] = Event("absence", p, 0, r)
              \/ /\ i = Len(pull.queue) + 2 /\ Reason(r) # "none"
                 /\ pull'.queue[i] = Event("tombstone", p, 0, Reason(r))
         /\ Reason(r) # "none" => TombstoneQueued(p, Reason(r))'
<1> DEFINE n == Len(pull.queue)
<1>1. /\ pull \in Pull /\ pull.queue \in Seq(Events) /\ pull.missing \subseteq Pages
      /\ pull.pc = "verify" /\ n \in Nat
  BY PullFields DEF TypeOK, Verify
<1>2. PICK p \in pull.missing : p = Min(pull.missing) /\ p \in Pages
  BY <1>1, FirstPage DEF ScannedOrAway
<1>3. Retrieval(p) \in Retrievals /\ "unknown" \in Retrievals
  BY <1>2, RemoteTyped DEF Retrieval, Retrievals, Places
<1> DEFINE Found(r, faulty) ==
             pull' = [pull EXCEPT !.missing = @ \ {p}, !.faulty = @ \/ faulty,
                                  !.pc = IF pull.missing = {p} THEN "mark" ELSE @,
                                  !.queue = @ \o AbsenceEvents(p, r)]
<1>4. Found(Retrieval(p), FALSE) \/ Found("unknown", TRUE)
  BY <1>1, <1>2 DEF Verify
<1>5. PICK r \in Retrievals, f \in BOOLEAN :
        (r = Retrieval(p) \/ (r = "unknown" /\ f)) /\ Found(r, f)
  BY <1>3, <1>4
<1> DEFINE t == AbsenceEvents(p, r)
           q == pull.queue \o t
<1>6. /\ q \in Seq(Events)
      /\ pull.queue # <<>> => q # <<>> /\ Head(q) = Head(pull.queue)
      /\ \A i \in 1..n : i \in 1..Len(q) /\ q[i] = pull.queue[i]
      /\ \A i \in 1..Len(q) :
           \/ i \in 1..n /\ q[i] = pull.queue[i]
           \/ i > n /\ i - n \in 1..Len(t) /\ q[i] = t[i - n]
      /\ Len(q) = n + Len(t) /\ Len(t) \in Nat
  <2>1. t \in Seq(Events)
    BY <1>2, AbsenceEventsTyped
  <2>2. Len(t) \in Nat
    BY <2>1, LenProperties
  <2> HIDE DEF t
  <2> QED  BY <1>1, <2>1, <2>2, QueueGrows
<1>7. /\ t[1] = Event("absence", p, 0, r)
      /\ \A i \in 1..Len(t) :
           i = 1 \/ (i = 2 /\ Reason(r) # "none" /\ t[2] = Event("tombstone", p, 0, Reason(r)))
      /\ Reason(r) # "none" => 2 \in 1..Len(t) /\ t[2] = Event("tombstone", p, 0, Reason(r))
  BY AbsenceEventsTwo
<1>8. /\ pull'.queue = q /\ pull'.missing = pull.missing \ {p}
      /\ pull'.pc = (IF pull.missing = {p} THEN "mark" ELSE "verify")
      /\ pull'.from = pull.from /\ pull'.since = pull.since /\ pull'.ended = pull.ended
      /\ pull'.seen = pull.seen /\ pull'.cursor = pull.cursor
      /\ pull'.disturbed = pull.disturbed /\ pull'.checked = pull.checked
      /\ pull'.faulty = (pull.faulty \/ f)
  BY <1>1, <1>5 DEF Pull
<1> HIDE DEF t, q
<1>9. \A i \in 1..Len(q) :
        \/ i \in 1..n /\ q[i] = pull.queue[i]
        \/ i = n + 1 /\ q[i] = Event("absence", p, 0, r)
        \/ i = n + 2 /\ Reason(r) # "none" /\ q[i] = Event("tombstone", p, 0, Reason(r))
  <2> SUFFICES ASSUME NEW i \in 1..Len(q), i > n, i - n \in 1..Len(t), q[i] = t[i - n]
               PROVE  \/ i = n + 1 /\ q[i] = Event("absence", p, 0, r)
                      \/ /\ i = n + 2 /\ Reason(r) # "none"
                         /\ q[i] = Event("tombstone", p, 0, Reason(r))
    BY <1>6
  <2>1. CASE i - n = 1
    BY <1>1, <1>7, <2>1
  <2>2. CASE i - n = 2 /\ Reason(r) # "none"
    BY <1>1, <1>7, <2>2
  <2> QED  BY <1>7, <2>1, <2>2
<1>10. Reason(r) # "none" => TombstoneQueued(p, Reason(r))'
  <2> SUFFICES ASSUME Reason(r) # "none"
               PROVE  \E i \in 1..Len(q) : q[i] = Event("tombstone", p, 0, Reason(r))
    BY <1>8 DEF TombstoneQueued
  <2>1. 2 \in 1..Len(t) /\ t[2] = Event("tombstone", p, 0, Reason(r))
    BY <1>7
  <2>2. n + 2 \in 1..Len(q) /\ n + 2 \notin 1..n /\ n + 2 - n = 2
    BY <1>1, <1>6, <2>1
  <2>3. q[n + 2] = t[2]
    BY <1>6, <2>2
  <2> QED  BY <2>1, <2>2, <2>3
<1>11. pull'.faulty \in BOOLEAN /\ (f \/ pull.faulty => pull'.faulty)
  BY <1>8
<1> WITNESS p \in pull.missing, r \in Retrievals
<1>12. pull'.pc \in {"verify", "mark"} /\ (pull'.pc = "mark" => pull'.missing = {})
  BY <1>8
<1>13. r = Retrieval(p) \/ (r = "unknown" /\ pull'.faulty)
  BY <1>5, <1>11
<1> QED  BY <1>1, <1>2, <1>6, <1>8, <1>9, <1>10, <1>11, <1>12, <1>13

\* The pull after a step of others ...
LEMMA DisturbedPull ==
  ASSUME TypeOK, NEW what \in {"remote", "settlement"}, Disturb(what)
  PROVE  \/ pull' = NoPull
         \/ /\ pull'.disturbed = pull.disturbed \cup {what}
            /\ pull'.pc = pull.pc /\ pull'.queue = pull.queue /\ pull'.missing = pull.missing
            /\ pull'.seen = pull.seen /\ pull'.ended = pull.ended /\ pull'.cursor = pull.cursor
            /\ pull'.from = pull.from /\ pull'.since = pull.since
            /\ pull'.checked = pull.checked /\ pull'.faulty = pull.faulty
            /\ pull.pc \notin {"idle", "done"}
<1>1. pull \in Pull
  BY DEF TypeOK
<1> QED  BY <1>1 DEF Disturb, Pull

\* ... who push and settle only between pulls unless Overlap.
LEMMA PushedBetween ==
  ASSUME ~Overlap, NEW p \in Pages,
         Settle(p) \/ \E c \in {"TrashPage", "RestorePage"} : Push(p, c)
  PROVE  pull' = NoPull
  BY DEF Settle, Push, BetweenPulls, PlacePage, Disturb

LEMMA EmptyPull ==
  /\ NoPull.pc = "idle" /\ NoPull.queue = <<>> /\ NoPull.missing = {} /\ NoPull.seen = {}
  /\ NoPull.ended = "no" /\ ~NoPull.checked /\ NoPull.disturbed = {}
  BY DEF NoPull

LEMMA BeginEffect ==
  ASSUME NEW incremental, Begin(incremental)
  PROVE  /\ pull'.pc = "query" /\ pull'.ended = "no" /\ pull'.cursor = pull'.from
         /\ pull'.queue = <<>> /\ pull'.seen = {} /\ pull'.missing = {}
         /\ ~pull'.checked /\ pull'.disturbed = {}
  BY DEF Begin, NoPull

LEMMA ClassifyEffect ==
  ASSUME TypeOK, Classify
  PROVE  /\ pull.pc = "append" /\ pull'.pc = (IF Missing = {} THEN "mark" ELSE "verify")
         /\ pull'.missing = Missing /\ pull.queue = <<>> /\ pull'.queue = <<>>
         /\ pull'.seen = pull.seen /\ pull'.ended = pull.ended /\ pull'.cursor = pull.cursor
         /\ pull'.from = pull.from /\ pull'.since = pull.since
         /\ pull'.checked = pull.checked /\ pull'.faulty = pull.faulty
         /\ pull'.disturbed = pull.disturbed
<1>1. pull \in Pull
  BY DEF TypeOK
<1> QED  BY <1>1 DEF Classify, Pull

LEMMA CompleteEffect ==
  ASSUME TypeOK, Complete
  PROVE  /\ pull.pc = "mark" /\ pull'.pc = "done" /\ pull.queue = <<>> /\ pull'.queue = <<>>
         /\ pull'.missing = {} /\ pull'.seen = {} /\ pull'.ended = pull.ended
         /\ pull'.from = pull.from /\ pull'.since = pull.since
         /\ ~pull'.checked /\ pull'.faulty = pull.faulty /\ pull'.disturbed = pull.disturbed
<1>1. pull \in Pull
  BY DEF TypeOK
<1> QED  BY <1>1 DEF Complete, NoPull, Pull

LEMMA RaisePull ==
  ASSUME TypeOK, RaiseDivergence
  PROVE  /\ pull'.queue = pull.queue /\ pull'.pc = pull.pc /\ pull'.missing = pull.missing
         /\ pull'.seen = pull.seen /\ pull'.ended = pull.ended /\ pull'.cursor = pull.cursor
         /\ pull'.from = pull.from /\ pull'.since = pull.since /\ pull'.faulty = pull.faulty
         /\ pull'.disturbed = pull.disturbed /\ pull.pc \in {"append", "mark"}
<1>1. pull \in Pull
  BY DEF TypeOK
<1> QED  BY <1>1 DEF RaiseDivergence, Appending, Pull

\* What a step does to the queue.
LEMMA QueueSteps ==
  ASSUME TypeOK, QueuePhases, [Next]_vars
  PROVE  \/ pull'.queue = <<>> /\ (pull'.pc # "verify" => pull'.missing = {})
         \/ pull'.queue = pull.queue /\ pull'.pc = pull.pc /\ pull'.missing = pull.missing
         \/ QueryPage \/ AppendNext \/ Verify
<1>1. TypeOK /\ (pull.pc # "verify" => pull.missing = {})
  BY DEF QueuePhases
<1>2. ASSUME NEW q \in Pages, Edit(q) \/ Move(q) \/ Settle(q)
      PROVE  \/ pull'.queue = <<>> /\ (pull'.pc # "verify" => pull'.missing = {})
             \/ pull'.queue = pull.queue /\ pull'.pc = pull.pc /\ pull'.missing = pull.missing
  <2>1. Disturb("remote") \/ Disturb("settlement")
    BY <1>2 DEF Edit, Move, PlacePage, Settle
  <2> QED  BY <1>1, <2>1, DisturbedPull, EmptyPull
<1>3. ASSUME NEW q \in Pages, NEW c \in {"TrashPage", "RestorePage"}, Push(q, c)
      PROVE  \/ pull'.queue = <<>> /\ (pull'.pc # "verify" => pull'.missing = {})
             \/ pull'.queue = pull.queue /\ pull'.pc = pull.pc /\ pull'.missing = pull.missing
  BY <1>1, <1>3, DisturbedPull, EmptyPull DEF Push, PlacePage
<1>4. ASSUME NEW q \in Pages, NEW w \in {"active", "trash"}, KeepRemote(q, w) \/ KeepLocal(q, w)
      PROVE  \/ pull'.queue = <<>> /\ (pull'.pc # "verify" => pull'.missing = {})
             \/ pull'.queue = pull.queue /\ pull'.pc = pull.pc /\ pull'.missing = pull.missing
  <2>1. Disturb("settlement") \/ pull' = pull
    BY <1>4 DEF KeepRemote, KeepLocal
  <2> QED  BY <1>1, <2>1, DisturbedPull, EmptyPull
<1>5. CASE \E incremental \in BOOLEAN : Begin(incremental)
  BY <1>5, BeginEffect
<1>6. CASE Classify \/ Complete
  BY <1>1, <1>6, ClassifyEffect, CompleteEffect
<1>7. CASE RaiseDivergence
  BY <1>1, <1>7, RaisePull
<1>8. CASE Interrupt
  BY <1>8, EmptyPull DEF Interrupt
<1>9. CASE UNCHANGED vars
  BY <1>9 DEF vars
<1> QED  BY <1>2, <1>3, <1>4, <1>5, <1>6, <1>7, <1>8, <1>9 DEF Next, PullStep

\* The missing pages are those of a classification.
LEMMA PhasesStep ==
  ASSUME Inv, MirrorInv, [Next]_vars
  PROVE  QueuePhases'
<1>1. TypeOK /\ ScannedOrAway /\ QueuePhases
  BY DEF Inv, MirrorInv
<1>2. ASSUME pull'.queue = pull.queue, pull'.pc = pull.pc, pull'.missing = pull.missing
      PROVE  QueuePhases'
  BY <1>1, <1>2 DEF QueuePhases
<1>3. ASSUME pull'.queue = <<>>, pull'.pc # "verify" => pull'.missing = {}
      PROVE  QueuePhases'
  <2>1. Len(pull'.queue) = 0
    BY <1>3
  <2> QED  BY <1>3, <2>1 DEF QueuePhases
<1>4. ASSUME QueryPage
      PROVE  QueuePhases'
  <2> DEFINE new(i) == pull'.queue[i].type \in {"row", "property", "checkpoint"}
  <2>1. \A q \in Listed : q \in Pages
    BY DEF Listed
  <2>2. \A i \in 1..Len(pull'.queue) :
           \/ i \in 1..Len(pull.queue) /\ pull'.queue[i] = pull.queue[i]
           \/ new(i)
    BY <1>1, <1>4, <2>1, QueryPageEffect, ReadEvents
  <2>3. pull.pc = "query" /\ pull'.pc \in {"query", "append"} /\ pull'.missing = pull.missing
    BY <1>1, <1>4, QueryPageEffect
  <2>4. \A i \in 1..Len(pull'.queue) : new(i)
    BY <1>1, <2>2, <2>3 DEF QueuePhases
  <2> QED  BY <1>1, <2>3, <2>4 DEF QueuePhases
<1>5. ASSUME AppendNext
      PROVE  QueuePhases'
  <2>1. /\ pull'.pc = pull.pc /\ pull'.missing = pull.missing
        /\ pull.pc \in {"append", "mark"} /\ Len(pull.queue) \in Nat
        /\ Len(pull'.queue) = Len(pull.queue) - 1
        /\ \A i \in 1..Len(pull'.queue) :
             i + 1 \in 1..Len(pull.queue) /\ pull'.queue[i] = pull.queue[i + 1]
    <3>1. \A n \in Nat : \A k \in 2..n : k \in 1..n
      OBVIOUS
    <3>2. /\ pull'.pc = pull.pc /\ pull'.missing = pull.missing
          /\ pull.pc \in {"append", "mark"} /\ Len(pull.queue) \in Nat
          /\ Len(pull'.queue) = Len(pull.queue) - 1
          /\ \A i \in 1..Len(pull'.queue) :
               i + 1 \in 2..Len(pull.queue) /\ pull'.queue[i] = pull.queue[i + 1]
      BY <1>1, <1>5, AppendNextEffect
    <3> QED  BY <3>1, <3>2
  <2>2. \A i \in 1..Len(pull'.queue) : pull'.queue[i].type \in
          IF pull.pc \in {"query", "append"} THEN {"row", "property", "checkpoint"}
          ELSE {"absence", "tombstone"}
    BY <1>1, <2>1 DEF QueuePhases
  <2>3. ASSUME NEW i \in 1..Len(pull'.queue), NEW j \in 1..Len(pull'.queue),
               pull'.queue[i].type = "tombstone"
        PROVE  /\ pull'.queue[i].page \notin pull'.missing
               /\ (/\ pull'.queue[j].type = "tombstone"
                   /\ pull'.queue[j].page = pull'.queue[i].page) => i = j
    <3>1. /\ pull.queue[i + 1].type = "tombstone" /\ i + 1 \in 1..Len(pull.queue)
          /\ j + 1 \in 1..Len(pull.queue)
      BY <2>1, <2>3
    <3>2. /\ pull.queue[i + 1].page \notin pull.missing
          /\ (/\ pull.queue[j + 1].type = "tombstone"
              /\ pull.queue[j + 1].page = pull.queue[i + 1].page) => i + 1 = j + 1
      BY <1>1, <3>1 DEF QueuePhases
    <3>3. i \in Nat /\ j \in Nat
      BY <2>1
    <3>4. /\ pull'.queue[i] = pull.queue[i + 1] /\ pull'.queue[j] = pull.queue[j + 1]
          /\ pull'.missing = pull.missing
      BY <2>1
    <3>5. i + 1 = j + 1 => i = j
      BY <3>3
    <3> QED  BY <3>2, <3>4, <3>5, Zenon
  <2> QED  BY <1>1, <2>1, <2>2, <2>3 DEF QueuePhases
<1>6. ASSUME Verify
      PROVE  QueuePhases'
  <2>1. PICK p \in pull.missing, r \in Retrievals :
         /\ pull.pc = "verify" /\ pull'.pc \in {"verify", "mark"}
         /\ pull'.pc = "mark" => pull'.missing = {}
         /\ pull'.missing = pull.missing \ {p} /\ Len(pull.queue) \in Nat
         /\ \A i \in 1..Len(pull'.queue) :
              \/ i \in 1..Len(pull.queue) /\ pull'.queue[i] = pull.queue[i]
              \/ i = Len(pull.queue) + 1 /\ pull'.queue[i] = Event("absence", p, 0, r)
              \/ /\ i = Len(pull.queue) + 2 /\ Reason(r) # "none"
                 /\ pull'.queue[i] = Event("tombstone", p, 0, Reason(r))
    BY <1>1, <1>6, VerifyEffect
  <2>2. /\ Event("absence", p, 0, r).type = "absence"
        /\ Event("tombstone", p, 0, Reason(r)).type = "tombstone"
        /\ Event("tombstone", p, 0, Reason(r)).page = p
    BY DEF Event
  <2>3. \A i \in 1..Len(pull.queue) :
           /\ pull.queue[i].type \in {"absence", "tombstone"}
           /\ pull.queue[i].type = "tombstone" => pull.queue[i].page \notin pull.missing
    BY <1>1, <2>1 DEF QueuePhases
  <2>4. \A i \in 1..Len(pull'.queue) : pull'.queue[i].type \in {"absence", "tombstone"}
    BY <2>1, <2>2, <2>3
  <2>5. ASSUME NEW i \in 1..Len(pull'.queue), pull'.queue[i].type = "tombstone"
        PROVE  \/ i \in 1..Len(pull.queue) /\ pull'.queue[i] = pull.queue[i]
               \/ i = Len(pull.queue) + 2 /\ pull'.queue[i].page = p
    BY <2>1, <2>2, <2>5
  <2>6. ASSUME NEW i \in 1..Len(pull'.queue), NEW j \in 1..Len(pull'.queue),
               pull'.queue[i].type = "tombstone"
        PROVE  /\ pull'.queue[i].page \notin pull'.missing
               /\ (/\ pull'.queue[j].type = "tombstone"
                   /\ pull'.queue[j].page = pull'.queue[i].page) => i = j
    <3>1. pull'.queue[i].page \notin pull'.missing
      BY <2>1, <2>3, <2>5, <2>6
    <3>2. ASSUME pull'.queue[j].type = "tombstone", pull'.queue[j].page = pull'.queue[i].page
          PROVE  i = j
      <4>1. CASE /\ i \in 1..Len(pull.queue) /\ pull'.queue[i] = pull.queue[i]
                 /\ j \in 1..Len(pull.queue) /\ pull'.queue[j] = pull.queue[j]
        BY <1>1, <2>6, <3>2, <4>1 DEF QueuePhases
      <4>2. CASE pull'.queue[i].page = p
        <5>1. ~(i \in 1..Len(pull.queue) /\ pull'.queue[i] = pull.queue[i])
          BY <2>3, <2>6, <4>2
        <5>2. ~(j \in 1..Len(pull.queue) /\ pull'.queue[j] = pull.queue[j])
          BY <2>3, <3>2, <4>2
        <5>3. i = Len(pull.queue) + 2 /\ j = Len(pull.queue) + 2
          BY <2>5, <2>6, <3>2, <5>1, <5>2
        <5> QED  BY <5>3
      <4>3. \/ i \in 1..Len(pull.queue) /\ pull'.queue[i] = pull.queue[i]
            \/ pull'.queue[i].page = p
        BY <2>5, <2>6
      <4>4. \/ j \in 1..Len(pull.queue) /\ pull'.queue[j] = pull.queue[j]
            \/ pull'.queue[j].page = p
        BY <2>5, <3>2
      <4> QED  BY <3>2, <4>1, <4>2, <4>3, <4>4
    <3> QED  BY <3>1, <3>2
  <2>7. pull'.pc \notin {"idle", "done", "query", "append"} /\ (pull'.pc # "verify" => pull'.missing = {})
    BY <2>1
  <2> QED  BY <2>4, <2>6, <2>7 DEF QueuePhases
<1> QED  BY <1>1, <1>2, <1>3, <1>4, <1>5, <1>6, QueueSteps

\* A queue that is emptied or stays has no new row or tombstone.
LEMMA QueuedStays ==
  ASSUME pull'.queue = <<>> \/ pull'.queue = pull.queue, NEW p, NEW reason
  PROVE  /\ RowQueued(p)' => RowQueued(p)
         /\ TombstoneQueued(p, reason)' => TombstoneQueued(p, reason)
<1>1. CASE pull'.queue = pull.queue
  BY <1>1 DEF RowQueued, TombstoneQueued
<1>2. CASE pull'.queue = <<>>
  <2>1. 1..Len(pull'.queue) = {}
    BY <1>2
  <2> QED  BY <2>1 DEF RowQueued, TombstoneQueued
<1> QED  BY <1>1, <1>2

LEMMA OvertakenStays ==
  ASSUME NEW p \in Pages, Overtaken(p), remote'[p].place = remote[p].place,
         RowQueued(p)' => RowQueued(p),
         TombstoneQueued(p, "remote_trash")' => TombstoneQueued(p, "remote_trash"),
         db'.target[p] = db.target[p],
         Tombstoned(p, "remote_trash")' => Tombstoned(p, "remote_trash"),
         Tombstoned(p, "moved_out")' => Tombstoned(p, "moved_out"),
         \A w \in {"active", "trash"} :
           db'.conflict[p][w] = db.conflict[p][w] \/ db.conflict[p][w] # "none"
           \/ remote[p].place # "active" \/ ~TombstoneQueued(p, "remote_trash"),
         db.tombstone[p] \in {"moved_out", "unknown"} =>
           db'.tombstone[p] \in {"moved_out", "unknown"}
  PROVE  Overtaken(p)'
  BY DEF Overtaken, Undisputed

\* A page goes for the first time where a queued event, or the log, does not expect it.
LEMMA MoveKeepsOvertaken ==
  ASSUME Inv, MirrorInv, ~Returns, NEW q \in Pages, Move(q), NEW p \in Pages
  PROVE  Overtaken(p)'
<1>1. Overtaken(p) /\ LifecycleTracked(p) /\ TypeOK
  BY DEF Inv, MirrorInv
<1>2. PICK place \in Places \ {remote[q].place} :
        /\ place \notin places[q] \/ FirstDispute(q, place)
        /\ PlacePage(q, place)
  BY DEF Move
<1>3. UNCHANGED <<recorded, db, landed>>
  BY DEF Move
<1>4. remote' = [remote EXCEPT ![q].place = place] /\ Disturb("remote")
  BY <1>2 DEF PlacePage
<1>5. pull'.queue = <<>> \/ pull'.queue = pull.queue
  BY <1>1, <1>4, DisturbedPull, EmptyPull
<1>6. /\ RowQueued(p)' => RowQueued(p)
      /\ TombstoneQueued(p, "remote_trash")' => TombstoneQueued(p, "remote_trash")
  BY <1>5, QueuedStays
<1>7. CASE p # q
  <2>1. remote'[p] = remote[p]
    BY <1>1, <1>4, <1>7 DEF TypeOK
  <2> QED  BY <1>1, <1>3, <1>6, <2>1, OvertakenStays DEF Tombstoned
<1>8. CASE p = q
  <2>1. remote'[p].place = place
    BY <1>1, <1>4, <1>8 DEF TypeOK, RemotePage
  <2>2. \A reason \in {"remote_trash", "moved_out"} : Tombstoned(p, reason) =>
          Sound(Event("tombstone", p, 0, reason))
    BY DEF MirrorInv, DivergenceRaised, Tombstoned
  <2>3. /\ Tombstoned(p, "remote_trash") => "trash" \in places[p]
        /\ Tombstoned(p, "moved_out") => "elsewhere" \in places[p]
    BY <2>2, TombstoneKey DEF Sound
  <2>4. place = "trash" => db.target[p] # "trash" /\ ~Tombstoned(p, "remote_trash")
    BY <1>1, <1>2, <1>8, <2>3 DEF LifecycleTracked, FirstDispute, Tombstoned
  <2>5. place = "active" => db.target[p] = "trash" /\ Undisputed(p)
    BY <1>1, <1>2, <1>8 DEF LifecycleTracked, FirstDispute, Undisputed
  <2>6. place = "elsewhere" => ~Tombstoned(p, "moved_out")
    BY <1>2, <1>8, <2>3 DEF FirstDispute
  <2> QED  BY <1>3, <2>1, <2>4, <2>5, <2>6 DEF Overtaken, Undisputed, Tombstoned
<1> QED  BY <1>7, <1>8

\* Nothing is queued while commands are pushed and settled.
LEMMA PushKeepsOvertaken ==
  ASSUME Inv, MirrorInv, ~Overlap, NEW q \in Pages, NEW p \in Pages,
         Settle(q) \/ \E c \in {"TrashPage", "RestorePage"} : Push(q, c)
  PROVE  Overtaken(p)'
<1>1. Overtaken(p) /\ TypeOK
  BY DEF Inv, MirrorInv
<1>2. pull' = NoPull
  BY PushedBetween
<1>3. 1..Len(pull'.queue) = {}
  BY <1>2, EmptyPull
<1>4. ~RowQueued(p)' /\ ~TombstoneQueued(p, "remote_trash")'
  BY <1>3 DEF RowQueued, TombstoneQueued
<1>5. /\ recorded' = recorded
      /\ remote'[p].place = "elsewhere" => remote[p].place = "elsewhere"
      /\ db.tombstone[p] \in {"moved_out", "unknown"} => db'.tombstone[p] = db.tombstone[p]
  <2>1. CASE Settle(q)
    <3>1. remote' = remote /\ recorded' = recorded
      BY <2>1 DEF Settle
    <3> QED  BY <1>1, <2>1, <3>1, SettleEffect
  <2>2. ASSUME NEW c \in {"TrashPage", "RestorePage"}, Push(q, c)
        PROVE  /\ recorded' = recorded /\ db' = db
               /\ remote'[p].place = "elsewhere" => remote[p].place = "elsewhere"
    <3>1. /\ remote' = [remote EXCEPT ![q].place = Wanted(c)] /\ UNCHANGED <<recorded, db>>
      BY <2>2 DEF Push, PlacePage
    <3>2. remote'[p].place = remote[p].place \/ remote'[p].place = Wanted(c)
      BY <1>1, <3>1 DEF TypeOK, RemotePage
    <3> QED  BY <3>1, <3>2 DEF Wanted
  <2> QED  BY <2>1, <2>2
<1> QED  BY <1>1, <1>4, <1>5 DEF Overtaken, Tombstoned

\* A page in the scan is active, and one found in the trash is there.
LEMMA ReadKeepsOvertaken ==
  ASSUME Inv, MirrorInv, QueryPage \/ Verify, NEW p \in Pages
  PROVE  Overtaken(p)'
<1>1. Overtaken(p) /\ TypeOK /\ ScannedOrAway
  BY DEF Inv, MirrorInv
<1>2. UNCHANGED <<remote, recorded, db, landed, places>>
  BY QuietSteps
<1>3. CASE QueryPage
  <2>1. \A i \in 1..Len(pull'.queue) :
           \/ i \in 1..Len(pull.queue) /\ pull'.queue[i] = pull.queue[i]
           \/ pull'.queue[i].type = "checkpoint"
           \/ \E q \in Listed : pull'.queue[i] \in {RowEvent(q), PropertyEvent(q)}
    BY <1>1, <1>3, QueryPageEffect
  <2>2. \A q \in Listed : /\ q \in Pages /\ remote[q].place = "active"
                          /\ RowEvent(q).page = q /\ RowEvent(q).type = "row"
                          /\ PropertyEvent(q).type = "property"
    BY <1>1, ReadEvents DEF Listed
  <2>3. RowQueued(p)' => RowQueued(p) \/ remote[p].place = "active"
    BY <2>1, <2>2 DEF RowQueued
  <2>4. TombstoneQueued(p, "remote_trash")' => TombstoneQueued(p, "remote_trash")
    BY <2>1, <2>2, TombstoneKey DEF TombstoneQueued
  <2> QED  BY <1>1, <1>2, <2>3, <2>4 DEF Overtaken, Undisputed, Tombstoned
<1>4. CASE Verify
  <2>1. PICK q \in pull.missing, r \in Retrievals :
         /\ q \in Pages /\ (r = Retrieval(q) \/ r = "unknown")
         /\ \A i \in 1..Len(pull'.queue) :
              \/ i \in 1..Len(pull.queue) /\ pull'.queue[i] = pull.queue[i]
              \/ pull'.queue[i] = Event("absence", q, 0, r)
              \/ pull'.queue[i] = Event("tombstone", q, 0, Reason(r))
    BY <1>1, <1>4, VerifyEffect
  <2>2. Reason(r) = "remote_trash" => remote[q].place = "trash"
    BY <1>1, <2>1, RemoteTyped DEF Reason, Retrieval, Retrievals, Places
  <2>3. Event("absence", q, 0, r).type = "absence"
    BY DEF Event
  <2>4. RowQueued(p)' => RowQueued(p)
    BY <2>1, <2>3, TombstoneKey DEF RowQueued
  <2>5. Event("tombstone", q, 0, Reason(r)) = Event("tombstone", p, 0, "remote_trash")
        => p = q /\ Reason(r) = "remote_trash"
    BY DEF Event
  <2>6. TombstoneQueued(p, "remote_trash")' =>
          TombstoneQueued(p, "remote_trash") \/ remote[p].place = "trash"
    BY <2>1, <2>2, <2>3, <2>5, TombstoneKey DEF TombstoneQueued
  <2> QED  BY <1>1, <1>2, <2>4, <2>6 DEF Overtaken, Undisputed, Tombstoned
<1> QED  BY <1>3, <1>4

\* A page with an open conflict is not where a queued tombstone would surprise it.
LEMMA ResolutionKeepsOvertaken ==
  ASSUME Inv, MirrorInv, NEW q \in Pages, NEW v \in {"active", "trash"},
         KeepRemote(q, v) \/ KeepLocal(q, v), NEW p \in Pages
  PROVE  Overtaken(p)'
<1>1. Overtaken(p) /\ TypeOK
  BY DEF Inv, MirrorInv
<1>2. UNCHANGED <<remote, recorded>> /\ db.conflict[q][v] = "open"
  BY DEF KeepRemote, KeepLocal
<1>3. pull'.queue = <<>> \/ pull'.queue = pull.queue
  <2>1. pull' = pull \/ Disturb("settlement")
    BY DEF KeepRemote, KeepLocal
  <2> QED  BY <1>1, <2>1, DisturbedPull, EmptyPull
<1>4. /\ db'.target[p] = db.target[p]
      /\ \A w \in {"active", "trash"} :
           db'.conflict[p][w] = db.conflict[p][w] \/ db.conflict[p][w] # "none"
      /\ db.tombstone[p] # "remote_trash" => db'.tombstone[p] = db.tombstone[p]
  <2>1. CASE KeepRemote(q, v)
    BY <1>1, <1>2, <2>1, KeepRemoteEffect
  <2>2. CASE KeepLocal(q, v)
    BY <1>1, <1>2, <2>2, KeepLocalEffect
  <2> QED  BY <2>1, <2>2
<1> QED  BY <1>1, <1>2, <1>3, <1>4, QueuedStays, OvertakenStays DEF Tombstoned

\* No conflict is raised for a tombstone the page has left behind: it is against the target.
LEMMA RaiseKeepsOvertaken ==
  ASSUME Inv, MirrorInv, RaiseDivergence, NEW p \in Pages
  PROVE  Overtaken(p)'
<1> DEFINE h == Head(pull.queue)
<1>1. Overtaken(p) /\ TypeOK /\ QueuePhases
  BY DEF Inv, MirrorInv
<1>2. pull'.queue = pull.queue /\ remote' = remote
  BY <1>1, RaisePull DEF RaiseDivergence
<1>3. /\ db'.target = db.target /\ h \in Events /\ pull.queue # <<>> /\ pull.queue \in Seq(Events)
      /\ db'.tombstone = db.tombstone
  BY <1>1, RaiseEffect, PullFields
<1>4. \A reason : Tombstoned(p, reason)' => Tombstoned(p, reason)
  BY <1>1, RaiseEffect, TombstoneKey DEF Tombstoned
<1>5. 1 \in 1..Len(pull.queue) /\ pull.queue[1] = h
  <2>1. Len(pull.queue) \in Nat \ {0}
    BY <1>3, EmptySeq
  <2> QED  BY <1>3, <2>1
<1>6. ASSUME NEW w \in {"active", "trash"}, db'.conflict[p][w] # db.conflict[p][w],
             remote[p].place = "active", TombstoneQueued(p, "remote_trash")
      PROVE  FALSE
  <2>1. db.target[p] = "trash"
    BY <1>1, <1>6 DEF Overtaken
  <2>2. h.type = "row"
    BY <1>1, <1>6, <2>1, RaiseEffect
  <2>3. PICK i \in 1..Len(pull.queue) : pull.queue[i] = Event("tombstone", p, 0, "remote_trash")
    BY <1>6 DEF TombstoneQueued
  <2>4. pull.queue[i].type = "tombstone"
    BY <2>3, TombstoneKey
  <2> QED  BY <1>1, <1>5, <2>2, <2>4 DEF QueuePhases
<1> QED  BY <1>1, <1>2, <1>3, <1>4, <1>6, QueuedStays, OvertakenStays

\* A classification queues one tombstone of a page, behind all rows.
LEMMA AppendKeepsOvertaken ==
  ASSUME Inv, MirrorInv, AppendNext, NEW p \in Pages
  PROVE  Overtaken(p)'
<1> DEFINE h == Head(pull.queue)
<1>1. /\ Overtaken(p) /\ TypeOK /\ QueuePhases /\ UNCHANGED remote
      /\ h \in Events /\ AppendEvent(h) /\ h = pull.queue[1] /\ 1 \in 1..Len(pull.queue)
      /\ Len(pull.queue) \in Nat /\ Len(pull'.queue) = Len(pull.queue) - 1
      /\ \A i \in 1..Len(pull'.queue) :
           i + 1 \in 2..Len(pull.queue) /\ pull'.queue[i] = pull.queue[i + 1]
  BY AppendNextEffect DEF Inv, MirrorInv
<1>2. \A i \in 1..Len(pull'.queue) : \E j \in 2..Len(pull.queue) : pull'.queue[i] = pull.queue[j]
  BY <1>1
<1>3. \A j \in 2..Len(pull.queue) : j \in 1..Len(pull.queue) /\ j # 1
  BY <1>1
<1>4. /\ RowQueued(p)' => RowQueued(p)
      /\ TombstoneQueued(p, "remote_trash")' => TombstoneQueued(p, "remote_trash")
  BY <1>2, <1>3 DEF RowQueued, TombstoneQueued
<1>5. h.type # "conflict"
  BY <1>1 DEF QueuePhases
<1>6. db'.target = db.target
      /\ \A w \in {"active", "trash"} : db'.conflict[p][w] = db.conflict[p][w]
  BY <1>1, <1>5, AppendedRow
<1>7. \A reason : Tombstoned(p, reason)' <=>
              Tombstoned(p, reason) \/ h = Event("tombstone", p, 0, reason)
  BY <1>1, AppendedRow
<1>8. CASE h.type # "tombstone" \/ h.page # p
  <2>1. \A reason : Tombstoned(p, reason)' => Tombstoned(p, reason)
    BY <1>7, <1>8, TombstoneKey
  <2>2. \/ db'.tombstone[p] = db.tombstone[p]
        \/ db.tombstone[p] \in {"none", "unclassified"}
    BY <1>1, <1>8, AppendedRow
  <2> QED  BY <1>1, <1>4, <1>6, <2>1, <2>2, OvertakenStays
<1>9. CASE h.type = "tombstone" /\ h.page = p
  <2>1. h = Event("tombstone", p, 0, h.word) /\ h.word \in Reasons
    BY <1>1, <1>9 DEF Events, EventSet, Event
  <2>2. ~RowQueued(p)'
    <3>1. \A i \in 1..Len(pull.queue) : pull.queue[i].type # "row"
      BY <1>1, <1>9 DEF QueuePhases
    <3> QED  BY <1>2, <1>3, <3>1 DEF RowQueued
  <2>3. ~TombstoneQueued(p, "remote_trash")'
    <3>1. \A j \in 2..Len(pull.queue) :
            ~(pull.queue[j].type = "tombstone" /\ pull.queue[j].page = p)
      BY <1>1, <1>3, <1>9 DEF QueuePhases
    <3> QED  BY <1>2, <3>1, TombstoneKey DEF TombstoneQueued
  <2>4. ASSUME remote[p].place = "elsewhere", Tombstoned(p, "moved_out")'
        PROVE  db'.tombstone[p] \in {"moved_out", "unknown"}
    <3>1. CASE h \in recorded
      <4>1. db' = db /\ (h = Event("tombstone", p, 0, "moved_out") => Tombstoned(p, "moved_out"))
        BY <1>1, <1>9, <3>1, AppendedRow DEF Tombstoned
      <4> QED  BY <1>1, <1>7, <2>4, <4>1 DEF Overtaken
    <3>2. CASE h \notin recorded
      <4>1. db'.tombstone[p] = h.word
        BY <1>1, <1>9, <3>2, AppendedRow
      <4>2. CASE h.word = "remote_trash"
        <5>1. TombstoneQueued(p, "remote_trash")
          BY <1>1, <2>1, <4>2 DEF TombstoneQueued
        <5>2. Tombstoned(p, "moved_out")
          BY <1>7, <2>4, <4>2, TombstoneKey
        <5> QED  BY <1>1, <2>4, <5>1, <5>2 DEF Overtaken
      <4> QED  BY <2>1, <4>1, <4>2 DEF Reasons
    <3> QED  BY <3>1, <3>2
  <2> QED  BY <1>1, <2>2, <2>3, <2>4 DEF Overtaken
<1> QED  BY <1>8, <1>9

LEMMA OvertakenStep ==
  ASSUME Inv, MirrorInv, ~Returns, ~Overlap, [Next]_vars, NEW p \in Pages
  PROVE  Overtaken(p)'
<1>1. Overtaken(p) /\ TypeOK /\ QueuePhases
  BY DEF Inv, MirrorInv
<1>2. CASE /\ UNCHANGED <<remote, recorded, db, landed, places>>
           /\ pull'.queue = <<>> \/ pull'.queue = pull.queue
  BY <1>1, <1>2, QueuedStays, OvertakenStays DEF Tombstoned
<1>3. ASSUME NEW q \in Pages, Edit(q)
      PROVE  Overtaken(p)'
  <2>1. UNCHANGED <<recorded, db, landed, places>> /\ Disturb("remote")
    BY <1>3 DEF Edit
  <2>2. remote'[p].place = remote[p].place
    <3>1. PICK v \in Values :
            remote' = [remote EXCEPT ![q].value = v, ![q].edited = Clock + 1]
      BY <1>3 DEF Edit
    <3> QED  BY <1>1, <3>1 DEF TypeOK, RemotePage
  <2>3. pull'.queue = <<>> \/ pull'.queue = pull.queue
    BY <1>1, <2>1, DisturbedPull, EmptyPull
  <2> QED  BY <1>1, <2>1, <2>2, <2>3, QueuedStays, OvertakenStays DEF Tombstoned
<1>4. ASSUME \/ \E incremental \in BOOLEAN : Begin(incremental)
             \/ Classify \/ Complete \/ Interrupt \/ UNCHANGED vars
      PROVE  /\ UNCHANGED <<remote, recorded, db, landed, places>>
             /\ pull'.queue = <<>> \/ pull'.queue = pull.queue
  <2>1. UNCHANGED <<remote, recorded, db, landed, places>>
    BY <1>4, QuietSteps
  <2>2. pull'.queue = <<>> \/ pull'.queue = pull.queue
    BY <1>1, <1>4, BeginEffect, ClassifyEffect, CompleteEffect, EmptyPull DEF Interrupt, vars
  <2> QED  BY <2>1, <2>2
<1> QED
  BY <1>2, <1>3, <1>4, MoveKeepsOvertaken, PushKeepsOvertaken, ReadKeepsOvertaken,
     ResolutionKeepsOvertaken, RaiseKeepsOvertaken, AppendKeepsOvertaken
  DEF Next, PullStep

LEMMA PlacesGrow ==
  ASSUME TypeOK, [Next]_vars, NEW p \in Pages
  PROVE  places[p] \subseteq places'[p]
<1>1. CASE places' = places
  BY <1>1
<1>2. ASSUME NEW q \in Pages, NEW place, PlacePage(q, place)
      PROVE  places[p] \subseteq places'[p]
  BY <1>2 DEF PlacePage, TypeOK
<1>3. ASSUME NEW q \in Pages, Move(q)
      PROVE  places[p] \subseteq places'[p]
  BY <1>2, <1>3 DEF Move
<1>4. ASSUME NEW q \in Pages, NEW c \in {"TrashPage", "RestorePage"}, Push(q, c)
      PROVE  places[p] \subseteq places'[p]
  BY <1>2, <1>4 DEF Push
<1>5. ASSUME NEW q \in Pages, Edit(q) \/ Settle(q) \/ \E w \in {"active", "trash"} :
                                KeepRemote(q, w) \/ KeepLocal(q, w)
      PROVE  places' = places
  BY <1>5 DEF Edit, Settle, KeepRemote, KeepLocal
<1>6. ASSUME RaiseDivergence \/ AppendNext
      PROVE  places' = places
  BY <1>6 DEF RaiseDivergence, AppendNext
<1> QED  BY <1>1, <1>3, <1>4, <1>5, <1>6, QuietSteps DEF Next, PullStep

\* The log tells of places that pages have been in.
LEMMA LogStaysSound ==
  ASSUME Inv, MirrorInv, [Next]_vars
  PROVE  \A e \in recorded' : Sound(e)'
<1>1. TypeOK /\ (\A e \in recorded : Sound(e)) /\ RemoteTracked
  BY DEF Inv, MirrorInv, DivergenceRaised
<1>2. ASSUME NEW e \in Events, Sound(e)
      PROVE  Sound(e)'
  <2>1. e.type \in {"absence", "tombstone"} => e.page \in Pages
    BY EventFields
  <2>2. e.type \in {"absence", "tombstone"} => places[e.page] \subseteq places'[e.page]
    BY <1>1, <2>1, PlacesGrow
  <2>3. e.type = "absence" => Away(e.page)'
    BY <1>1, <1>2, <2>1, <2>2, StaysAway DEF Sound
  <2> QED  BY <1>2, <2>2, <2>3 DEF Sound
<1>3. \A e \in recorded : e \in Events
  BY <1>1 DEF TypeOK
<1>4. CASE recorded' = recorded
  BY <1>1, <1>2, <1>3, <1>4
<1>5. CASE AppendNext
  <2> DEFINE h == Head(pull.queue)
  <2>1. h \in Events /\ AppendEvent(h) /\ h = pull.queue[1] /\ 1 \in 1..Len(pull.queue)
    BY <1>1, <1>5, AppendNextEffect
  <2>2. Sound(h)
    BY <2>1 DEF Inv, QueueSound
  <2>3. /\ Key(h) \in Events /\ Key(h).type = h.type /\ Key(h).page = h.page
        /\ Key(h).word = h.word
    BY <2>1, KeyTyped
  <2>4. Sound(Key(h))
    BY <2>2, <2>3 DEF Sound
  <2>5. \A e \in recorded' : e \in recorded \/ e = Key(h)
    BY <2>1 DEF AppendEvent
  <2> QED  BY <1>1, <1>2, <1>3, <2>3, <2>4, <2>5
<1>6. CASE RaiseDivergence
  <2>1. \A e \in recorded' : e \in recorded \/ e.type = "conflict"
    <3>1. CASE Pages # {}
      BY <1>1, <1>6, <3>1, RaiseEffect
    <3>2. CASE Pages = {}
      <4>1. Head(pull.queue).type \in {"row", "tombstone"} /\ Head(pull.queue) \in Events
        <5>1. pull.queue \in Seq(Events) /\ pull.queue # <<>>
          BY <1>1, <1>6, PullFields DEF RaiseDivergence, Appending
        <5> QED  BY <1>6, <5>1, HeadTailProperties DEF RaiseDivergence
      <4> QED  BY <3>2, <4>1, EventFields
    <3> QED  BY <3>1, <3>2
  <2> QED  BY <1>1, <1>2, <1>3, <2>1 DEF Sound
<1>7. ASSUME NEW q \in Pages, \/ Edit(q) \/ Settle(q) \/ Move(q)
                              \/ \E w \in {"active", "trash"} : KeepRemote(q, w) \/ KeepLocal(q, w)
                              \/ \E c \in {"TrashPage", "RestorePage"} : Push(q, c)
      PROVE  recorded' = recorded
  BY <1>7 DEF Edit, Settle, Move, Push, KeepRemote, KeepLocal
<1> QED  BY <1>4, <1>5, <1>6, <1>7, QuietSteps DEF Next, PullStep

\* The divergence of the head of the queue stays raised, as settlements come between pulls.
LEMMA DivergenceStays ==
  ASSUME Inv, MirrorInv, pull'.checked, pull.checked,
         pull'.queue # <<>> => Head(pull'.queue) = Head(pull.queue),
         pull'.queue # <<>>, db'.target = db.target,
         \A p \in Pages, w \in {"active", "trash"} :
           db.conflict[p][w] # "none" => db'.conflict[p][w] # "none"
  PROVE  (\A e \in Divergence(Head(pull.queue)) : db.conflict[e.page][e.word] # "none")'
<1>1. Head(pull'.queue) = Head(pull.queue) /\ pull.queue \in Seq(Events) /\ pull.queue # <<>>
  BY PullFields DEF Inv, ConflictsRaised
<1>2. Head(pull.queue) \in Events
  BY <1>1, HeadTailProperties
<1>3. Divergence(Head(pull.queue))' = Divergence(Head(pull.queue))
  BY <1>1 DEF Divergence
<1>4. \A e \in Divergence(Head(pull.queue)) :
        /\ db.conflict[e.page][e.word] # "none"
        /\ e.page \in Pages /\ e.word \in {"active", "trash"}
  BY <1>2, DivergenceTyped DEF MirrorInv, DivergenceRaised
<1> QED  BY <1>3, <1>4

LEMMA DivergenceStep ==
  ASSUME Inv, MirrorInv, ~Overlap, [Next]_vars
  PROVE  DivergenceRaised'
<1> DEFINE Raised == \A e \in Divergence(Head(pull.queue)) : db.conflict[e.page][e.word] # "none"
<1>1. TypeOK /\ ConflictsRaised /\ RowsCovered /\ (pull.checked => Raised)
      /\ (pull.checked => pull.queue # <<>>)
  BY DEF Inv, MirrorInv, DivergenceRaised, ConflictsRaised
<1>2. ASSUME NEW what \in {"remote", "settlement"}, Disturb(what), pull'.checked
      PROVE  pull.checked /\ pull'.queue = pull.queue /\ pull'.queue # <<>>
  BY <1>1, <1>2, DisturbedPull, EmptyPull
<1>3. ASSUME NEW q \in Pages, Edit(q) \/ Move(q), pull'.checked
      PROVE  Raised'
  <2>1. Disturb("remote") /\ db' = db
    BY <1>3 DEF Edit, Move, PlacePage
  <2> QED  BY <1>1, <1>2, <1>3, <2>1, DivergenceStays
<1>4. ASSUME NEW q \in Pages, Settle(q) \/ \E c \in {"TrashPage", "RestorePage"} : Push(q, c)
      PROVE  ~pull'.checked
  BY <1>4, PushedBetween, EmptyPull
<1>5. ASSUME NEW q \in Pages, NEW w \in {"active", "trash"}, KeepRemote(q, w), pull'.checked
      PROVE  Raised'
  <2>1. Disturb("settlement") /\ db' = [db' EXCEPT !.target = db'.target]
        /\ db'.target = db.target
    BY <1>1, <1>5 DEF KeepRemote, TypeOK, Projection
  <2>2. \A p \in Pages, v \in {"active", "trash"} :
           db.conflict[p][v] # "none" => db'.conflict[p][v] # "none"
    BY <1>1, <1>5, KeepRemoteEffect
  <2> QED  BY <1>1, <1>2, <1>5, <2>1, <2>2, DivergenceStays
<1>6. ASSUME NEW q \in Pages, NEW w \in {"active", "trash"}, KeepLocal(q, w), pull'.checked
      PROVE  Raised'
  <2>1. pull' = pull /\ db'.target = db.target
    BY <1>1, <1>6, KeepLocalEffect DEF KeepLocal
  <2>2. \A p \in Pages, v \in {"active", "trash"} :
           db.conflict[p][v] # "none" => db'.conflict[p][v] # "none"
    BY <1>1, <1>6, KeepLocalEffect
  <2> QED  BY <1>1, <1>6, <2>1, <2>2, DivergenceStays
<1>7. ASSUME QueryPage \/ Verify, pull'.checked
      PROVE  Raised'
  <2>1. db' = db
    BY <1>7, QuietSteps
  <2>2. /\ pull.checked
        /\ pull.queue # <<>> => pull'.queue # <<>> /\ Head(pull'.queue) = Head(pull.queue)
    <3>1. CASE QueryPage
      BY <1>1, <1>7, <3>1, QueryPageEffect
    <3>2. CASE Verify
      BY <1>1, <1>7, <3>2, VerifyEffect DEF Inv
    <3> QED  BY <1>7, <3>1, <3>2
  <2> QED  BY <1>1, <1>7, <2>1, <2>2, DivergenceStays
<1>8. ASSUME RaiseDivergence
      PROVE  Raised'
  <2> DEFINE h == Head(pull.queue)
  <2>1. pull'.queue = pull.queue /\ pull.queue \in Seq(Events) /\ pull.queue # <<>>
    BY <1>1, <1>8, RaisePull, PullFields DEF RaiseDivergence, Appending
  <2>2. h \in Events
    BY <2>1, HeadTailProperties
  <2>3. CASE Divergence(h) = {}
    <3>1. db' = db
      BY <1>8, <2>3 DEF RaiseDivergence
    <3>2. Divergence(Head(pull.queue))' = {}
      BY <2>1, <2>3, <3>1 DEF Divergence
    <3> QED  BY <3>2
  <2>4. CASE Divergence(h) # {}
    <3>1. PICK e \in Divergence(h) : AppendEvent(e)
      BY <1>8, <2>4 DEF RaiseDivergence
    <3>2. e \in Events /\ e.type = "conflict" /\ Divergence(h) = {e}
      BY <2>2, <3>1, DivergenceTyped
    <3>3. db'.target = db.target /\ db'.conflict[e.page][e.word] # "none"
      BY <1>1, <3>1, <3>2, AppendEffect
    <3>4. Divergence(Head(pull.queue))' = {e}
      BY <2>1, <3>2, <3>3 DEF Divergence
    <3> QED  BY <3>3, <3>4
  <2> QED  BY <2>3, <2>4
<1>9. ASSUME \/ \E incremental \in BOOLEAN : Begin(incremental)
             \/ AppendNext \/ Classify \/ Complete \/ Interrupt
      PROVE  ~pull'.checked
  BY <1>1, <1>9, BeginEffect, AppendNextEffect, ClassifyEffect, CompleteEffect, EmptyPull
  DEF Interrupt
<1>10. ASSUME UNCHANGED vars, pull'.checked
       PROVE  Raised'
  BY <1>1, <1>10, DivergenceStays DEF vars
<1>11. pull'.checked => Raised'
  BY <1>3, <1>4, <1>5, <1>6, <1>7, <1>8, <1>9, <1>10 DEF Next, PullStep
<1> QED  BY <1>11, LogStaysSound DEF DivergenceRaised

LEMMA ValuesTyped ==
  ASSUME TypeOK
  PROVE  /\ \A p \in Pages : \A type : Projected(type, p) \in Nat /\ remote[p].value \in Nat
         /\ \A e \in Events : e.type \in {"row", "property"} => e.page \in Pages /\ e.number \in Nat
         /\ \A i \in 1..Len(pull.queue) : pull.queue[i] \in Events
         /\ Len(pull.queue) \in Nat
<1>1. Values \subseteq Nat
  BY ObservationAssumption DEF Values
<1>2. \A p \in Pages : \A type : Projected(type, p) \in Nat
  <2>1. \A p \in Pages : db.row[p].value \in Values \cup {0} /\ db.shadow[p] \in Values \cup {0}
    BY DEF TypeOK, Projection
  <2>2. \A n \in Values \cup {0} : n \in Nat
    BY <1>1
  <2> QED  BY <2>1, <2>2, Zenon DEF Projected
<1>3. \A p \in Pages : remote[p].value \in Nat
  BY <1>1, RemoteTyped
<1>4. \A e \in Events : e.type \in {"row", "property"} => e.page \in Pages /\ e.number \in Nat
  BY <1>1, EventFields
<1>5. pull.queue \in Seq(Events)
  BY PullFields
<1>6. Len(pull.queue) \in Nat /\ \A i \in 1..Len(pull.queue) : pull.queue[i] \in Events
  BY <1>5, LenProperties, ElementOfSeq
<1> QED  BY <1>2, <1>3, <1>4, <1>6

\* A step that adds no content to the log, the projection or the queue.
LEMMA ValuesStay ==
  ASSUME TypeOK, ValuesGrow,
         \A p \in Pages : /\ db'.row[p].value = db.row[p].value /\ db'.shadow[p] = db.shadow[p]
                          /\ remote[p].value <= remote'[p].value /\ remote'[p].value \in Nat,
         \A e \in recorded' : e \in recorded \/ e.type \notin {"row", "property"},
         \A i \in 1..Len(pull'.queue) :
           \/ i \in 1..Len(pull.queue) /\ pull'.queue[i] = pull.queue[i]
           \/ pull'.queue[i].type \notin {"row", "property"}
  PROVE  ValuesGrow'
<1>1. \A p \in Pages : \A type : Projected(type, p)' = Projected(type, p)
  BY DEF Projected
<1>2. \A e \in recorded : e.type \in {"row", "property"} => e.page \in Pages
  BY ValuesTyped DEF TypeOK
<1>3. \A p \in Pages, type \in {"row", "property"} : Projected(type, p)' <= remote'[p].value
  <2> SUFFICES ASSUME NEW p \in Pages, NEW type \in {"row", "property"}
               PROVE  Projected(type, p)' <= remote'[p].value
    OBVIOUS
  <2>1. Projected(type, p) <= remote[p].value /\ remote[p].value <= remote'[p].value
    BY DEF ValuesGrow
  <2>2. Projected(type, p) \in Nat /\ remote[p].value \in Nat /\ remote'[p].value \in Nat
    BY ValuesTyped
  <2> QED  BY <1>1, <2>1, <2>2
<1>4. \A e \in recorded' : e.type \in {"row", "property"} =>
        e.number <= Projected(e.type, e.page)'
  BY <1>1, <1>2 DEF ValuesGrow
<1>5. ASSUME NEW i \in 1..Len(pull'.queue), pull'.queue[i].type \in {"row", "property"}
      PROVE  (/\ Projected(pull.queue[i].type, pull.queue[i].page) <= pull.queue[i].number
              /\ pull.queue[i].number <= remote[pull.queue[i].page].value
              /\ \A j \in i..Len(pull.queue) :
                   /\ pull.queue[j].type = pull.queue[i].type
                   /\ pull.queue[j].page = pull.queue[i].page
                   => pull.queue[i].number <= pull.queue[j].number)'
  <2>1. i \in 1..Len(pull.queue) /\ pull'.queue[i] = pull.queue[i]
    BY <1>5
  <2> PICK e \in Events : e = pull.queue[i]
    BY <2>1, ValuesTyped
  <2>2. /\ e.type \in {"row", "property"} /\ e.page \in Pages /\ e.number \in Nat
        /\ remote[e.page].value \in Nat /\ pull'.queue[i] = e
    BY <1>5, <2>1, ValuesTyped
  <2>3. /\ Projected(e.type, e.page) <= e.number /\ e.number <= remote[e.page].value
        /\ \A j \in i..Len(pull.queue) :
             /\ pull.queue[j].type = e.type
             /\ pull.queue[j].page = e.page
             => e.number <= pull.queue[j].number
    BY <2>1, <2>2 DEF ValuesGrow
  <2>4. Projected(e.type, e.page)' <= e.number
    BY <1>1, <2>2, <2>3
  <2>5. e.number <= remote'[e.page].value
    <3>1. remote[e.page].value <= remote'[e.page].value /\ remote'[e.page].value \in Nat
      BY <2>2
    <3> QED  BY <2>2, <2>3, <3>1
  <2>6. ASSUME NEW j \in i..Len(pull'.queue),
               pull'.queue[j].type = e.type, pull'.queue[j].page = e.page
        PROVE  e.number <= pull'.queue[j].number
    <3>1. j \in 1..Len(pull'.queue)
      BY <2>1
    <3>2. j \in 1..Len(pull.queue) /\ pull'.queue[j] = pull.queue[j]
      BY <2>2, <2>6, <3>1
    <3>3. j \in i..Len(pull.queue)
      BY <3>2
    <3> QED  BY <2>3, <2>6, <3>2, <3>3
  <2> QED  BY <2>2, <2>4, <2>5, <2>6
<1> QED  BY <1>3, <1>4, <1>5 DEF ValuesGrow

\* A response queues the present content behind older ones.
LEMMA QueryPageValues ==
  ASSUME Inv, MirrorInv, QueryPage
  PROVE  ValuesGrow'
<1>1. TypeOK /\ ValuesGrow
  BY DEF Inv, MirrorInv
<1>2. UNCHANGED <<remote, recorded, db, landed, places>>
  BY QuietSteps
<1>3. \A p \in Pages : \A type : Projected(type, p)' = Projected(type, p)
  BY <1>2 DEF Projected
<1>4. \A i \in 1..Len(pull'.queue) :
           \/ i \in 1..Len(pull.queue) /\ pull'.queue[i] = pull.queue[i]
           \/ /\ i > Len(pull.queue)
              /\ \/ pull'.queue[i].type = "checkpoint"
                 \/ \E q \in Listed : pull'.queue[i] \in {RowEvent(q), PropertyEvent(q)}
  BY <1>1, QueryPageEffect
<1>5. Listed \subseteq Pages
  BY DEF Listed
<1>6. \A i \in 1..Len(pull'.queue) : pull'.queue[i].type \in {"row", "property"} =>
           \/ i \in 1..Len(pull.queue) /\ pull'.queue[i] = pull.queue[i]
           \/ /\ i > Len(pull.queue) /\ pull'.queue[i] \in Events
              /\ pull'.queue[i].number = remote[pull'.queue[i].page].value
  BY <1>1, <1>4, <1>5, ReadEvents
<1>7. ASSUME NEW i \in 1..Len(pull'.queue), pull'.queue[i].type \in {"row", "property"}
      PROVE  (/\ Projected(pull.queue[i].type, pull.queue[i].page) <= pull.queue[i].number
              /\ pull.queue[i].number <= remote[pull.queue[i].page].value
              /\ \A j \in i..Len(pull.queue) :
                   /\ pull.queue[j].type = pull.queue[i].type
                   /\ pull.queue[j].page = pull.queue[i].page
                   => pull.queue[i].number <= pull.queue[j].number)'
  <2> PICK e \in Events : e = pull'.queue[i]
    BY <1>1, <1>6, <1>7, ValuesTyped
  <2>1. /\ e.type \in {"row", "property"} /\ e.page \in Pages /\ e.number \in Nat
        /\ remote[e.page].value \in Nat /\ Projected(e.type, e.page) \in Nat
    BY <1>1, <1>7, ValuesTyped
  <2>2. Projected(e.type, e.page) <= remote[e.page].value
    BY <1>1, <2>1 DEF ValuesGrow
  <2>3. Projected(e.type, e.page) <= e.number /\ e.number <= remote[e.page].value
    <3>1. CASE i \in 1..Len(pull.queue) /\ e = pull.queue[i]
      BY <1>1, <2>1, <3>1 DEF ValuesGrow
    <3>2. CASE e.number = remote[e.page].value
      BY <2>1, <2>2, <3>2
    <3> QED  BY <1>6, <2>1, <3>1, <3>2
  <2>4. ASSUME NEW j \in i..Len(pull'.queue),
               pull'.queue[j].type = e.type, pull'.queue[j].page = e.page
        PROVE  e.number <= pull'.queue[j].number
    <3>1. j \in 1..Len(pull'.queue) /\ i \in Nat /\ Len(pull.queue) \in Nat
      BY <1>1, ValuesTyped
    <3>2. CASE j \in 1..Len(pull.queue) /\ pull'.queue[j] = pull.queue[j]
      <4>1. i \in 1..Len(pull.queue) /\ j \in i..Len(pull.queue)
        BY <3>1, <3>2
      <4>2. e = pull.queue[i]
        BY <1>6, <2>1, <3>1, <4>1
      <4> QED  BY <1>1, <2>1, <2>4, <3>2, <4>1, <4>2 DEF ValuesGrow
    <3>3. CASE pull'.queue[j].number = remote[pull'.queue[j].page].value
      BY <2>3, <2>4, <3>3
    <3> QED  BY <1>6, <2>1, <2>4, <3>1, <3>2, <3>3
  <2> QED  BY <1>2, <1>3, <2>1, <2>3, <2>4
<1>8. \A p \in Pages, type \in {"row", "property"} : Projected(type, p)' <= remote'[p].value
  BY <1>1, <1>2, <1>3 DEF ValuesGrow
<1>9. \A e \in recorded' : e.type \in {"row", "property"} =>
        e.number <= Projected(e.type, e.page)'
  <2>1. \A e \in recorded : e.type \in {"row", "property"} => e.page \in Pages
    BY <1>1, ValuesTyped DEF TypeOK
  <2> QED  BY <1>1, <1>2, <1>3, <2>1 DEF ValuesGrow
<1> QED  BY <1>7, <1>8, <1>9 DEF ValuesGrow

\* An append moves the projection up to what is queued behind it at most.
LEMMA AppendValues ==
  ASSUME Inv, MirrorInv, AppendNext
  PROVE  ValuesGrow'
<1>1. TypeOK /\ ValuesGrow
  BY DEF Inv, MirrorInv
<1> PICK h \in Events : h = Head(pull.queue)
  BY <1>1, AppendNextEffect
<1>2. /\ AppendEvent(h) /\ h = pull.queue[1] /\ 1 \in 1..Len(pull.queue)
      /\ Len(pull.queue) \in Nat /\ Len(pull'.queue) = Len(pull.queue) - 1
      /\ \A i \in 1..Len(pull'.queue) :
           i + 1 \in 2..Len(pull.queue) /\ pull'.queue[i] = pull.queue[i + 1]
      /\ UNCHANGED <<remote, landed, places>>
  BY <1>1, AppendNextEffect
<1> DEFINE Fresh == h.type \in {"row", "property"} /\ h \notin recorded
<1>3. \A p \in Pages, type \in {"row", "property"} :
        Projected(type, p)' = IF Fresh /\ h.type = type /\ h.page = p
                              THEN h.number ELSE Projected(type, p)
  <2> SUFFICES ASSUME NEW p \in Pages
               PROVE  /\ db'.row[p].value = IF Fresh /\ h.type = "row" /\ h.page = p
                                            THEN h.number ELSE db.row[p].value
                      /\ db'.shadow[p] = IF Fresh /\ h.type = "property" /\ h.page = p
                                         THEN h.number ELSE db.shadow[p]
    BY DEF Projected
  <2> QED  BY <1>1, <1>2, AppendedRow
<1>4. Fresh => /\ h.page \in Pages /\ h.number \in Nat
               /\ Projected(h.type, h.page) <= h.number /\ h.number <= remote[h.page].value
               /\ \A j \in 1..Len(pull.queue) :
                    /\ pull.queue[j].type = h.type
                    /\ pull.queue[j].page = h.page
                    => h.number <= pull.queue[j].number
  BY <1>1, <1>2, ValuesTyped DEF ValuesGrow
<1>5. \A p \in Pages, type \in {"row", "property"} :
        /\ Projected(type, p) <= Projected(type, p)' /\ Projected(type, p)' <= remote[p].value
        /\ Projected(type, p) \in Nat /\ Projected(type, p)' \in Nat
  <2> SUFFICES ASSUME NEW p \in Pages, NEW type \in {"row", "property"}
               PROVE  /\ Projected(type, p) <= Projected(type, p)'
                      /\ Projected(type, p)' <= remote[p].value
                      /\ Projected(type, p) \in Nat /\ Projected(type, p)' \in Nat
    OBVIOUS
  <2>1. Projected(type, p) \in Nat /\ Projected(type, p) <= remote[p].value
    BY <1>1, ValuesTyped DEF ValuesGrow
  <2> QED  BY <1>3, <1>4, <2>1
<1>6. \A e \in recorded' : e.type \in {"row", "property"} =>
        e.number <= Projected(e.type, e.page)'
  <2> SUFFICES ASSUME NEW e \in recorded', e.type \in {"row", "property"}
               PROVE  e.number <= Projected(e.type, e.page)'
    OBVIOUS
  <2>1. CASE e \in recorded
    <3>1. e.page \in Pages /\ e.number \in Nat /\ e.number <= Projected(e.type, e.page)
      BY <1>1, <2>1, ValuesTyped DEF ValuesGrow, TypeOK
    <3> QED  BY <1>5, <3>1
  <2>2. CASE e \notin recorded
    <3>1. e = Key(h) /\ h.type = e.type
      BY <1>2, <2>2, KeyTyped DEF AppendEvent
    <3>2. e = h
      BY <3>1 DEF Key
    <3>3. Fresh /\ h.page \in Pages
      BY <1>4, <2>2, <3>2
    <3>4. Projected(h.type, h.page)' = h.number
      BY <1>3, <3>3
    <3> QED  BY <1>4, <3>2, <3>3, <3>4
  <2> QED  BY <2>1, <2>2
<1>7. ASSUME NEW i \in 1..Len(pull'.queue), pull'.queue[i].type \in {"row", "property"}
      PROVE  (/\ Projected(pull.queue[i].type, pull.queue[i].page) <= pull.queue[i].number
              /\ pull.queue[i].number <= remote[pull.queue[i].page].value
              /\ \A j \in i..Len(pull.queue) :
                   /\ pull.queue[j].type = pull.queue[i].type
                   /\ pull.queue[j].page = pull.queue[i].page
                   => pull.queue[i].number <= pull.queue[j].number)'
  <2> DEFINE k == i + 1
  <2>1. k \in 1..Len(pull.queue) /\ pull'.queue[i] = pull.queue[k]
    <3>1. k \in 2..Len(pull.queue) /\ pull'.queue[i] = pull.queue[k]
      BY <1>2
    <3> HIDE DEF k
    <3> QED  BY <1>2, <3>1
  <2>2. \A j \in i..Len(pull'.queue) :
          j + 1 \in k..Len(pull.queue) /\ pull'.queue[j] = pull.queue[j + 1]
    BY <1>2
  <2> HIDE DEF k
  <2> PICK e \in Events : e = pull.queue[k]
    BY <1>1, <2>1, ValuesTyped
  <2>3. /\ e.type \in {"row", "property"} /\ e.page \in Pages /\ e.number \in Nat
        /\ pull'.queue[i] = e
    BY <1>1, <1>7, <2>1, ValuesTyped
  <2>4. /\ Projected(e.type, e.page) <= e.number /\ e.number <= remote[e.page].value
        /\ \A j \in k..Len(pull.queue) :
             /\ pull.queue[j].type = e.type
             /\ pull.queue[j].page = e.page
             => e.number <= pull.queue[j].number
    BY <1>1, <2>1, <2>3 DEF ValuesGrow
  <2>5. Projected(e.type, e.page)' <= e.number
    <3>1. CASE Fresh /\ h.type = e.type /\ h.page = e.page
      <4>1. Projected(e.type, e.page)' = h.number
        BY <1>3, <2>3, <3>1
      <4>2. h.number <= e.number
        BY <1>4, <2>1, <3>1
      <4> QED  BY <4>1, <4>2
    <3>2. CASE ~(Fresh /\ h.type = e.type /\ h.page = e.page)
      BY <1>3, <2>3, <2>4, <3>2
    <3> QED  BY <3>1, <3>2
  <2>6. \A j \in i..Len(pull'.queue) :
          /\ pull'.queue[j].type = e.type
          /\ pull'.queue[j].page = e.page
          => e.number <= pull'.queue[j].number
    BY <2>2, <2>4
  <2> QED  BY <1>2, <2>3, <2>4, <2>5, <2>6
<1>8. \A p \in Pages, type \in {"row", "property"} : Projected(type, p)' <= remote'[p].value
  BY <1>2, <1>5
<1> QED  BY <1>6, <1>7, <1>8 DEF ValuesGrow

LEMMA ValuesStep ==
  ASSUME Inv, MirrorInv, ~Returns, [Next]_vars
  PROVE  ValuesGrow'
<1>1. TypeOK /\ ValuesGrow /\ QueuePhases
  BY DEF Inv, MirrorInv
<1> DEFINE SameQueue == \A i \in 1..Len(pull'.queue) :
             \/ i \in 1..Len(pull.queue) /\ pull'.queue[i] = pull.queue[i]
             \/ pull'.queue[i].type \notin {"row", "property"}
           SameValues == \A p \in Pages :
             /\ db'.row[p].value = db.row[p].value /\ db'.shadow[p] = db.shadow[p]
             /\ remote[p].value <= remote'[p].value /\ remote'[p].value \in Nat
           SameLog == \A e \in recorded' : e \in recorded \/ e.type \notin {"row", "property"}
<1>2. SameValues /\ SameQueue /\ SameLog => ValuesGrow'
  BY <1>1, ValuesStay
<1>3. pull'.queue = <<>> \/ pull'.queue = pull.queue => SameQueue
  <2>1. CASE pull'.queue = <<>>
    <3>1. 1..Len(pull'.queue) = {}
      BY <2>1
    <3> QED  BY <3>1
  <2> QED  BY <2>1
<1>4. SameQueue \/ QueryPage \/ AppendNext
  <2>1. ASSUME Verify
        PROVE  SameQueue
    <3>1. PICK q \in pull.missing, r \in Retrievals :
           \A i \in 1..Len(pull'.queue) :
              \/ i \in 1..Len(pull.queue) /\ pull'.queue[i] = pull.queue[i]
              \/ pull'.queue[i] = Event("absence", q, 0, r)
              \/ pull'.queue[i] = Event("tombstone", q, 0, Reason(r))
      BY <2>1, VerifyEffect DEF Inv
    <3>2. Event("absence", q, 0, r).type = "absence"
      BY DEF Event
    <3> QED  BY <3>1, <3>2, TombstoneKey
  <2> QED  BY <1>1, <1>3, <2>1, QueueSteps
<1>5. ASSUME remote' = remote,
             \A p \in Pages : /\ db'.row[p].value = db.row[p].value
                              /\ db'.shadow[p] = db.shadow[p]
      PROVE  SameValues
  BY <1>1, <1>5, ValuesTyped
<1>6. ASSUME db' = db, \A p \in Pages : remote'[p].value = remote[p].value
      PROVE  SameValues
  BY <1>1, <1>6, ValuesTyped
<1>7. ASSUME NEW q \in Pages, NEW place, PlacePage(q, place)
      PROVE  \A p \in Pages : remote'[p].value = remote[p].value
  BY <1>1, <1>7 DEF PlacePage, TypeOK, RemotePage
<1>8. ASSUME NEW q \in Pages, Edit(q)
      PROVE  SameValues /\ recorded' = recorded
  <2>1. PICK v \in Values : /\ v = remote[q].value + 1
                            /\ remote' = [remote EXCEPT ![q].value = v, ![q].edited = Clock + 1]
    BY <1>8 DEF Edit
  <2>2. \A p \in Pages : /\ p = q => remote'[p].value = v
                         /\ p # q => remote'[p] = remote[p]
    BY <1>1, <2>1 DEF TypeOK, RemotePage
  <2>3. v \in Nat
    BY ObservationAssumption DEF Values
  <2>4. \A p \in Pages : remote[p].value <= remote'[p].value /\ remote'[p].value \in Nat
    <3> SUFFICES ASSUME NEW p \in Pages
                 PROVE  remote[p].value <= remote'[p].value /\ remote'[p].value \in Nat
      OBVIOUS
    <3>1. remote[p].value \in Nat /\ remote[q].value \in Nat
      BY <1>1, ValuesTyped
    <3>2. CASE p = q
      <4>1. remote'[p].value = v /\ v = remote[p].value + 1
        BY <2>1, <2>2, <3>2
      <4> QED  BY <2>3, <3>1, <4>1
    <3>3. CASE p # q
      <4>1. remote'[p] = remote[p]
        BY <2>2, <3>3
      <4> QED  BY <3>1, <4>1
    <3> QED  BY <3>2, <3>3
  <2>5. db' = db /\ recorded' = recorded
    BY <1>8 DEF Edit
  <2> QED  BY <2>4, <2>5
<1>9. ASSUME NEW q \in Pages,
             Move(q) \/ \E c \in {"TrashPage", "RestorePage"} : Push(q, c)
      PROVE  SameValues /\ recorded' = recorded
  <2>1. (\E place : PlacePage(q, place)) /\ db' = db /\ recorded' = recorded
    BY <1>9 DEF Move, Push
  <2> QED  BY <1>6, <1>7, <2>1
<1>10. ASSUME NEW q \in Pages,
              Settle(q) \/ \E w \in {"active", "trash"} : KeepRemote(q, w) \/ KeepLocal(q, w)
       PROVE  SameValues /\ recorded' = recorded
  <2>1. remote' = remote /\ recorded' = recorded
    BY <1>10 DEF Settle, KeepRemote, KeepLocal
  <2>2. \A p \in Pages : db'.row[p].value = db.row[p].value /\ db'.shadow[p] = db.shadow[p]
    BY <1>1, <1>10, SettleEffect, KeepRemoteEffect, KeepLocalEffect
  <2> QED  BY <1>5, <2>1, <2>2
<1>11. ASSUME RaiseDivergence
       PROVE  SameValues /\ SameLog
  <2>1. remote' = remote
    BY <1>11 DEF RaiseDivergence
  <2>2. /\ Head(pull.queue) \in Events /\ Head(pull.queue).type \in {"row", "tombstone"}
    <3>1. pull.queue # <<>> /\ pull.queue \in Seq(Events)
      BY <1>1, <1>11, PullFields DEF RaiseDivergence, Appending
    <3> QED  BY <1>11, <3>1, HeadTailProperties DEF RaiseDivergence
  <2>3. Head(pull.queue).page \in Pages
    BY <2>2, EventFields
  <2>4. /\ \A p \in Pages : db'.row[p].value = db.row[p].value /\ db'.shadow[p] = db.shadow[p]
        /\ \A k \in recorded' : k \in recorded \/ k.type = "conflict"
    BY <1>1, <1>11, <2>3, RaiseEffect
  <2> QED  BY <1>5, <2>1, <2>4
<1>12. ASSUME \/ \E incremental \in BOOLEAN : Begin(incremental)
              \/ QueryPage \/ Classify \/ Verify \/ Complete \/ Interrupt \/ UNCHANGED vars
       PROVE  SameValues /\ recorded' = recorded
  <2>1. UNCHANGED <<remote, recorded, db, landed, places>>
    BY <1>12, QuietSteps
  <2> QED  BY <1>5, <2>1
<1>13. (SameValues /\ SameLog) \/ AppendNext
  <2>1. recorded' = recorded => SameLog
    OBVIOUS
  <2> HIDE DEF SameValues, SameLog
  <2> QED
    BY <1>8, <1>9, <1>10, <1>11, <1>12, <2>1 DEF Next, PullStep
<1> HIDE DEF SameValues, SameLog, SameQueue
<1> QED  BY <1>2, <1>4, <1>13, QueryPageValues, AppendValues

\* An event says of its page what is so.
SaysNow(e) ==
  /\ e.type \in {"row", "property"} => e.number = remote[e.page].value
  /\ e.type = "tombstone" /\ e.word = "remote_trash" => remote[e.page].place = "trash"

\* A pull that has read nothing has read nothing wrong.
LEMMA NothingRead ==
  ASSUME pull'.seen = {}, pull'.queue = <<>>
  PROVE  ReadIsCurrent'
<1>1. 1..Len(pull'.queue) = {}
  <2>1. Len(pull'.queue) = 0
    OBVIOUS
  <2> QED  BY <2>1
<1> QED  BY <1>1 DEF ReadIsCurrent

LEMMA ReadStays ==
  ASSUME ReadIsCurrent, remote' = remote, pull'.disturbed = pull.disturbed,
         \A p \in pull'.seen : p \in pull.seen \/ remote[p].place = "active",
         \A i \in 1..Len(pull'.queue) :
           \/ \E j \in 1..Len(pull.queue) : pull'.queue[i] = pull.queue[j]
           \/ SaysNow(pull'.queue[i])
  PROVE  ReadIsCurrent'
<1> SUFFICES ASSUME pull'.disturbed = {}
             PROVE  /\ \A p \in pull'.seen : remote'[p].place = "active"
                    /\ \A i \in 1..Len(pull'.queue) : SaysNow(pull'.queue[i])
  BY DEF ReadIsCurrent, SaysNow
<1>1. /\ \A p \in pull.seen : remote[p].place = "active"
      /\ \A j \in 1..Len(pull.queue) : SaysNow(pull.queue[j])
  BY DEF ReadIsCurrent, SaysNow
<1> QED  BY <1>1

LEMMA ReadingStaysCurrent ==
  ASSUME Inv, MirrorInv, QueryPage \/ Verify
  PROVE  ReadIsCurrent'
<1>1. TypeOK /\ ReadIsCurrent /\ ScannedOrAway /\ remote' = remote
  BY QuietSteps DEF Inv, MirrorInv
<1>2. CASE QueryPage
  <2>1. \A i \in 1..Len(pull'.queue) :
           \/ \E j \in 1..Len(pull.queue) : pull'.queue[i] = pull.queue[j]
           \/ SaysNow(pull'.queue[i])
    <3> SUFFICES ASSUME NEW i \in 1..Len(pull'.queue),
                        ~\E j \in 1..Len(pull.queue) : pull'.queue[i] = pull.queue[j]
                 PROVE  SaysNow(pull'.queue[i])
      OBVIOUS
    <3>1. \/ pull'.queue[i].type = "checkpoint"
          \/ \E q \in Listed : pull'.queue[i] \in {RowEvent(q), PropertyEvent(q)}
      BY <1>1, <1>2, QueryPageEffect
    <3>2. ASSUME NEW q \in Listed, pull'.queue[i] \in {RowEvent(q), PropertyEvent(q)}
          PROVE  SaysNow(pull'.queue[i])
      <4>1. q \in Pages
        BY DEF Listed
      <4> QED  BY <1>1, <3>2, <4>1, ReadEvents DEF SaysNow
    <3> QED  BY <3>1, <3>2 DEF SaysNow
  <2>2. /\ pull'.disturbed = pull.disturbed
        /\ \A p \in pull'.seen : p \in pull.seen \/ remote[p].place = "active"
    BY <1>1, <1>2, QueryPageEffect
  <2> QED  BY <1>1, <2>1, <2>2, ReadStays
<1>3. CASE Verify
  <2>1. PICK p \in pull.missing, r \in Retrievals :
         /\ pull'.seen = pull.seen /\ pull'.disturbed = pull.disturbed
         /\ r = Retrieval(p) \/ r = "unknown"
         /\ p \in Pages
         /\ \A i \in 1..Len(pull'.queue) :
              \/ i \in 1..Len(pull.queue) /\ pull'.queue[i] = pull.queue[i]
              \/ pull'.queue[i] = Event("absence", p, 0, r)
              \/ pull'.queue[i] = Event("tombstone", p, 0, Reason(r))
    BY <1>1, <1>3, VerifyEffect
  <2>2. SaysNow(Event("absence", p, 0, r))
    BY DEF SaysNow, Event
  <2>3. SaysNow(Event("tombstone", p, 0, Reason(r)))
    <3>1. Reason(r) = "remote_trash" => r = "in-trash"
      BY DEF Reason, Retrievals
    <3>2. p \in Pages /\ remote[p].place \in Places
      BY <1>1, RemoteTyped, PullFields
    <3>3. Retrieval(p) = "in-trash" => remote[p].place = "trash"
      BY <3>2 DEF Retrieval, Places
    <3>4. Reason(r) = "remote_trash" => remote[p].place = "trash"
      BY <2>1, <3>1, <3>3
    <3> QED  BY <3>4, TombstoneKey DEF SaysNow
  <2> QED  BY <1>1, <2>1, <2>2, <2>3, ReadStays
<1> QED  BY <1>2, <1>3

\* Whatever disturbs what has been read says so.
LEMMA ReadIsCurrentStep ==
  ASSUME Inv, MirrorInv, [Next]_vars
  PROVE  ReadIsCurrent'
<1>1. TypeOK /\ ReadIsCurrent
  BY DEF Inv, MirrorInv
<1>2. ASSUME pull' = NoPull \/ pull'.disturbed # {}
      PROVE  ReadIsCurrent'
  BY <1>2, EmptyPull, NothingRead DEF ReadIsCurrent
<1>3. ASSUME NEW what \in {"remote", "settlement"}, Disturb(what)
      PROVE  ReadIsCurrent'
  BY <1>1, <1>2, <1>3, DisturbedPull
<1>4. ASSUME NEW q \in Pages, Edit(q) \/ Move(q) \/ Settle(q)
      PROVE  ReadIsCurrent'
  BY <1>3, <1>4 DEF Edit, Move, PlacePage, Settle
<1>5. ASSUME NEW q \in Pages, NEW c \in {"TrashPage", "RestorePage"}, Push(q, c)
      PROVE  ReadIsCurrent'
  BY <1>3, <1>5 DEF Push, PlacePage
<1>6. ASSUME NEW q \in Pages, NEW v \in {"active", "trash"}, KeepRemote(q, v)
      PROVE  ReadIsCurrent'
  BY <1>3, <1>6 DEF KeepRemote
<1>7. ASSUME remote' = remote, pull' = pull
      PROVE  ReadIsCurrent'
  BY <1>1, <1>7, ReadStays
<1>8. ASSUME NEW q \in Pages, NEW v \in {"active", "trash"}, KeepLocal(q, v)
      PROVE  ReadIsCurrent'
  BY <1>7, <1>8 DEF KeepLocal
<1>9. ASSUME NEW incremental \in BOOLEAN, Begin(incremental)
      PROVE  ReadIsCurrent'
  BY <1>9, BeginEffect, NothingRead
<1>10. ASSUME Complete \/ Interrupt
       PROVE  ReadIsCurrent'
  BY <1>1, <1>2, <1>10, CompleteEffect, NothingRead DEF Interrupt
<1>11. ASSUME Classify
       PROVE  ReadIsCurrent'
  <2>1. remote' = remote
    BY <1>11, QuietSteps
  <2> QED  BY <1>1, <1>11, <2>1, ClassifyEffect, ReadStays
<1>12. ASSUME RaiseDivergence
       PROVE  ReadIsCurrent'
  <2>1. remote' = remote
    BY <1>12 DEF RaiseDivergence
  <2> QED  BY <1>1, <1>12, <2>1, RaisePull, ReadStays
<1>13. ASSUME AppendNext
       PROVE  ReadIsCurrent'
  <2>1. \A i \in 1..Len(pull'.queue) : \E j \in 1..Len(pull.queue) : pull'.queue[i] = pull.queue[j]
    <3> SUFFICES ASSUME NEW i \in 1..Len(pull'.queue)
                 PROVE  \E j \in 1..Len(pull.queue) : pull'.queue[i] = pull.queue[j]
      OBVIOUS
    <3>1. /\ i + 1 \in 2..Len(pull.queue) /\ pull'.queue[i] = pull.queue[i + 1]
          /\ Len(pull.queue) \in Nat
      BY <1>1, <1>13, AppendNextEffect
    <3>2. i + 1 \in 1..Len(pull.queue)
      BY <3>1
    <3> QED  BY <3>1, <3>2
  <2>2. remote' = remote /\ pull'.disturbed = pull.disturbed /\ pull'.seen = pull.seen
    BY <1>1, <1>13, AppendNextEffect
  <2> QED  BY <1>1, <2>1, <2>2, ReadStays
<1>14. ASSUME UNCHANGED vars
       PROVE  ReadIsCurrent'
  BY <1>7, <1>14 DEF vars
<1> QED
  BY <1>4, <1>5, <1>6, <1>8, <1>9, <1>10, <1>11, <1>12, <1>13, <1>14, ReadingStaysCurrent
     DEF Next, PullStep

\* What a step must leave of the projection of page p.
ProjectionKept(p) ==
  /\ db'.row[p].value = db.row[p].value /\ db'.shadow[p] = db.shadow[p]
  /\ db'.row[p].inTrash <=> db.row[p].inTrash
  /\ Frozen(p) => Frozen(p)'

PropertyQueued(p) ==
  \E i \in 1..Len(pull.queue) : pull.queue[i].type = "property" /\ pull.queue[i].page = p

\* What is in the queue stays in a queue that grows.
LEMMA QueueExtended ==
  ASSUME NEW p,
         \A i \in 1..Len(pull.queue) : i \in 1..Len(pull'.queue) /\ pull'.queue[i] = pull.queue[i]
  PROVE  /\ RowQueued(p) => RowQueued(p)'
         /\ PropertyQueued(p) => PropertyQueued(p)'
         /\ \A reason : TombstoneQueued(p, reason) => TombstoneQueued(p, reason)'
<1>1. ASSUME RowQueued(p)
      PROVE  RowQueued(p)'
  <2>1. PICK i \in 1..Len(pull.queue) : pull.queue[i].type = "row" /\ pull.queue[i].page = p
    BY <1>1 DEF RowQueued
  <2>2. i \in 1..Len(pull'.queue) /\ pull'.queue[i].type = "row" /\ pull'.queue[i].page = p
    BY <2>1
  <2> QED  BY <2>2 DEF RowQueued
<1>2. ASSUME PropertyQueued(p)
      PROVE  PropertyQueued(p)'
  <2>1. PICK i \in 1..Len(pull.queue) : pull.queue[i].type = "property" /\ pull.queue[i].page = p
    BY <1>2 DEF PropertyQueued
  <2>2. i \in 1..Len(pull'.queue) /\ pull'.queue[i].type = "property" /\ pull'.queue[i].page = p
    BY <2>1
  <2> QED  BY <2>2 DEF PropertyQueued
<1>3. ASSUME NEW reason, TombstoneQueued(p, reason)
      PROVE  TombstoneQueued(p, reason)'
  <2>1. PICK i \in 1..Len(pull.queue) : pull.queue[i] = Event("tombstone", p, 0, reason)
    BY <1>3 DEF TombstoneQueued
  <2>2. i \in 1..Len(pull'.queue) /\ pull'.queue[i] = Event("tombstone", p, 0, reason)
    BY <2>1
  <2> QED  BY <2>2 DEF TombstoneQueued
<1> QED  BY <1>1, <1>2, <1>3

\* The append of the head leaves the others.
LEMMA QueueShrinks ==
  ASSUME TypeOK, AppendNext, NEW p
  PROVE  /\ RowQueued(p) =>
              \/ RowQueued(p)'
              \/ Head(pull.queue).type = "row" /\ Head(pull.queue).page = p
         /\ Head(pull.queue).type = "row" /\ Head(pull.queue).page = p => RowQueued(p)
         /\ PropertyQueued(p) =>
              \/ PropertyQueued(p)'
              \/ Head(pull.queue).type = "property" /\ Head(pull.queue).page = p
         /\ Head(pull.queue).type = "property" /\ Head(pull.queue).page = p => PropertyQueued(p)
         /\ \A reason : TombstoneQueued(p, reason) =>
              \/ TombstoneQueued(p, reason)'
              \/ Head(pull.queue) = Event("tombstone", p, 0, reason)
<1>1. \A i \in 1..Len(pull.queue) :
         \/ pull.queue[i] = Head(pull.queue)
         \/ \E j \in 1..Len(pull'.queue) : pull'.queue[j] = pull.queue[i]
  <2> SUFFICES ASSUME NEW i \in 1..Len(pull.queue), i # 1
               PROVE  \E j \in 1..Len(pull'.queue) : pull'.queue[j] = pull.queue[i]
    BY AppendNextEffect
  <2>1. Len(pull.queue) \in Nat /\ Len(pull'.queue) = Len(pull.queue) - 1
    BY AppendNextEffect
  <2>2. i - 1 \in 1..Len(pull'.queue) /\ (i - 1) + 1 = i
    BY <2>1
  <2>3. pull'.queue[i - 1] = pull.queue[(i - 1) + 1]
    BY <2>2, AppendNextEffect
  <2> QED  BY <2>2, <2>3
<1>2. 1 \in 1..Len(pull.queue) /\ pull.queue[1] = Head(pull.queue)
  BY AppendNextEffect
<1>3. RowQueued(p) => \/ RowQueued(p)'
                      \/ Head(pull.queue).type = "row" /\ Head(pull.queue).page = p
  BY <1>1 DEF RowQueued
<1>4. PropertyQueued(p) =>
        \/ PropertyQueued(p)'
        \/ Head(pull.queue).type = "property" /\ Head(pull.queue).page = p
  BY <1>1 DEF PropertyQueued
<1>5. \A reason : TombstoneQueued(p, reason) =>
        \/ TombstoneQueued(p, reason)'
        \/ Head(pull.queue) = Event("tombstone", p, 0, reason)
  <2> SUFFICES ASSUME NEW reason, TombstoneQueued(p, reason)
               PROVE  \/ TombstoneQueued(p, reason)'
                      \/ Head(pull.queue) = Event("tombstone", p, 0, reason)
    OBVIOUS
  <2>1. PICK i \in 1..Len(pull.queue) : pull.queue[i] = Event("tombstone", p, 0, reason)
    BY DEF TombstoneQueued
  <2>2. ASSUME NEW j \in 1..Len(pull'.queue), pull'.queue[j] = pull.queue[i]
        PROVE  TombstoneQueued(p, reason)'
    <3>1. pull'.queue[j] = Event("tombstone", p, 0, reason)
      BY <2>1, <2>2
    <3> QED  BY <3>1 DEF TombstoneQueued
  <2> QED  BY <1>1, <2>1, <2>2
<1>6. Head(pull.queue).type = "row" /\ Head(pull.queue).page = p => RowQueued(p)
  BY <1>2 DEF RowQueued
<1>7. Head(pull.queue).type = "property" /\ Head(pull.queue).page = p => PropertyQueued(p)
  BY <1>2 DEF PropertyQueued
<1> QED  BY <1>3, <1>4, <1>5, <1>6, <1>7

LEMMA ActiveStays ==
  ASSUME NEW p \in Pages, ActiveMirrored(p), remote' = remote, landed' = landed,
         ProjectionKept(p),
         RowQueued(p) => RowQueued(p)', PropertyQueued(p) => PropertyQueued(p)',
         pull'.ended = "terminal" \/ (pull'.pc = "query" /\ p <= pull'.cursor) =>
           pull.ended = "terminal" \/ (pull.pc = "query" /\ p <= pull.cursor)
  PROVE  ActiveMirrored(p)'
<1>1. ASSUME remote[p].place = "active",
             pull'.ended = "terminal" \/ (pull'.pc = "query" /\ p <= pull'.cursor)
      PROVE  /\ \/ RowQueued(p)
                \/ /\ db.row[p].value = remote[p].value
                   /\ landed[p] = "none" => Frozen(p) \/ ~db.row[p].inTrash
             /\ PropertyQueued(p) \/ db.shadow[p] = remote[p].value
  BY <1>1 DEF ActiveMirrored, PropertyQueued
<1>2. ASSUME remote[p].place = "active",
             pull'.ended = "terminal" \/ (pull'.pc = "query" /\ p <= pull'.cursor)
      PROVE  /\ \/ RowQueued(p)'
                \/ /\ db'.row[p].value = remote'[p].value
                   /\ landed'[p] = "none" => Frozen(p)' \/ ~db'.row[p].inTrash
             /\ PropertyQueued(p)' \/ db'.shadow[p] = remote'[p].value
  <2>1. CASE RowQueued(p)
    BY <1>1, <1>2, <2>1 DEF ProjectionKept
  <2>2. CASE ~RowQueued(p)
    <3>1. db.row[p].value = remote[p].value
          /\ (landed[p] = "none" => Frozen(p) \/ ~db.row[p].inTrash)
      BY <1>1, <1>2, <2>2
    <3>2. /\ db'.row[p].value = remote'[p].value
          /\ landed'[p] = "none" => Frozen(p)' \/ ~db'.row[p].inTrash
      BY <3>1, Zenon DEF ProjectionKept
    <3> QED  BY <1>1, <1>2, <3>2 DEF ProjectionKept
  <2> QED  BY <2>1, <2>2
<1> HIDE DEF RowQueued, Frozen
<1> QED  BY <1>2 DEF ActiveMirrored, PropertyQueued

LEMMA AbsentStays ==
  ASSUME NEW p \in Pages, AbsentMirrored(p), remote' = remote, landed' = landed,
         ProjectionKept(p), recorded \subseteq recorded',
         \A reason : TombstoneQueued(p, reason) => TombstoneQueued(p, reason)',
         /\ pull'.pc \in {"verify", "mark", "done"} /\ pull'.ended = "terminal"
         /\ ~pull'.faulty /\ p \notin pull'.missing
         => /\ pull.pc \in {"verify", "mark", "done"} /\ pull.ended = "terminal"
            /\ ~pull.faulty /\ p \notin pull.missing
  PROVE  AbsentMirrored(p)'
<1> DEFINE Ready == /\ pull.pc \in {"verify", "mark", "done"} /\ pull.ended = "terminal"
                    /\ ~pull.faulty /\ p \notin pull.missing
<1>1. Ready' => Ready
  OBVIOUS
<1>2. Known(p)' => Known(p)
  BY DEF ProjectionKept, Known
<1>3. Ready /\ Known(p) =>
        /\ remote[p].place = "trash" =>
             \/ TombstoneQueued(p, "remote_trash")
             \/ landed[p] = "none" => Frozen(p) \/ db.row[p].inTrash
        /\ remote[p].place = "elsewhere" =>
             TombstoneQueued(p, "moved_out") \/ Tombstoned(p, "moved_out")
  BY DEF AbsentMirrored
<1>4. (landed[p] = "none" => Frozen(p) \/ db.row[p].inTrash) =>
      (landed'[p] = "none" => Frozen(p)' \/ db'.row[p].inTrash)
  BY Zenon DEF ProjectionKept
<1>5. TombstoneQueued(p, "remote_trash") => TombstoneQueued(p, "remote_trash")'
  OBVIOUS
<1>6. TombstoneQueued(p, "moved_out") => TombstoneQueued(p, "moved_out")'
  OBVIOUS
<1>7. Ready' /\ Known(p)' =>
        /\ remote'[p].place = "trash" =>
             \/ TombstoneQueued(p, "remote_trash")'
             \/ landed'[p] = "none" => Frozen(p)' \/ db'.row[p].inTrash
        /\ remote'[p].place = "elsewhere" =>
             TombstoneQueued(p, "moved_out")' \/ Tombstoned(p, "moved_out")'
  <2> HIDE DEF Ready
  <2>1. Tombstoned(p, "moved_out") => Tombstoned(p, "moved_out")'
    BY DEF Tombstoned
  <2> QED  BY <1>1, <1>2, <1>3, <1>4, <1>5, <1>6, <2>1, Zenon
<1> QED  BY <1>7 DEF AbsentMirrored

LEMMA AppendKeepsActive ==
  ASSUME Inv, MirrorInv, AppendNext, NEW p \in Pages,
         pull.disturbed = {}, ActiveMirrored(p)
  PROVE  ActiveMirrored(p)'
<1> DEFINE Shown == pull.ended = "terminal" \/ (pull.pc = "query" /\ p <= pull.cursor)
<1>1. TypeOK /\ LifecycleTracked(p) /\ DivergenceRaised /\ ValuesGrow /\ ReadIsCurrent /\ QueuePhases
  BY DEF Inv, MirrorInv
<1>2. PICK e \in Events : /\ e = Head(pull.queue) /\ pull.queue[1] = e
                          /\ 1 \in 1..Len(pull.queue) /\ AppendEvent(e)
                          /\ pull.checked \/ e.type \notin {"row", "tombstone"}
  BY <1>1, AppendNextEffect
<1>3. remote' = remote /\ landed' = landed /\ (Shown' => Shown)
  BY <1>1, AppendNextEffect
<1>4. e.type # "conflict"
  BY <1>1, <1>2 DEF QueuePhases
<1>5. Frozen(p)' <=> Frozen(p)
  BY <1>1, <1>2, <1>4, AppendedRow DEF Frozen
<1>6. /\ e.type \in {"row", "property"} => e.number = remote[e.page].value
      /\ e.type = "tombstone" /\ e.word = "remote_trash" => remote[e.page].place = "trash"
  BY <1>1, <1>2 DEF ReadIsCurrent
<1>7. ASSUME Shown, remote[p].place = "active"
      PROVE  /\ \/ RowQueued(p)
                \/ /\ db.row[p].value = remote[p].value
                   /\ landed[p] = "none" => Frozen(p) \/ ~db.row[p].inTrash
             /\ PropertyQueued(p) \/ db.shadow[p] = remote[p].value
  BY <1>7 DEF ActiveMirrored, PropertyQueued
<1>8. e \in recorded /\ e.type \in {"row", "property"} /\ e.page = p =>
        Projected(e.type, p) = remote[p].value
  <2> SUFFICES ASSUME e \in recorded, e.type \in {"row", "property"}, e.page = p
               PROVE  Projected(e.type, p) = remote[p].value
    OBVIOUS
  <2>1. e.number <= Projected(e.type, p) /\ Projected(e.type, p) <= remote[p].value
    BY <1>1 DEF ValuesGrow
  <2>2. Projected(e.type, p) \in Nat /\ remote[p].value \in Nat
    BY <1>1, ValuesTyped
  <2> QED  BY <1>6, <2>1, <2>2
<1>9. ASSUME remote[p].place = "active", e.type = "row", e.page = p
      PROVE  /\ db'.row[p].value = remote[p].value
             /\ landed[p] = "none" => Frozen(p)' \/ ~db'.row[p].inTrash
  <2>1. CASE e \notin recorded
    <3>1. db'.row[p].value = e.number /\ (db'.row[p].inTrash <=> (Frozen(p) /\ db.row[p].inTrash))
      BY <1>1, <1>2, <1>9, <2>1, AppendedRow
    <3> QED  BY <1>5, <1>6, <1>9, <3>1
  <2>2. CASE e \in recorded
    <3>1. db' = db
      BY <1>1, <1>2, <1>9, <2>2, AppendedRow
    <3>2. db.row[p].value = remote[p].value
      BY <1>8, <1>9, <2>2 DEF Projected
    <3>3. landed[p] = "none" /\ ~Frozen(p) => ~db.row[p].inTrash
      <4> SUFFICES ASSUME landed[p] = "none", ~Frozen(p), db.row[p].inTrash
                   PROVE  FALSE
        OBVIOUS
      <4>1. db.target[p] = "trash" /\ Undisputed(p)
        BY <1>1, <1>9 DEF LifecycleTracked
      <4>2. Event("conflict", p, 0, "active") \in Divergence(e)
        BY <1>9, <4>1 DEF Divergence
      <4>3. LET c == Event("conflict", p, 0, "active") IN db.conflict[c.page][c.word] # "none"
        BY <1>1, <1>2, <1>9, <4>2 DEF DivergenceRaised
      <4>4. db.conflict[p]["active"] # "none"
        BY <4>3 DEF Event
      <4> QED  BY <4>1, <4>4 DEF Undisputed
    <3> QED  BY <1>5, <3>1, <3>2, <3>3
  <2> QED  BY <2>1, <2>2
<1>10. ASSUME remote[p].place = "active", ~(e.type = "row" /\ e.page = p)
       PROVE  /\ db'.row[p].value = db.row[p].value
              /\ db'.row[p].inTrash <=> db.row[p].inTrash
  <2>1. db'.row[p].value = db.row[p].value
    BY <1>1, <1>2, <1>10, AppendedRow
  <2>2. CASE e.type = "tombstone" /\ e.page = p /\ e \notin recorded
    <3>1. e.word # "remote_trash"
      BY <1>6, <1>10, <2>2
    <3> QED  BY <1>1, <1>2, <2>1, <2>2, <3>1, AppendedRow
  <2>3. CASE e.type = "tombstone" /\ e.page = p /\ e \in recorded
    BY <1>1, <1>2, <2>3, AppendedRow
  <2>4. CASE ~(e.type = "tombstone" /\ e.page = p)
    BY <1>1, <1>2, <1>10, <2>4, AppendedRow
  <2> QED  BY <2>1, <2>2, <2>3, <2>4
<1>11. ASSUME Shown, remote[p].place = "active"
       PROVE  \/ RowQueued(p)'
              \/ /\ db'.row[p].value = remote[p].value
                 /\ landed[p] = "none" => Frozen(p)' \/ ~db'.row[p].inTrash
  <2>1. CASE e.type = "row" /\ e.page = p
    BY <1>9, <1>11, <2>1
  <2>2. CASE ~(e.type = "row" /\ e.page = p)
    <3>1. RowQueued(p) => RowQueued(p)'
      BY <1>1, <1>2, <2>2, QueueShrinks
    <3>2. CASE RowQueued(p)
      BY <3>1, <3>2
    <3>3. CASE ~RowQueued(p)
      BY <1>5, <1>7, <1>10, <1>11, <2>2, <3>3
    <3> QED  BY <3>2, <3>3
  <2> QED  BY <2>1, <2>2
<1>12. ASSUME Shown, remote[p].place = "active"
       PROVE  PropertyQueued(p)' \/ db'.shadow[p] = remote[p].value
  <2>1. db'.shadow[p] = IF e.type = "property" /\ e.page = p /\ e \notin recorded
                        THEN e.number ELSE db.shadow[p]
    BY <1>1, <1>2, AppendedRow
  <2>2. CASE e.type = "property" /\ e.page = p
    BY <1>6, <1>8, <2>1, <2>2 DEF Projected
  <2>3. CASE ~(e.type = "property" /\ e.page = p)
    <3>1. PropertyQueued(p) => PropertyQueued(p)'
      BY <1>1, <1>2, <2>3, QueueShrinks
    <3> QED  BY <1>7, <1>12, <2>1, <2>3, <3>1
  <2> QED  BY <2>2, <2>3
<1> HIDE DEF Shown
<1>13. Shown' /\ remote'[p].place = "active" =>
         /\ \/ RowQueued(p)'
            \/ /\ db'.row[p].value = remote'[p].value
               /\ landed'[p] = "none" => Frozen(p)' \/ ~db'.row[p].inTrash
         /\ PropertyQueued(p)' \/ db'.shadow[p] = remote'[p].value
  BY <1>3, <1>11, <1>12
<1> QED  BY <1>13 DEF ActiveMirrored, PropertyQueued, Shown

LEMMA AppendKeepsAbsent ==
  ASSUME Inv, MirrorInv, AppendNext, NEW p \in Pages, AbsentMirrored(p)
  PROVE  AbsentMirrored(p)'
<1> DEFINE Ready == /\ pull.pc \in {"verify", "mark", "done"} /\ pull.ended = "terminal"
                    /\ ~pull.faulty /\ Known(p) /\ p \notin pull.missing
<1>1. TypeOK /\ LifecycleTracked(p) /\ Overtaken(p) /\ QueuePhases
  BY DEF Inv, MirrorInv
<1>2. PICK e \in Events : e = Head(pull.queue) /\ AppendEvent(e)
                          /\ pull.queue[1] = e /\ 1 \in 1..Len(pull.queue)
  BY <1>1, AppendNextEffect
<1> SUFFICES ASSUME pull'.pc = "mark"
             PROVE  AbsentMirrored(p)'
  BY <1>1, AppendNextEffect DEF AbsentMirrored
<1>3. pull.pc = "mark" /\ remote' = remote /\ landed' = landed
  BY <1>1, AppendNextEffect
<1>4. e.type \in {"absence", "tombstone"}
  BY <1>1, <1>2, <1>3 DEF QueuePhases
<1>5. db'.row[p].value = db.row[p].value /\ (Ready' => Ready)
  <2>1. db'.row[p].value = db.row[p].value
    BY <1>1, <1>2, <1>4, AppendedRow
  <2>2. /\ pull'.ended = pull.ended /\ pull'.faulty = pull.faulty
        /\ pull'.missing = pull.missing
    BY <1>1, AppendNextEffect
  <2> QED  BY <1>3, <2>1, <2>2 DEF Known
<1>6. Frozen(p)' <=> Frozen(p)
  BY <1>1, <1>2, <1>4, AppendedRow DEF Frozen
<1>7. Ready =>
        /\ remote[p].place = "trash" =>
             \/ TombstoneQueued(p, "remote_trash")
             \/ landed[p] = "none" => Frozen(p) \/ db.row[p].inTrash
        /\ remote[p].place = "elsewhere" =>
             TombstoneQueued(p, "moved_out") \/ Tombstoned(p, "moved_out")
  BY DEF AbsentMirrored
<1>8. db.row[p].inTrash => db'.row[p].inTrash
  <2>1. CASE e.type = "tombstone" /\ e.page = p /\ e \notin recorded
    BY <1>1, <1>2, <2>1, AppendedRow
  <2>2. CASE e.type = "tombstone" /\ e.page = p /\ e \in recorded
    BY <1>1, <1>2, <2>2, AppendedRow
  <2>3. CASE ~(e.type = "tombstone" /\ e.page = p)
    BY <1>1, <1>2, <1>4, <2>3, AppendedRow
  <2> QED  BY <2>1, <2>2, <2>3
<1>9. \A reason : Tombstoned(p, reason)' <=>
         Tombstoned(p, reason) \/ e = Event("tombstone", p, 0, reason)
  BY <1>1, <1>2, AppendedRow
<1>10. ASSUME remote[p].place = "trash", e = Event("tombstone", p, 0, "remote_trash")
       PROVE  landed[p] = "none" => Frozen(p)' \/ db'.row[p].inTrash
  <2>1. e.type = "tombstone" /\ e.page = p /\ e.word = "remote_trash"
    BY <1>10, TombstoneKey
  <2>2. CASE e \notin recorded
    <3>1. db'.row[p].inTrash <=> (db.row[p].inTrash \/ ~Frozen(p))
      BY <1>1, <1>2, <2>1, <2>2, AppendedRow
    <3> QED  BY <1>6, <3>1
  <2>3. CASE e \in recorded
    <3>1. Tombstoned(p, "remote_trash")
      BY <1>10, <2>3 DEF Tombstoned
    <3>2. landed[p] = "none" => Frozen(p) \/ db.row[p].inTrash
      BY <1>1, <1>10, <3>1 DEF LifecycleTracked
    <3> QED  BY <1>6, <1>8, <3>2
  <2> QED  BY <2>2, <2>3
<1>11. \A reason : TombstoneQueued(p, reason) =>
         TombstoneQueued(p, reason)' \/ e = Event("tombstone", p, 0, reason)
  BY <1>1, <1>2, QueueShrinks
<1>12. Ready /\ remote[p].place = "trash" =>
         \/ TombstoneQueued(p, "remote_trash")'
         \/ landed[p] = "none" => Frozen(p)' \/ db'.row[p].inTrash
  <2> HIDE DEF Ready
  <2> QED  BY <1>6, <1>7, <1>8, <1>10, <1>11
<1>13. Ready /\ remote[p].place = "elsewhere" =>
         TombstoneQueued(p, "moved_out")' \/ Tombstoned(p, "moved_out")'
  <2> HIDE DEF Ready
  <2> QED  BY <1>7, <1>9, <1>11
<1> HIDE DEF Ready
<1>14. Ready' =>
         /\ remote'[p].place = "trash" =>
              \/ TombstoneQueued(p, "remote_trash")'
              \/ landed'[p] = "none" => Frozen(p)' \/ db'.row[p].inTrash
         /\ remote'[p].place = "elsewhere" =>
              TombstoneQueued(p, "moved_out")' \/ Tombstoned(p, "moved_out")'
  BY <1>3, <1>5, <1>12, <1>13
<1> QED  BY <1>14 DEF AbsentMirrored, Ready

LEMMA QueryPageMirrors ==
  ASSUME Inv, MirrorInv, QueryPage, FullPullTracked, NEW p \in Pages,
         pull'.from = 0, pull'.since = 0, pull'.disturbed = {}
  PROVE  ActiveMirrored(p)' /\ AbsentMirrored(p)'
<1>1. TypeOK
  BY DEF Inv
<1>2. AbsentMirrored(p)'
  <2>1. pull'.pc \in {"query", "append"}
    BY <1>1, QueryPageEffect
  <2> QED  BY <2>1 DEF AbsentMirrored
<1>3. UNCHANGED <<remote, db, landed>>
  BY QuietSteps
<1>4. pull.pc = "query" /\ pull.since = 0 /\ ActiveMirrored(p)
  BY <1>1, QueryPageEffect DEF FullPullTracked
<1>5. ActiveMirrored(p)'
  <2>1. CASE p \in Listed /\ (p <= pull'.cursor \/ pull'.ended = "terminal")
    <3>1. PICK i, j \in 1..Len(pull'.queue) :
            pull'.queue[i] = RowEvent(p) /\ pull'.queue[j] = PropertyEvent(p)
      BY <1>1, <2>1, QueryPageEffect
    <3>2. /\ RowEvent(p).type = "row" /\ RowEvent(p).page = p
          /\ PropertyEvent(p).type = "property" /\ PropertyEvent(p).page = p
      BY <1>1, ReadEvents
    <3>3. RowQueued(p)'
      <4>1. pull'.queue[i].type = "row" /\ pull'.queue[i].page = p
        BY <3>1, <3>2
      <4> QED  BY <4>1 DEF RowQueued
    <3>4. PropertyQueued(p)'
      <4>1. pull'.queue[j].type = "property" /\ pull'.queue[j].page = p
        BY <3>1, <3>2
      <4> QED  BY <4>1 DEF PropertyQueued
    <3> QED  BY <3>3, <3>4 DEF ActiveMirrored, PropertyQueued
  <2>2. CASE p \in Listed /\ ~(p <= pull'.cursor \/ pull'.ended = "terminal")
    BY <2>2 DEF ActiveMirrored
  <2>3. CASE p \notin Listed /\ remote[p].place = "active"
    <3>1. p <= pull.cursor
      <4>1. remote[p].edited \in Times /\ Times \subseteq Nat
        BY <1>1, RemoteTyped, PullFields
      <4>2. remote[p].edited >= pull.since
        <5>1. \A t \in Nat : t >= 0
          OBVIOUS
        <5> QED  BY <1>4, <4>1, <5>1
      <4>3. ~(p > pull.cursor)
        BY <2>3, <4>2 DEF Listed
      <4>4. p \in Nat /\ pull.cursor \in Nat
        BY <1>1, PullFields
      <4> QED  BY <4>3, <4>4
    <3>2. RowQueued(p) => RowQueued(p)'
      BY <1>1, QueryPageEffect, QueueExtended
    <3>3. PropertyQueued(p) => PropertyQueued(p)'
      BY <1>1, QueryPageEffect, QueueExtended
    <3>4. ProjectionKept(p)
      BY <1>3 DEF ProjectionKept, Frozen
    <3> QED  BY <1>3, <1>4, <3>1, <3>2, <3>3, <3>4, ActiveStays
  <2>4. CASE remote[p].place # "active"
    BY <1>3, <2>4 DEF ActiveMirrored
  <2> QED  BY <2>1, <2>2, <2>3, <2>4
<1> QED  BY <1>2, <1>5

LEMMA VerifyMirrors ==
  ASSUME Inv, MirrorInv, Verify, NEW p \in Pages, ActiveMirrored(p), AbsentMirrored(p)
  PROVE  ActiveMirrored(p)' /\ AbsentMirrored(p)'
<1>1. TypeOK /\ ScannedOrAway
  BY DEF Inv
<1>2. UNCHANGED <<remote, recorded, db, landed>>
  BY QuietSteps
<1>3. ProjectionKept(p)
  BY <1>2 DEF ProjectionKept, Frozen
<1>4. PICK q \in pull.missing, r \in Retrievals :
         /\ pull.pc = "verify" /\ pull'.pc \in {"verify", "mark"}
         /\ pull'.missing = pull.missing \ {q} /\ pull'.ended = pull.ended
         /\ pull.faulty => pull'.faulty
         /\ r = Retrieval(q) \/ (r = "unknown" /\ pull'.faulty)
         /\ \A i \in 1..Len(pull.queue) :
              i \in 1..Len(pull'.queue) /\ pull'.queue[i] = pull.queue[i]
         /\ Reason(r) # "none" => TombstoneQueued(q, Reason(r))'
  BY <1>1, VerifyEffect
<1>5. /\ RowQueued(p) => RowQueued(p)'
      /\ PropertyQueued(p) => PropertyQueued(p)'
      /\ \A reason : TombstoneQueued(p, reason) => TombstoneQueued(p, reason)'
  BY <1>4, QueueExtended
<1>6. ActiveMirrored(p)'
  BY <1>2, <1>3, <1>4, <1>5, ActiveStays
<1>7. AbsentMirrored(p)'
  <2>1. CASE p # q
    BY <1>2, <1>3, <1>4, <1>5, <2>1, AbsentStays
  <2>2. CASE p = q /\ ~pull'.faulty
    <3>1. r = Retrieval(p)
      BY <1>4, <2>2
    <3>2. remote[p].place = "trash" => TombstoneQueued(p, "remote_trash")'
      BY <1>4, <2>2, <3>1 DEF Retrieval, Reason
    <3>3. remote[p].place = "elsewhere" => TombstoneQueued(p, "moved_out")'
      BY <1>4, <2>2, <3>1 DEF Retrieval, Reason
    <3> QED  BY <1>2, <3>2, <3>3 DEF AbsentMirrored
  <2>3. CASE pull'.faulty
    BY <2>3 DEF AbsentMirrored
  <2> QED  BY <2>1, <2>2, <2>3
<1> QED  BY <1>6, <1>7

LEMMA ClassifyMirrors ==
  ASSUME Inv, MirrorInv, Classify, NEW p \in Pages, ActiveMirrored(p),
         pull.from = 0, pull.since = 0, pull.disturbed = {}
  PROVE  ActiveMirrored(p)' /\ AbsentMirrored(p)'
<1>1. TypeOK /\ ReadIsCurrent
  BY DEF Inv, MirrorInv
<1>2. UNCHANGED <<remote, recorded, db, landed>>
  BY QuietSteps
<1>3. ProjectionKept(p)
  BY <1>2 DEF ProjectionKept, Frozen
<1>4. /\ pull'.pc \in {"mark", "verify"} /\ pull'.missing = Missing /\ pull'.queue = pull.queue
      /\ pull'.ended = pull.ended
  BY <1>1, ClassifyEffect
<1>5. RowQueued(p) => RowQueued(p)'
  BY <1>4 DEF RowQueued
<1>6. PropertyQueued(p) => PropertyQueued(p)'
  BY <1>4 DEF PropertyQueued
<1>7. ActiveMirrored(p)'
  BY <1>2, <1>3, <1>4, <1>5, <1>6, ActiveStays
<1>8. AbsentMirrored(p)'
  <2>1. ASSUME pull'.ended = "terminal", Known(p)', p \notin pull'.missing
        PROVE  remote'[p].place = "active"
    <3>1. CanClassify /\ Known(p)
      BY <1>2, <1>4, <2>1 DEF CanClassify, Known
    <3>2. p \in pull.seen
      BY <1>4, <2>1, <3>1 DEF Missing
    <3> QED  BY <1>1, <1>2, <3>2 DEF ReadIsCurrent
  <2>2. "active" \notin {"trash", "elsewhere"}
    OBVIOUS
  <2> QED  BY <2>1, <2>2 DEF AbsentMirrored
<1> QED  BY <1>7, <1>8

LEMMA CompleteMirrors ==
  ASSUME Inv, MirrorInv, Complete, NEW p \in Pages, ActiveMirrored(p), AbsentMirrored(p)
  PROVE  ActiveMirrored(p)' /\ AbsentMirrored(p)'
<1>1. TypeOK /\ QueuePhases
  BY DEF Inv, MirrorInv
<1>2. UNCHANGED <<remote, recorded, db, landed>>
  BY QuietSteps
<1>3. ProjectionKept(p)
  BY <1>2 DEF ProjectionKept, Frozen
<1>4. /\ pull.pc = "mark" /\ pull'.pc = "done" /\ pull'.queue = pull.queue
      /\ pull.missing = {} /\ pull'.ended = pull.ended /\ pull'.faulty = pull.faulty
  BY <1>1, CompleteEffect DEF QueuePhases
<1>5. RowQueued(p) => RowQueued(p)'
  BY <1>4 DEF RowQueued
<1>6. PropertyQueued(p) => PropertyQueued(p)'
  BY <1>4 DEF PropertyQueued
<1>7. \A reason : TombstoneQueued(p, reason) => TombstoneQueued(p, reason)'
  BY <1>4 DEF TombstoneQueued
<1>8. ActiveMirrored(p)'
  BY <1>2, <1>3, <1>4, <1>5, <1>6, ActiveStays
<1>9. AbsentMirrored(p)'
  BY <1>2, <1>3, <1>4, <1>7, AbsentStays
<1> QED  BY <1>8, <1>9

\* A conflict raised or resolved in favour of the local state only freezes.
LEMMA FreezeMirrors ==
  ASSUME Inv, MirrorInv, NEW p \in Pages, ActiveMirrored(p), AbsentMirrored(p),
         \/ RaiseDivergence
         \/ \E q \in Pages, v \in {"active", "trash"} : KeepLocal(q, v)
         \/ UNCHANGED vars
  PROVE  ActiveMirrored(p)' /\ AbsentMirrored(p)'
<1>1. TypeOK
  BY DEF Inv
<1>2. /\ remote' = remote /\ landed' = landed /\ recorded \subseteq recorded'
      /\ pull'.queue = pull.queue /\ pull'.pc = pull.pc /\ pull'.ended = pull.ended
      /\ pull'.cursor = pull.cursor /\ pull'.missing = pull.missing
      /\ pull'.faulty = pull.faulty
  <2>1. CASE RaiseDivergence
    <3>1. remote' = remote /\ landed' = landed /\ recorded \subseteq recorded'
      BY <1>1, <2>1, RaiseEffect DEF RaiseDivergence
    <3> QED  BY <1>1, <2>1, <3>1, RaisePull
  <2>2. CASE \E q \in Pages, v \in {"active", "trash"} : KeepLocal(q, v)
    BY <2>2 DEF KeepLocal
  <2>3. CASE UNCHANGED vars
    BY <2>3 DEF vars
  <2> QED  BY <2>1, <2>2, <2>3
<1>3. ProjectionKept(p)
  <2>1. CASE RaiseDivergence
    <3>1. /\ db'.row = db.row /\ db'.shadow = db.shadow
          /\ \A w \in {"active", "trash"} :
               db'.conflict[p][w] = db.conflict[p][w] \/ db'.conflict[p][w] = "open"
      BY <1>1, <2>1, RaiseEffect
    <3>2. Frozen(p) => Frozen(p)'
      BY <3>1 DEF Frozen
    <3> QED  BY <3>1, <3>2 DEF ProjectionKept
  <2>2. ASSUME NEW q \in Pages, NEW v \in {"active", "trash"}, KeepLocal(q, v)
        PROVE  ProjectionKept(p)
    <3>1. /\ db'.row = db.row /\ db'.shadow = db.shadow
          /\ \A w \in {"active", "trash"} :
               db'.conflict[p][w] = IF p = q /\ w = v THEN "resolving" ELSE db.conflict[p][w]
      BY <1>1, <2>2, KeepLocalEffect
    <3>2. Frozen(p) => Frozen(p)'
      BY <3>1 DEF Frozen
    <3> QED  BY <3>1, <3>2 DEF ProjectionKept
  <2>3. CASE UNCHANGED vars
    BY <2>3 DEF vars, ProjectionKept, Frozen
  <2> QED  BY <2>1, <2>2, <2>3
<1>5. RowQueued(p) => RowQueued(p)'
  BY <1>2 DEF RowQueued
<1>6. PropertyQueued(p) => PropertyQueued(p)'
  BY <1>2 DEF PropertyQueued
<1>7. \A reason : TombstoneQueued(p, reason) => TombstoneQueued(p, reason)'
  BY <1>2 DEF TombstoneQueued
<1>8. ActiveMirrored(p)'
  BY <1>2, <1>3, <1>5, <1>6, ActiveStays
<1>9. AbsentMirrored(p)'
  BY <1>2, <1>3, <1>7, AbsentStays
<1> QED  BY <1>8, <1>9

\* A full pull that nothing disturbs brings every page it has passed to the projection.
LEMMA FullPullStep ==
  ASSUME Inv, MirrorInv, [Next]_vars
  PROVE  FullPullTracked'
<1>1. TypeOK /\ FullPullTracked
  BY DEF Inv, MirrorInv
<1> SUFFICES ASSUME pull'.from = 0, pull'.since = 0, pull'.disturbed = {}, NEW p \in Pages
             PROVE  ActiveMirrored(p)' /\ AbsentMirrored(p)'
  BY DEF FullPullTracked
<1> DEFINE Goal == ActiveMirrored(p)' /\ AbsentMirrored(p)'
<1>2. ASSUME pull'.pc \in {"idle", "query"}, pull'.ended = "no",
             ~(pull'.pc = "query" /\ p <= pull'.cursor)
      PROVE  Goal
  BY <1>2 DEF ActiveMirrored, AbsentMirrored
<1>3. ASSUME pull' = NoPull
      PROVE  Goal
  BY <1>2, <1>3, EmptyPull
<1>4. ASSUME pull.from = 0, pull.since = 0, pull.disturbed = {}
      PROVE  ActiveMirrored(p) /\ AbsentMirrored(p)
  BY <1>1, <1>4 DEF FullPullTracked
<1> HIDE DEF Goal
<1>5. ASSUME NEW what \in {"remote", "settlement"}, Disturb(what)
      PROVE  Goal
  BY <1>1, <1>3, <1>5, DisturbedPull
<1>6. ASSUME NEW q \in Pages, Edit(q) \/ Move(q) \/ Settle(q)
      PROVE  Goal
  BY <1>5, <1>6 DEF Edit, Move, PlacePage, Settle
<1>7. ASSUME NEW q \in Pages, NEW c \in {"TrashPage", "RestorePage"}, Push(q, c)
      PROVE  Goal
  BY <1>5, <1>7 DEF Push, PlacePage
<1>8. ASSUME NEW q \in Pages, NEW v \in {"active", "trash"}, KeepRemote(q, v)
      PROVE  Goal
  BY <1>5, <1>8 DEF KeepRemote
<1>9. ASSUME \/ RaiseDivergence
             \/ \E q \in Pages, v \in {"active", "trash"} : KeepLocal(q, v)
             \/ UNCHANGED vars
      PROVE  Goal
  <2>1. pull'.from = pull.from /\ pull'.since = pull.since /\ pull'.disturbed = pull.disturbed
    <3>1. CASE RaiseDivergence
      BY <1>1, <3>1, RaisePull
    <3>2. CASE \E q \in Pages, v \in {"active", "trash"} : KeepLocal(q, v)
      BY <3>2 DEF KeepLocal
    <3>3. CASE UNCHANGED vars
      BY <3>3 DEF vars
    <3> QED  BY <1>9, <3>1, <3>2, <3>3
  <2> QED  BY <1>4, <1>9, <2>1, FreezeMirrors DEF Goal
<1>10. ASSUME NEW incremental \in BOOLEAN, Begin(incremental)
       PROVE  Goal
  <2>1. /\ pull'.pc = "query" /\ pull'.ended = "no" /\ pull'.cursor = 0
    BY <1>10, BeginEffect
  <2>2. p \in Nat \ {0}
    BY ObservationAssumption
  <2>3. ~(p <= 0)
    BY <2>2
  <2> QED  BY <1>2, <2>1, <2>3
<1>11. ASSUME Interrupt
       PROVE  Goal
  BY <1>3, <1>11 DEF Interrupt
<1>12. ASSUME QueryPage
       PROVE  Goal
  BY <1>1, <1>12, QueryPageMirrors DEF Goal
<1>13. ASSUME Verify
       PROVE  Goal
  <2>1. pull'.from = pull.from /\ pull'.since = pull.since /\ pull'.disturbed = pull.disturbed
    BY <1>1, <1>13, VerifyEffect DEF Inv
  <2> QED  BY <1>4, <1>13, <2>1, VerifyMirrors DEF Goal
<1>14. ASSUME Classify
       PROVE  Goal
  <2>1. pull'.from = pull.from /\ pull'.since = pull.since /\ pull'.disturbed = pull.disturbed
    BY <1>1, <1>14, ClassifyEffect
  <2> QED  BY <1>4, <1>14, <2>1, ClassifyMirrors DEF Goal
<1>15. ASSUME Complete
       PROVE  Goal
  <2>1. pull'.from = pull.from /\ pull'.since = pull.since /\ pull'.disturbed = pull.disturbed
    BY <1>1, <1>15, CompleteEffect
  <2> QED  BY <1>4, <1>15, <2>1, CompleteMirrors DEF Goal
<1>16. ASSUME AppendNext
       PROVE  Goal
  <2>1. pull'.from = pull.from /\ pull'.since = pull.since /\ pull'.disturbed = pull.disturbed
    BY <1>1, <1>16, AppendNextEffect
  <2> QED  BY <1>4, <1>16, <2>1, AppendKeepsActive, AppendKeepsAbsent DEF Goal
<1>17. Goal
  BY <1>6, <1>7, <1>8, <1>9, <1>10, <1>11, <1>12, <1>13, <1>14, <1>15, <1>16 DEF Next, PullStep
<1> QED  BY <1>17 DEF Goal

LEMMA MirrorInit == Init => MirrorInv
<1> SUFFICES ASSUME Init
             PROVE  MirrorInv
  OBVIOUS
<1>1. /\ pull = NoPull /\ recorded = {}
      /\ NoPull.pc = "idle" /\ NoPull.queue = <<>> /\ NoPull.missing = {} /\ NoPull.seen = {}
      /\ NoPull.ended = "no" /\ ~NoPull.checked
  BY EmptyPull DEF Init
<1>2. 1..Len(pull.queue) = {}
  <2>1. Len(pull.queue) = 0
    BY <1>1
  <2> QED  BY <2>1
<1>3. \A p \in Pages :
        /\ remote[p].value = 1 /\ remote[p].place = "active"
        /\ db.row[p].value = 0 /\ ~db.row[p].inTrash /\ db.shadow[p] = 0
        /\ db.tombstone[p] = "none" /\ db.target[p] = "none" /\ landed[p] = "none" /\ places[p] = {"active"}
        /\ \A w \in {"active", "trash"} : db.conflict[p][w] = "none"
  BY DEF Init
<1>4. ASSUME NEW p \in Pages
      PROVE  LifecycleTracked(p)
  BY <1>3 DEF LifecycleTracked, Undisputed
<1>5. ASSUME NEW p \in Pages
      PROVE  TombstoneTracked(p) /\ Overtaken(p)
  BY <1>2, <1>3 DEF TombstoneTracked, Overtaken, RowQueued, TombstoneQueued
<1>6. QueuePhases
  BY <1>1, <1>2 DEF QueuePhases
<1>7. DivergenceRaised
  BY <1>1 DEF DivergenceRaised
<1>8. ValuesGrow
  BY <1>1, <1>2, <1>3 DEF ValuesGrow, Projected
<1>9. ReadIsCurrent
  BY <1>1, <1>2 DEF ReadIsCurrent
<1>10. FullPullTracked
  BY <1>1 DEF FullPullTracked, ActiveMirrored, AbsentMirrored
<1> QED  BY <1>4, <1>5, <1>6, <1>7, <1>8, <1>9, <1>10 DEF MirrorInv

LEMMA MirrorStep ==
  ASSUME Inv, MirrorInv, ~Returns, ~Overlap, [Next]_vars
  PROVE  MirrorInv'
<1>1. ASSUME NEW p \in Pages
      PROVE  LifecycleTracked(p)' /\ TombstoneTracked(p)' /\ Overtaken(p)'
  BY LifecycleStep, TombstoneStep, OvertakenStep
<1>2. QueuePhases' /\ DivergenceRaised' /\ ValuesGrow' /\ ReadIsCurrent' /\ FullPullTracked'
  BY PhasesStep, DivergenceStep, ValuesStep, ReadIsCurrentStep, FullPullStep
<1> QED  BY <1>1, <1>2 DEF MirrorInv

LEMMA MirrorInvMirrors == MirrorInv => FullPullMirrors
<1> SUFFICES ASSUME MirrorInv, pull.pc = "done", pull.since = 0, pull.from = 0,
                    pull.ended = "terminal", ~pull.faulty, pull.disturbed = {},
                    NEW p \in Pages, landed[p] = "none"
             PROVE  Mirrors(p)
  BY DEF FullPullMirrors
<1>1. pull.queue = <<>> /\ pull.missing = {}
  BY DEF MirrorInv, QueuePhases
<1>2. 1..Len(pull.queue) = {}
  <2>1. Len(pull.queue) = 0
    BY <1>1
  <2> QED  BY <2>1
<1>3. ~RowQueued(p) /\ ~PropertyQueued(p) /\ \A reason : ~TombstoneQueued(p, reason)
  BY <1>2 DEF RowQueued, PropertyQueued, TombstoneQueued
<1>4. ActiveMirrored(p) /\ AbsentMirrored(p)
  BY DEF MirrorInv, FullPullTracked
<1>5. remote[p].place = "active" =>
        /\ db.row[p].value = remote[p].value
        /\ db.shadow[p] = remote[p].value
        /\ Frozen(p) \/ (~db.row[p].inTrash /\ db.tombstone[p] # "remote_trash")
  <2>1. remote[p].place = "active" =>
          /\ db.row[p].value = remote[p].value
          /\ db.shadow[p] = remote[p].value
          /\ Frozen(p) \/ ~db.row[p].inTrash
    BY <1>3, <1>4 DEF ActiveMirrored, PropertyQueued
  <2>2. remote[p].place = "active" /\ ~Frozen(p) /\ db.tombstone[p] = "remote_trash" =>
          db.target[p] = "trash" /\ Undisputed(p)
    BY DEF MirrorInv, TombstoneTracked
  <2>3. Undisputed(p) /\ db.target[p] = "trash" => db.row[p].inTrash
    BY DEF MirrorInv, LifecycleTracked
  <2> QED  BY <2>1, <2>2, <2>3
<1>6. Known(p) =>
        /\ remote[p].place = "trash" => Frozen(p) \/ db.row[p].inTrash
        /\ remote[p].place = "elsewhere" => Tombstoned(p, "moved_out")
  BY <1>1, <1>3, <1>4 DEF AbsentMirrored
<1>7. remote[p].place = "elsewhere" /\ Tombstoned(p, "moved_out") =>
        db.tombstone[p] \in {"moved_out", "unknown"}
  BY DEF MirrorInv, Overtaken
<1> QED  BY <1>5, <1>6, <1>7 DEF Mirrors

\* When pages keep to contents and places they have not had, except to go against a settled
\* command for the first time, and commands are pushed between pulls, a full pull
\* (pullOneShotSync) that ended, retrieved without errors and was not overtaken leaves rows
\* and property values as Notion has them, in_trash right or held by a live conflict, no
\* page that is there, and not held, tombstoned as trashed, and every known page that was
\* moved out tombstoned as moved, or as unknown by an earlier failure.  (An
\* unclassified, "unknown" or "moved_out" tombstone of a page that is there again may
\* stay.)  The two hypotheses are those under which the idempotency keys made of the
\* observed content tell an old observation from a new one.
THEOREM FullPullsMirror ==
  ASSUME ~Returns, ~Overlap
  PROVE  Spec => []FullPullMirrors
<1>1. Init => Inv /\ MirrorInv
  BY MirrorInit, InitInv
<1>2. Inv /\ MirrorInv /\ [Next]_vars => Inv' /\ MirrorInv'
  BY MirrorStep, NextInv
<1>3. Inv /\ MirrorInv => FullPullMirrors
  BY MirrorInvMirrors
<1> QED  BY <1>1, <1>2, <1>3, PTL DEF Spec
=============================================================================
