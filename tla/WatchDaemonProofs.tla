------------------------- MODULE WatchDaemonProofs -------------------------
(***************************************************************************)
(* Theorems about WatchDaemon for every set of signals and processes, every *)
(* lease, backoff and Retry-After, and every bound; the last two are about  *)
(* processes that do not overlap.                                           *)
(***************************************************************************)
EXTENDS WatchDaemon, TLAPS

Outcomes == {"completed", "syncFailed", "pushFailed", "storeFailed", "cancelled"}

LEMMA InitialRecord == NotStarted \in DaemonRecord /\ Ended \in DaemonRecord
<1>1. 0 \in 0..RestCap
  BY WatchAssumption DEF RestCap
<1>2. InitialFile \in StateFile /\ "none" \in Repairs
  BY DEF InitialFile, StateFile, Repairs
<1>3. NotStarted \in DaemonRecord
  BY <1>1, <1>2 DEF NotStarted, DaemonRecord
<1> QED  BY <1>3 DEF Ended, DaemonRecord

\* The inbox operations keep a row a row, and none of them revives a processed one.
LEMMA RowOperations ==
  ASSUME NEW row \in SignalRow, NEW d \in Daemons
  PROVE  /\ Enqueue(row) \in SignalRow
         /\ ClaimedBy(d) \in SignalRow
         /\ SettleSignal(row, d) \in SignalRow
         /\ ReleaseSignal(row, d) \in SignalRow
         /\ Older(row) \in SignalRow
         /\ Enqueue(row).state # "absent"
         /\ row.state # "absent" => Enqueue(row) = row
         /\ Older(row).state = row.state
         /\ row.state # "claimed" => Older(row) = row
  BY WatchAssumption DEF SignalRow, Enqueue, ClaimedBy, SettleSignal, ReleaseSignal,
    HeldBy, Older

\* The delay of a rest fits its timer.
LEMMA DelayTyped ==
  ASSUME TypeOK, NEW d \in Daemons
  PROVE  Delay(d) \in 0..RestCap
  BY WatchAssumption DEF Delay, Ticks, RestCap

\* The end of a cycle leaves a proper record.
LEMMA ConcludeTyped ==
  ASSUME TypeOK, NEW d \in Daemons, NEW outcome \in Outcomes, Conclude(d, outcome)
  PROVE  daemon' \in [Daemons -> DaemonRecord]
<1> DEFINE new == IF outcome = "cancelled" THEN Ended
                  ELSE [NotStarted EXCEPT !.pc = "rest", !.outcome = outcome,
                          !.pendingWake = daemon[d].pendingWake,
                          !.aborted = daemon[d].aborted]
<1>1. daemon[d] \in DaemonRecord
  BY DEF TypeOK
<1>2. daemon[d].pendingWake \in BOOLEAN /\ daemon[d].aborted \in BOOLEAN
  BY <1>1 DEF DaemonRecord
<1>3. new \in DaemonRecord
  <2>1. ASSUME NEW r \in DaemonRecord, NEW b \in BOOLEAN, NEW c \in BOOLEAN
        PROVE  [r EXCEPT !.pc = "rest", !.outcome = outcome, !.pendingWake = b,
                         !.aborted = c] \in DaemonRecord
    BY DEF DaemonRecord, Outcomes
  <2> QED  BY <1>2, <2>1, InitialRecord
<1>4. daemon' = [daemon EXCEPT ![d] = new]
  BY DEF Conclude
<1> QED  BY <1>3, <1>4 DEF TypeOK
-----------------------------------------------------------------------------
(* Type correctness.                                                          *)

\* A step of process d leaves every variable in its type and the other processes alone.
LEMMA StepTyped ==
  ASSUME TypeOK, NEW d \in Daemons,
         \/ Begin(d) \/ Mark(d) \/ Claim(d) \/ Push(d) \/ Sync(d) \/ Report(d)
         \/ Finish(d) \/ Rest(d) \/ Timer(d)
  PROVE  /\ daemon' \in [Daemons -> DaemonRecord]
         /\ \A e \in Daemons \ {d} : daemon'[e] = daemon[e]
         /\ inbox' \in [Signals -> SignalRow]
         /\ file' \in StateFile
         /\ localWork' \in BOOLEAN
         /\ synced' \in SUBSET Signals
         /\ budget' \in [{"errors", "ends"} -> Nat]
<1> USE DEF TypeOK
<1>0. /\ daemon[d] \in DaemonRecord
      /\ \A s \in Signals : inbox[s] \in SignalRow
      /\ InitialFile \in StateFile /\ NotStarted.signal = Nobody
  BY DEF InitialFile, StateFile, Repairs, NotStarted
<1>f. ASSUME NEW o \in Outcomes, Conclude(d, o)
      PROVE  /\ daemon' \in [Daemons -> DaemonRecord]
             /\ \A e \in Daemons \ {d} : daemon'[e] = daemon[e]
  <2>1. daemon' \in [Daemons -> DaemonRecord]
    BY <1>f, ConcludeTyped
  <2> QED  BY <1>f, <2>1 DEF Conclude
<1>g. ASSUME NEW p \in InCycle, Goto(d, p)
      PROVE  /\ daemon' \in [Daemons -> DaemonRecord]
             /\ \A e \in Daemons \ {d} : daemon'[e] = daemon[e]
  BY <1>0, <1>g DEF Goto, DaemonRecord, InCycle
<1>h. ASSUME Spend("errors", MaxErrors) \/ UNCHANGED budget
      PROVE  budget' \in [{"errors", "ends"} -> Nat]
  BY <1>h DEF Spend
<1>i. Arrived \in SUBSET Signals
  BY DEF Arrived
<1>1. CASE Begin(d)
  <2>1. CASE daemon[d].aborted /\ Conclude(d, "cancelled") /\ UNCHANGED <<file, budget>>
    BY <1>1, <2>1, <1>f DEF Begin, Outcomes
  <2>2. CASE /\ daemon' = [daemon EXCEPT ![d] = [@ EXCEPT !.pc = "mark", !.previous = file]]
             /\ UNCHANGED <<file, budget>>
    BY <1>0, <1>1, <2>2 DEF Begin, DaemonRecord, InCycle
  <2>3. CASE StoreFails(d)
    BY <1>1, <2>3, <1>f, <1>h DEF Begin, StoreFails, Outcomes
  <2> QED  BY <1>1, <2>1, <2>2, <2>3 DEF Begin
<1>2. CASE Mark(d)
  <2>1. CASE StoreFails(d)
    BY <1>2, <2>1, <1>f, <1>h DEF Mark, StoreFails, Outcomes
  <2>2. CASE ~StoreFails(d)
    <3>1. /\ file' = [unfinished |-> TRUE, repair |->
                IF daemon[d].previous.unfinished THEN "at-once" ELSE daemon[d].previous.repair]
          /\ Goto(d, "claim") /\ UNCHANGED budget
      BY <1>2, <2>2 DEF Mark
    <3>2. daemon[d].previous \in StateFile
      BY <1>0 DEF DaemonRecord
    <3>3. file' \in StateFile
      BY <3>1, <3>2 DEF StateFile, Repairs
    <3> QED  BY <1>2, <3>1, <3>3, <1>g DEF Mark, InCycle
  <2> QED  BY <2>1, <2>2
<1>3. CASE Claim(d)
  <2>1. ASSUME NEW s \in Signals \cup {Nobody}, StartPass(d, s)
        PROVE  /\ daemon' \in [Daemons -> DaemonRecord]
               /\ \A e \in Daemons \ {d} : daemon'[e] = daemon[e]
    BY <1>0, <1>i, <2>1 DEF StartPass, DaemonRecord, InCycle
  <2>2. CASE \E s \in Signals : inbox' = [inbox EXCEPT ![s] = ClaimedBy(d)] /\ StartPass(d, s)
    BY <1>0, <1>3, <2>1, <2>2, RowOperations DEF Claim
  <2>3. CASE StartPass(d, Nobody) /\ UNCHANGED inbox
    BY <1>3, <2>1, <2>3 DEF Claim
  <2> QED  BY <1>3, <2>2, <2>3 DEF Claim
<1>4. CASE Push(d)
  <2>1. CASE Conclude(d, "pushFailed")
    BY <1>4, <2>1, <1>f, <1>h DEF Push, Outcomes
  <2>2. CASE daemon' = [daemon EXCEPT ![d] = [@ EXCEPT !.pc = "sync", !.covers = Arrived]]
    BY <1>0, <1>i, <1>4, <1>h, <2>2 DEF Push, DaemonRecord, InCycle
  <2>3. localWork' \in BOOLEAN
    BY <1>4 DEF Push
  <2> QED  BY <1>4, <2>1, <2>2, <2>3 DEF Push
<1>5. CASE Sync(d)
  <2>1. inbox' \in [Signals -> SignalRow]
    <3>1. \/ inbox' = [s \in Signals |->
               IF s = daemon[d].signal THEN SettleSignal(inbox[s], d) ELSE inbox[s]]
          \/ inbox' = [s \in Signals |->
               IF s = daemon[d].signal THEN ReleaseSignal(inbox[s], d) ELSE inbox[s]]
      BY <1>5 DEF Sync, SyncSucceeds, SyncReleases, SettleClaimed, ReleaseClaimed
    <3>2. \A s \in Signals : /\ SettleSignal(inbox[s], d) \in SignalRow
                            /\ ReleaseSignal(inbox[s], d) \in SignalRow
      BY <1>0, RowOperations
    <3> QED  BY <1>0, <3>1, <3>2
  <2>2. synced' \in SUBSET Signals
    BY <1>0, <1>5 DEF Sync, SyncSucceeds, SyncReleases, DaemonRecord
  <2>3. CASE SyncSucceeds(d) /\ UNCHANGED budget
    BY <1>5, <2>1, <2>2, <2>3, <1>f, <1>g DEF Sync, SyncSucceeds, Outcomes, InCycle
  <2>4. ASSUME NEW c \in Repairs, NEW o \in Outcomes, SyncReleases(d, c, o)
        PROVE  /\ daemon' \in [Daemons -> DaemonRecord]
               /\ \A e \in Daemons \ {d} : daemon'[e] = daemon[e]
    BY <1>0, <2>4 DEF SyncReleases, DaemonRecord, InCycle, Outcomes
  <2>5. CASE ~SyncSucceeds(d)
    BY <1>5, <1>h, <2>1, <2>2, <2>4, <2>5 DEF Sync, Repairs, Outcomes
  <2>6. CASE SyncSucceeds(d) /\ ~UNCHANGED budget
    BY <1>5, <1>h, <2>1, <2>2, <2>4, <2>6 DEF Sync, Repairs, Outcomes
  <2> QED  BY <2>3, <2>5, <2>6
<1>6. CASE Report(d)
  <2>1. CASE StoreFails(d)
    BY <1>6, <2>1, <1>f, <1>h DEF Report, StoreFails, Outcomes
  <2>2. CASE ~StoreFails(d)
    <3>1. daemon[d].cause \in Repairs
      BY <1>0 DEF DaemonRecord
    <3>3. file' = FailureFile(d) /\ UNCHANGED budget
      BY <1>6, <2>2 DEF Report
    <3>4. file' \in StateFile
      BY <3>1, <3>3 DEF FailureFile, StateFile
    <3>2. daemon[d].outcome \in Outcomes /\ Conclude(d, daemon[d].outcome)
      BY <1>0, <1>6, <2>2 DEF Report, DaemonRecord, Outcomes
    <3> QED  BY <1>6, <3>2, <3>3, <3>4, <1>f DEF Report
  <2> QED  BY <2>1, <2>2
<1>7. CASE Finish(d)
  BY <1>0, <1>7, <1>f, <1>h DEF Finish, StoreFails, Outcomes
<1>8. CASE Rest(d)
  <2>1. CASE Conclude(d, "cancelled")
    BY <1>8, <2>1, <1>f DEF Rest, Outcomes
  <2>2. CASE daemon' = [daemon EXCEPT ![d] = [@ EXCEPT !.pc = "begin", !.pendingWake = FALSE]]
    BY <1>0, <1>8, <2>2 DEF Rest, DaemonRecord, InCycle
  <2>3. CASE daemon' = [daemon EXCEPT ![d] = [@ EXCEPT !.pc = "sleep", !.rest = Delay(d)]]
    BY <1>0, <1>8, <2>3, DelayTyped DEF Rest, DaemonRecord
  <2> QED  BY <1>8, <2>1, <2>2, <2>3 DEF Rest
<1>9. CASE Timer(d)
  BY <1>9, <1>g DEF Timer, InCycle
<1> QED  BY <1>1, <1>2, <1>3, <1>4, <1>5, <1>6, <1>7, <1>8, <1>9

LEMMA TypeStep == TypeOK /\ [Next]_vars => TypeOK'
<1> SUFFICES ASSUME TypeOK, [Next]_vars PROVE TypeOK'
  OBVIOUS
<1> USE DEF TypeOK
<1>0. /\ \A d \in Daemons : daemon[d] \in DaemonRecord
      /\ \A s \in Signals : inbox[s] \in SignalRow
  OBVIOUS
<1>1. ASSUME NEW d \in Daemons, Step(d) PROVE TypeOK'
  <2>1. receiver' \in [Daemons -> SUBSET Signals]
    BY <1>1 DEF Step
  <2> QED  BY <1>1, <2>1, StepTyped DEF Step
<1>2. ASSUME NEW d \in Daemons, Wake(d) PROVE TypeOK'
  <2>1. Notified(d) \in DaemonRecord
    <3>1. 0 \in 0..RestCap
      BY WatchAssumption DEF RestCap
    <3> QED  BY <1>0, <3>1 DEF Notified, DaemonRecord, InCycle
  <2> QED  BY <1>2, <2>1 DEF Wake
<1>3. ASSUME NEW d \in Daemons, Start(d) PROVE TypeOK'
  BY <1>0, <1>3 DEF Start, Goto, DaemonRecord, InCycle
<1>4. ASSUME NEW d \in Daemons, Crash(d) PROVE TypeOK'
  BY <1>4, InitialRecord DEF Crash, Spend
<1>5. ASSUME NEW d \in Daemons, Abort(d) PROVE TypeOK'
  <2>1. daemon' \in [Daemons -> DaemonRecord]
    <3>1. [daemon[d] EXCEPT !.aborted = TRUE] \in DaemonRecord
      BY <1>0 DEF DaemonRecord
    <3> QED  BY <1>5, <3>1 DEF Abort
  <2>2. budget' \in [{"errors", "ends"} -> Nat]
    BY <1>5 DEF Abort, Spend
  <2> QED  BY <1>5, <2>1, <2>2 DEF Abort
<1>6. ASSUME NEW d \in Daemons, NEW s \in Signals, Deliver(d, s) PROVE TypeOK'
  BY <1>0, <1>6, RowOperations DEF Deliver
<1>7. CASE LocalEdit
  BY <1>7 DEF LocalEdit
<1>8. CASE Tick
  <2>1. \A d \in Daemons : Rested(daemon[d]) \in DaemonRecord
    <3>1. ASSUME NEW d \in Daemons, daemon[d].rest > 0
          PROVE  daemon[d].rest - 1 \in 0..RestCap
      BY <1>0, <3>1, WatchAssumption DEF DaemonRecord, RestCap
    <3> QED  BY <1>0, <3>1 DEF Rested, DaemonRecord
  <2>2. \A s \in Signals : Older(inbox[s]) \in SignalRow
    <3>1. CASE Daemons = {}
      BY <1>0, <3>1, WatchAssumption DEF Older, SignalRow
    <3>2. CASE Daemons # {}
      BY <1>0, <3>2, RowOperations
    <3> QED  BY <3>1, <3>2
  <2> QED  BY <1>8, <2>1, <2>2 DEF Tick
<1>9. CASE UNCHANGED vars
  BY <1>9 DEF vars
<1> QED  BY <1>1, <1>2, <1>3, <1>4, <1>5, <1>6, <1>7, <1>8, <1>9 DEF Next

LEMMA TypeInit == Init => TypeOK
<1>1. 0 \in 0..LeaseDuration
  BY WatchAssumption
<1>2. [state |-> "absent", lease |-> Nobody, age |-> 0] \in SignalRow
  BY <1>1 DEF SignalRow
<1>3. InitialFile \in StateFile
  BY DEF InitialFile, StateFile, Repairs
<1>4. [errors |-> 0, ends |-> 0] \in [{"errors", "ends"} -> Nat]
  OBVIOUS
<1> SUFFICES ASSUME Init PROVE TypeOK
  OBVIOUS
<1>5. inbox \in [Signals -> SignalRow] /\ daemon \in [Daemons -> DaemonRecord]
  BY <1>2, InitialRecord DEF Init
<1> QED  BY <1>3, <1>4, <1>5 DEF Init, TypeOK

\* Type correctness, for all constants.
THEOREM TypeCorrect == Spec => []TypeOK
  BY TypeInit, TypeStep, PTL DEF Spec
-----------------------------------------------------------------------------
(* The signal inbox.                                                          *)

\* What a step may do to a signal: it stays processed, stays arrived, becomes processed
\* by a sync pass that succeeds, and loses its claim to the pass of its holder only.
LEMMA SignalMoves ==
  ASSUME TypeOK, [Next]_vars, NEW s \in Signals
  PROVE  /\ inbox[s].state = "processed" => inbox'[s] = inbox[s]
         /\ inbox[s].state # "absent" => inbox'[s].state # "absent"
         /\ inbox'[s].state = "processed" =>
              \/ inbox[s].state = "processed"
              \/ \E d \in Daemons : Sync(d) /\ SyncSucceeds(d) /\ daemon[d].signal = s
         /\ inbox[s].state = "claimed" /\ inbox'[s].state # "claimed" =>
              \E d \in Daemons : /\ inbox[s].lease = d /\ daemon[d].pc = "sync"
                                 /\ daemon[d].signal = s
<1> USE DEF TypeOK
<1>0. \A t \in Signals : inbox[t] \in SignalRow
  OBVIOUS
<1>1. ASSUME NEW d \in Daemons, Claim(d) PROVE
        \/ inbox'[s] = inbox[s]
        \/ inbox[s].state \in {"pending", "claimed"} /\ inbox'[s].state = "claimed"
  BY <1>0, <1>1 DEF Claim, Claimable, ClaimedBy
<1>2. ASSUME NEW d \in Daemons, Sync(d) PROVE
        \/ inbox'[s] = inbox[s]
        \/ /\ daemon[d].pc = "sync" /\ daemon[d].signal = s /\ HeldBy(inbox[s], d)
           /\ \/ SyncSucceeds(d) /\ inbox'[s].state = "processed"
              \/ inbox'[s].state = "pending"
  BY <1>0, <1>2 DEF Sync, SyncSucceeds, SyncReleases, SettleClaimed,
    ReleaseClaimed, SettleSignal, ReleaseSignal
<1>3. ASSUME NEW d \in Daemons, Step(d), ~Claim(d), ~Sync(d) PROVE inbox'[s] = inbox[s]
  BY <1>3 DEF Step, Begin, Mark, Push, Report, Finish, Rest, Timer
<1>4. ASSUME NEW d \in Daemons, Wake(d) \/ Start(d) \/ Crash(d) \/ Abort(d)
      PROVE inbox'[s] = inbox[s]
  BY <1>4 DEF Wake, Start, Crash, Abort
<1>5. ASSUME NEW d \in Daemons, NEW t \in Signals, Deliver(d, t) PROVE
        \/ inbox'[s] = inbox[s]
        \/ inbox[s].state = "absent" /\ inbox'[s].state = "pending"
  BY <1>0, <1>5 DEF Deliver, Enqueue, SignalRow
<1>6. CASE Tick
  BY <1>0, <1>6 DEF Tick, Older, SignalRow
<1>7. CASE LocalEdit \/ UNCHANGED vars
  BY <1>7 DEF LocalEdit, vars
<1> QED  BY <1>1, <1>2, <1>3, <1>4, <1>5, <1>6, <1>7 DEF Next, HeldBy, Step

\* A cycle's claim: taken by Claim, covered by the sync pass that follows, and kept until
\* the cycle ends.
LEMMA ClaimMoves ==
  ASSUME TypeOK, [Next]_vars, NEW d \in Daemons, daemon'[d].signal # Nobody
  PROVE  /\ \/ daemon'[d].signal = daemon[d].signal
            \/ Claimable(inbox[daemon'[d].signal]) /\ daemon'[d].signal \in Signals
         /\ daemon'[d].pc = "sync" =>
              \/ daemon'[d].covers = Arrived
              \/ /\ daemon[d].pc = "sync" /\ daemon'[d].covers = daemon[d].covers
                 /\ daemon'[d].signal = daemon[d].signal
<1> USE DEF TypeOK
<1>0. daemon[d] \in DaemonRecord /\ NotStarted.signal = Nobody /\ Ended.signal = Nobody
  BY DEF NotStarted, Ended
<1>a. ASSUME NEW o, Conclude(d, o) PROVE FALSE
  BY <1>0, <1>a DEF Conclude, NotStarted
<1>b. ASSUME NEW p \in InCycle \cup {"sleep"}, p # "sync", Goto(d, p)
      PROVE  daemon'[d].signal = daemon[d].signal /\ daemon'[d].pc # "sync"
  BY <1>0, <1>b DEF Goto, DaemonRecord
<1>1. CASE Begin(d)
  <2>1. daemon' = [daemon EXCEPT ![d] = [@ EXCEPT !.pc = "mark", !.previous = file]]
    BY <1>1, <1>a DEF Begin, StoreFails
  <2> QED  BY <1>0, <2>1 DEF DaemonRecord
<1>12. CASE Mark(d)
  <2>1. Goto(d, "claim")
    BY <1>12, <1>a DEF Mark, StoreFails
  <2> QED  BY <1>b, <2>1 DEF InCycle
<1>13. CASE Report(d) \/ Finish(d)
  BY <1>13, <1>a DEF Report, Finish, StoreFails
<1>14. CASE Timer(d)
  BY <1>14, <1>b DEF Timer, InCycle
<1>2. CASE Claim(d)
  <2>1. ASSUME NEW s, StartPass(d, s)
        PROVE  /\ daemon'[d].signal = s
               /\ daemon'[d].pc = "sync" => daemon'[d].covers = Arrived
    BY <1>0, <2>1 DEF StartPass, DaemonRecord
  <2> QED  BY <1>2, <2>1 DEF Claim
<1>3. CASE Push(d)
  BY <1>0, <1>3, <1>a DEF Push, DaemonRecord
<1>4. CASE Sync(d)
  <2>1. CASE SyncSucceeds(d)
    BY <2>1, <1>a, <1>b DEF SyncSucceeds, InCycle
  <2>2. ASSUME NEW c, NEW o, SyncReleases(d, c, o)
        PROVE  daemon'[d].signal = daemon[d].signal /\ daemon'[d].pc = "report"
    BY <1>0, <2>2 DEF SyncReleases, DaemonRecord
  <2> QED  BY <1>4, <2>1, <2>2 DEF Sync
<1>5. CASE Rest(d)
  <2>1. CASE daemon' = [daemon EXCEPT ![d] = [@ EXCEPT !.pc = "begin", !.pendingWake = FALSE]]
    BY <1>0, <2>1 DEF DaemonRecord
  <2>2. CASE daemon' = [daemon EXCEPT ![d] = [@ EXCEPT !.pc = "sleep", !.rest = Delay(d)]]
    BY <1>0, <2>2 DEF DaemonRecord
  <2> QED  BY <1>5, <1>a, <2>1, <2>2 DEF Rest
<1>6. CASE Wake(d)
  BY <1>0, <1>6 DEF Wake, Notified, DaemonRecord
<1>7. CASE Start(d) \/ Crash(d) \/ Abort(d)
  BY <1>0, <1>7, <1>b DEF Start, Crash, Abort, DaemonRecord, InCycle
<1>8. CASE Tick
  BY <1>0, <1>8 DEF Tick, Rested, DaemonRecord
<1>9. CASE \E e \in Daemons \ {d} : Step(e)
  BY <1>9, StepTyped DEF Step
<1>10. CASE \E e \in Daemons \ {d} : Wake(e) \/ Start(e) \/ Crash(e) \/ Abort(e)
  BY <1>10 DEF Wake, Start, Crash, Abort, Goto
<1>11. CASE LocalEdit \/ (\E e \in Daemons, s \in Signals : Deliver(e, s)) \/ UNCHANGED vars
  BY <1>11 DEF LocalEdit, Deliver, vars
<1> QED  BY <1>1, <1>2, <1>3, <1>4, <1>5, <1>6, <1>7, <1>8, <1>9, <1>10, <1>11,
  <1>12, <1>13, <1>14 DEF Next, Step

LEMMA CoveredStep == TypeOK /\ ClaimsCovered /\ [Next]_vars => ClaimsCovered'
<1> SUFFICES ASSUME TypeOK, ClaimsCovered, [Next]_vars, NEW d \in Daemons,
                    daemon'[d].signal # Nobody
             PROVE  /\ daemon'[d].signal \in Arrived'
                    /\ daemon'[d].pc = "sync" => daemon'[d].signal \in daemon'[d].covers
  BY DEF ClaimsCovered
<1>1. Arrived \subseteq Arrived'
  BY SignalMoves DEF Arrived
<1>2. daemon'[d].signal \in Arrived
  <2>1. CASE daemon'[d].signal = daemon[d].signal
    BY <2>1 DEF ClaimsCovered
  <2>2. CASE Claimable(inbox[daemon'[d].signal]) /\ daemon'[d].signal \in Signals
    BY <2>2 DEF Claimable, Arrived
  <2> QED  BY <2>1, <2>2, ClaimMoves
<1>3. CASE daemon'[d].pc = "sync"
  BY <1>1, <1>2, <1>3, ClaimMoves DEF ClaimsCovered
<1> QED  BY <1>1, <1>2, <1>3

LEMMA SyncedStep ==
  TypeOK /\ ClaimsCovered /\ ProcessedWasSynced /\ [Next]_vars => ProcessedWasSynced'
<1> SUFFICES ASSUME TypeOK, ClaimsCovered, ProcessedWasSynced, [Next]_vars,
                    NEW s \in Signals, inbox'[s].state = "processed"
             PROVE  s \in synced'
  BY DEF ProcessedWasSynced
<1>1. CASE inbox[s].state = "processed"
  <2>1. synced \subseteq synced'
    BY DEF Next, Step, Begin, Mark, Claim, Push, Sync, SyncSucceeds, SyncReleases, Report,
      Finish, Rest, Timer, Wake, Start, Crash, Abort, Deliver, LocalEdit, Tick, vars
  <2> QED  BY <1>1, <2>1 DEF ProcessedWasSynced
<1>2. ASSUME NEW d \in Daemons, Sync(d), SyncSucceeds(d), daemon[d].signal = s
      PROVE  s \in synced'
  <2>1. s \in daemon[d].covers
    BY <1>2, WatchAssumption DEF ClaimsCovered, Sync
  <2> QED  BY <1>2, <2>1 DEF SyncSucceeds
<1> QED  BY <1>1, <1>2, SignalMoves

LEMMA CauseStep == TypeOK /\ CauseDelays /\ [Next]_vars => CauseDelays'
<1> SUFFICES ASSUME TypeOK, CauseDelays, [Next]_vars, NEW d \in Daemons,
                    daemon'[d].pc = "report"
             PROVE  daemon'[d].cause \in {"backoff", "retry-after"}
  BY DEF CauseDelays
<1> USE DEF TypeOK
<1>0. daemon[d] \in DaemonRecord /\ Ended.pc = "ended"
  BY DEF Ended, NotStarted
<1>a. ASSUME NEW o, Conclude(d, o) PROVE FALSE
  BY <1>0, <1>a DEF Conclude, NotStarted
<1>b. ASSUME NEW p \in InCycle, p # "report", Goto(d, p) PROVE FALSE
  BY <1>0, <1>b DEF Goto, DaemonRecord
<1>1. CASE Begin(d)
  <2>1. daemon' = [daemon EXCEPT ![d] = [@ EXCEPT !.pc = "mark", !.previous = file]]
    BY <1>1, <1>a DEF Begin, StoreFails
  <2> QED  BY <1>0, <2>1 DEF DaemonRecord
<1>12. CASE Mark(d)
  BY <1>12, <1>a, <1>b DEF Mark, StoreFails, InCycle
<1>13. CASE Report(d) \/ Finish(d)
  BY <1>13, <1>a DEF Report, Finish, StoreFails
<1>14. CASE Timer(d)
  BY <1>14, <1>b DEF Timer, InCycle
<1>2. CASE Claim(d) \/ Push(d)
  <2>1. ASSUME NEW s, StartPass(d, s) PROVE daemon'[d].pc # "report"
    BY <1>0, <2>1 DEF StartPass, DaemonRecord
  <2>2. CASE Claim(d)
    BY <2>1, <2>2 DEF Claim
  <2>3. CASE Push(d)
    <3>1. daemon' = [daemon EXCEPT ![d] = [@ EXCEPT !.pc = "sync", !.covers = Arrived]]
      BY <2>3, <1>a DEF Push
    <3> QED  BY <1>0, <3>1 DEF DaemonRecord
  <2> QED  BY <1>2, <2>2, <2>3
<1>4. CASE Sync(d)
  <2>1. CASE SyncSucceeds(d)
    BY <2>1, <1>a, <1>b DEF SyncSucceeds, InCycle
  <2>2. ASSUME NEW c, NEW o, SyncReleases(d, c, o) PROVE daemon'[d].cause = c
    BY <1>0, <2>2 DEF SyncReleases, DaemonRecord
  <2> QED  BY <1>4, <2>1, <2>2 DEF Sync
<1>5. CASE Rest(d)
  <2>1. CASE daemon' = [daemon EXCEPT ![d] = [@ EXCEPT !.pc = "begin", !.pendingWake = FALSE]]
    BY <1>0, <2>1 DEF DaemonRecord
  <2>2. CASE daemon' = [daemon EXCEPT ![d] = [@ EXCEPT !.pc = "sleep", !.rest = Delay(d)]]
    BY <1>0, <2>2 DEF DaemonRecord
  <2> QED  BY <1>5, <1>a, <2>1, <2>2 DEF Rest
<1>6. CASE Wake(d)
  BY <1>0, <1>6 DEF Wake, Notified, DaemonRecord, CauseDelays
<1>7. CASE Start(d) \/ Crash(d) \/ Abort(d)
  BY <1>0, <1>7, <1>b DEF Start, Crash, Abort, DaemonRecord, InCycle, CauseDelays
<1>8. CASE Tick
  BY <1>0, <1>8 DEF Tick, Rested, DaemonRecord, CauseDelays
<1>9. CASE \E e \in Daemons \ {d} : Step(e)
  BY <1>9, StepTyped DEF Step, CauseDelays
<1>10. CASE \E e \in Daemons \ {d} : Wake(e) \/ Start(e) \/ Crash(e) \/ Abort(e)
  BY <1>10 DEF Wake, Start, Crash, Abort, Goto, CauseDelays
<1>11. CASE LocalEdit \/ (\E e \in Daemons, s \in Signals : Deliver(e, s)) \/ UNCHANGED vars
  BY <1>11 DEF LocalEdit, Deliver, vars, CauseDelays
<1> QED  BY <1>1, <1>2, <1>4, <1>5, <1>6, <1>7, <1>8, <1>9, <1>10, <1>11, <1>12,
  <1>13, <1>14 DEF Next, Step

\* The inductive invariant, for all constants.
THEOREM Invariance == Spec => []Inv
<1>1. Init => Inv
  BY TypeInit, WatchAssumption DEF Init, Inv, ClaimsCovered, CauseDelays,
    ProcessedWasSynced, NotStarted
<1>2. Inv /\ [Next]_vars => Inv'
  BY TypeStep, CoveredStep, SyncedStep, CauseStep DEF Inv
<1> QED  BY <1>1, <1>2, PTL DEF Spec

\* A processed signal was covered by a completed sync pass, whatever fails, crashes,
\* expires or is claimed twice.
THEOREM ProcessedMeansSynced == Spec => []ProcessedWasSynced
<1>1. Inv => ProcessedWasSynced
  BY DEF Inv
<1> QED  BY <1>1, Invariance, PTL

\* The late settle or release of an overtaken process touches no claim of another.
THEOREM ClaimsAreKept == Spec => ClaimKept
<1>1. TypeOK /\ [Next]_vars =>
        [\A s \in Signals : inbox[s].state = "claimed" /\ inbox'[s].state # "claimed"
           => \E d \in Daemons : inbox[s].lease = d /\ daemon[d].pc = "sync"
                                 /\ daemon[d].signal = s]_vars
  BY SignalMoves
<1> QED  BY <1>1, TypeCorrect, PTL DEF Spec, ClaimKept

\* A processed signal stays processed.
THEOREM ProcessedStays == Spec => ProcessedIsFinal
<1>1. TypeOK /\ [Next]_vars =>
        [\A s \in Signals : inbox[s].state = "processed" => inbox'[s] = inbox[s]]_vars
  BY SignalMoves
<1> QED  BY <1>1, TypeCorrect, PTL DEF Spec, ProcessedIsFinal
-----------------------------------------------------------------------------
(* Processes that do not overlap.                                             *)

\* No step of a process wakes another, and only Start brings one to life.
LEMMA LifeMoves ==
  ASSUME TypeOK, [Next]_vars, NEW d \in Daemons, ~Alive(d), Alive(d)'
  PROVE  Start(d)
<1> USE DEF TypeOK
<1>0. daemon[d].pc \in {"down", "ended"} /\ daemon[d] \in DaemonRecord /\ Ended.pc = "ended"
  BY DEF Alive, Ended, NotStarted
<1>1. ~Step(d)
  BY <1>0 DEF Step, Begin, Mark, Claim, Push, Sync, Report, Finish, Rest, Timer
<1>2. ~Wake(d)
  BY <1>0 DEF Wake, Notified, Alive, DaemonRecord
<1>3. ~Crash(d) /\ ~Abort(d)
  BY <1>0 DEF Crash, Abort, Alive
<1>4. ASSUME NEW e \in Daemons \ {d}, Step(e) PROVE FALSE
  BY <1>4, StepTyped DEF Step, Alive
<1>5. ASSUME NEW e \in Daemons \ {d}, Wake(e) \/ Start(e) \/ Crash(e) \/ Abort(e) PROVE FALSE
  BY <1>5 DEF Wake, Start, Crash, Abort, Goto, Alive
<1>6. ~Tick
  BY <1>0 DEF Tick, Rested, Alive
<1>7. ~LocalEdit /\ (\A e \in Daemons, s \in Signals : ~Deliver(e, s)) /\ ~UNCHANGED vars
  BY DEF LocalEdit, Deliver, vars, Alive
<1> QED  BY <1>1, <1>2, <1>3, <1>4, <1>5, <1>6, <1>7 DEF Next

LEMMA AloneStep ==
  ASSUME ~Overlap, TypeOK, Alone, [Next]_vars PROVE Alone'
<1> SUFFICES ASSUME NEW d \in Daemons, NEW e \in Daemons, Alive(d)', Alive(e)', d # e
             PROVE  FALSE
  BY DEF Alone
<1>1. ASSUME NEW a \in Daemons, NEW b \in Daemons, a # b, Start(a), Alive(b)' PROVE FALSE
  <2>1. ~Alive(a) /\ ~Alive(b)
    BY <1>1 DEF Start, Alive
  <2>2. daemon'[b] = daemon[b]
    BY <1>1 DEF Start, Goto, TypeOK
  <2> QED  BY <1>1, <2>1, <2>2 DEF Alive
<1>2. CASE Alive(d) /\ Alive(e)
  BY <1>2 DEF Alone
<1> QED  BY <1>1, <1>2, LifeMoves

\* While one process is alive no other takes a step of its loop.
LEMMA OthersRest ==
  ASSUME Alone, NEW d \in Daemons, Alive(d), NEW e \in Daemons \ {d} PROVE ~Step(e)
BY DEF Alone, Alive, Step, Begin, Mark, Claim, Push, Sync, Report, Finish, Rest, Timer

\* Where the program counter of a process can come from when it rests or sleeps, and
\* where it can go from rest.
LEMMA RestMoves ==
  ASSUME TypeOK, Alone, [Next]_vars, NEW d \in Daemons
  PROVE  /\ daemon'[d].pc = "sleep" => daemon[d].pc = "sleep" \/ Rest(d)
         /\ daemon[d].pc = "rest" /\ daemon'[d].pc = "begin" => Rest(d)
         /\ daemon'[d].pc = "rest" /\ daemon'[d].outcome = "syncFailed" =>
              \/ daemon[d].pc = "rest" /\ daemon[d].outcome = "syncFailed" /\ file' = file
              \/ Report(d) /\ file' = FailureFile(d)
<1> USE DEF TypeOK
<1>0. daemon[d] \in DaemonRecord /\ Ended.pc = "ended"
  BY DEF Ended, NotStarted
<1>a. ASSUME NEW o \in Outcomes, Conclude(d, o)
      PROVE  /\ daemon'[d].pc = (IF o = "cancelled" THEN "ended" ELSE "rest")
             /\ o # "cancelled" => daemon'[d].outcome = o
  BY <1>0, <1>a DEF Conclude, NotStarted
<1>b. ASSUME NEW p, Goto(d, p) PROVE daemon'[d].pc = p
  BY <1>0, <1>b DEF Goto, DaemonRecord
<1>s. StoreFails(d) => daemon'[d].pc = "rest" /\ daemon'[d].outcome = "storeFailed"
  BY <1>a DEF StoreFails, Outcomes
<1>1. CASE Begin(d)
  <2>1. CASE daemon' = [daemon EXCEPT ![d] = [@ EXCEPT !.pc = "mark", !.previous = file]]
    BY <1>0, <1>1, <2>1 DEF Begin, DaemonRecord
  <2> QED  BY <1>1, <1>a, <1>s, <2>1 DEF Begin, Outcomes
<1>2. CASE Mark(d)
  BY <1>2, <1>b, <1>s DEF Mark
<1>3. CASE Claim(d)
  <2>1. ASSUME NEW s, StartPass(d, s) PROVE daemon'[d].pc \in {"push", "sync"}
    BY <1>0, <2>1 DEF StartPass, DaemonRecord
  <2> QED  BY <1>3, <2>1 DEF Claim
<1>4. CASE Push(d)
  <2>1. CASE daemon' = [daemon EXCEPT ![d] = [@ EXCEPT !.pc = "sync", !.covers = Arrived]]
    BY <1>0, <1>4, <2>1 DEF Push, DaemonRecord
  <2> QED  BY <1>4, <1>a, <2>1 DEF Push, Outcomes
<1>5. CASE Sync(d)
  <2>1. CASE SyncSucceeds(d)
    BY <1>5, <2>1, <1>a, <1>b DEF Sync, SyncSucceeds, Outcomes
  <2>2. ASSUME NEW c, NEW o, SyncReleases(d, c, o) PROVE daemon'[d].pc = "report"
    BY <1>0, <2>2 DEF SyncReleases, DaemonRecord
  <2> QED  BY <1>5, <2>1, <2>2 DEF Sync
<1>6. CASE Report(d)
  <2>1. daemon[d].outcome \in Outcomes
    BY <1>0 DEF DaemonRecord, Outcomes
  <2> QED  BY <1>6, <2>1, <1>a, <1>s DEF Report
<1>7. CASE Finish(d)
  BY <1>7, <1>a, <1>s DEF Finish, Outcomes
<1>8. CASE Rest(d)
  <2>1. CASE daemon' = [daemon EXCEPT ![d] = [@ EXCEPT !.pc = "begin", !.pendingWake = FALSE]]
    BY <1>0, <1>8, <2>1 DEF DaemonRecord
  <2>2. CASE daemon' = [daemon EXCEPT ![d] = [@ EXCEPT !.pc = "sleep", !.rest = Delay(d)]]
    BY <1>0, <1>8, <2>2 DEF DaemonRecord
  <2> QED  BY <1>8, <1>a, <2>1, <2>2 DEF Rest, Outcomes
<1>9. CASE Timer(d)
  BY <1>9, <1>b DEF Timer
<1>10. CASE Wake(d)
  BY <1>0, <1>10 DEF Wake, Notified, DaemonRecord
<1>11. CASE Start(d) \/ Crash(d) \/ Abort(d)
  BY <1>0, <1>11, <1>b DEF Start, Crash, Abort, DaemonRecord
<1>12. CASE Tick
  BY <1>0, <1>12 DEF Tick, Rested, DaemonRecord
<1>13. ASSUME NEW e \in Daemons \ {d}, Step(e),
              daemon'[d].pc \in {"rest", "sleep"} \/ daemon[d].pc = "rest" PROVE FALSE
  <2>1. daemon'[d] = daemon[d]
    BY <1>13, StepTyped DEF Step
  <2>2. Alive(d)
    BY <1>13, <2>1 DEF Alive
  <2> QED  BY <1>13, <2>2, OthersRest
<1>14. CASE \E e \in Daemons \ {d} : Wake(e) \/ Start(e) \/ Crash(e) \/ Abort(e)
  BY <1>14 DEF Wake, Start, Crash, Abort, Goto
<1>15. CASE LocalEdit \/ (\E e \in Daemons, s \in Signals : Deliver(e, s)) \/ UNCHANGED vars
  BY <1>15 DEF LocalEdit, Deliver, vars
<1> QED  BY <1>1, <1>2, <1>3, <1>4, <1>5, <1>6, <1>7, <1>8, <1>9, <1>10, <1>11, <1>12,
  <1>13, <1>14, <1>15 DEF Next, Step

LEMMA MarkedStep ==
  ASSUME Inv, Alone, MarkedForDelay, [Next]_vars PROVE MarkedForDelay'
<1> SUFFICES ASSUME NEW d \in Daemons, daemon'[d].pc = "rest",
                    daemon'[d].outcome = "syncFailed"
             PROVE  file'.repair \in {"backoff", "retry-after"}
  BY DEF MarkedForDelay
<1>1. CASE daemon[d].pc = "rest" /\ daemon[d].outcome = "syncFailed" /\ file' = file
  BY <1>1 DEF MarkedForDelay
<1>2. CASE Report(d) /\ file' = FailureFile(d)
  BY <1>2 DEF Report, FailureFile, Inv, CauseDelays
<1> QED  BY <1>1, <1>2, RestMoves DEF Inv

LEMMA SleepStep ==
  ASSUME TypeOK, Alone, NoSignalSleptOn, [Next]_vars PROVE NoSignalSleptOn'
<1> SUFFICES ASSUME NEW d \in Daemons, NEW s \in Signals, inbox'[s].state = "pending",
                    daemon'[d].pc = "sleep", s \notin receiver'[d]
             PROVE  file'.repair # "none"
  BY DEF NoSignalSleptOn, Pending
<1>0. inbox[s] \in SignalRow /\ daemon[d] \in DaemonRecord
  BY DEF TypeOK
<1>1. CASE Rest(d)
  <2>1. file' = file /\ inbox' = inbox
    BY <1>1 DEF Rest
  <2>2. daemon' = [daemon EXCEPT ![d] = [@ EXCEPT !.pc = "sleep", !.rest = Delay(d)]]
        /\ Delay(d) # 0
    <3>1. CASE daemon[d].aborted
      BY <1>1, <3>1 DEF Rest, Conclude, Ended, NotStarted, TypeOK
    <3>2. CASE daemon' = [daemon EXCEPT ![d] =
                            [@ EXCEPT !.pc = "begin", !.pendingWake = FALSE]]
      BY <1>0, <3>2 DEF TypeOK, DaemonRecord
    <3> QED  BY <1>1, <3>1, <3>2 DEF Rest
  <2>3. s \in Pending
    BY <2>1 DEF Pending
  <2> QED  BY <2>1, <2>2, <2>3 DEF Delay
<1>2. CASE daemon[d].pc = "sleep" /\ ~Rest(d)
  <2>1. Alive(d)
    BY <1>2 DEF Alive
  <2>2. ASSUME inbox[s].state = "pending", s \notin receiver[d], file' = file
        PROVE  file'.repair # "none"
    BY <1>2, <2>2 DEF NoSignalSleptOn, Pending
  <2>3. CASE \E e \in Daemons : Step(e)
    <3>1. Step(d)
      BY <2>1, <2>3, OthersRest
    <3>2. Timer(d)
      BY <1>2, <3>1 DEF Step, Begin, Mark, Claim, Push, Sync, Report, Finish
    <3> QED  BY <1>0, <3>2 DEF Timer, Goto, TypeOK, DaemonRecord
  <2>4. CASE Wake(d)
    BY <1>0, <1>2, <2>4 DEF Wake, Notified, TypeOK, DaemonRecord
  <2>5. CASE \E e \in Daemons \ {d} : Wake(e)
    BY <2>2, <2>5 DEF Wake, TypeOK
  <2>6. CASE \E e \in Daemons : Start(e) \/ Abort(e)
    BY <2>2, <2>6 DEF Start, Abort
  <2>7. CASE Crash(d)
    BY <2>7 DEF Crash, Ended, NotStarted, TypeOK
  <2>8. CASE \E e \in Daemons \ {d} : Crash(e)
    BY <2>2, <2>8 DEF Crash, TypeOK
  <2>9. CASE \E e \in Daemons, t \in Signals : Deliver(e, t)
    <3>1. PICK e \in Daemons, t \in Signals : Deliver(e, t)
      BY <2>9
    <3>2. e = d
      BY <2>1, <3>1 DEF Deliver, Alone
    <3>3. t # s /\ s \notin receiver[d]
      BY <3>1, <3>2 DEF Deliver, TypeOK
    <3> QED  BY <2>2, <3>1, <3>3 DEF Deliver, TypeOK
  <2>10. CASE Tick
    BY <1>0, <2>2, <2>10 DEF Tick, Older, SignalRow
  <2>11. CASE LocalEdit \/ UNCHANGED vars
    BY <2>2, <2>11 DEF LocalEdit, vars
  <2> QED  BY <2>3, <2>4, <2>5, <2>6, <2>7, <2>8, <2>9, <2>10, <2>11 DEF Next
<1> QED  BY <1>1, <1>2, RestMoves

\* The invariant of processes that do not overlap.
THEOREM InTurn == ASSUME ~Overlap PROVE Spec => [](Inv /\ InTurnInv)
<1>1. Init => InTurnInv
  BY DEF Init, InTurnInv, Alone, Alive, MarkedForDelay, NoSignalSleptOn, NotStarted
<1>2. Inv /\ InTurnInv /\ [Next]_vars => InTurnInv'
  BY AloneStep, MarkedStep, SleepStep DEF InTurnInv, Inv
<1> QED  BY <1>1, <1>2, Invariance, PTL DEF Spec

\* No lost wake: a lone daemon does not sleep its backoff while a signal whose wake has
\* been called is pending.
THEOREM NoLostWake == ASSUME ~Overlap PROVE Spec => []NoSignalSleptOn
<1>1. InTurnInv => NoSignalSleptOn
  BY DEF InTurnInv
<1> QED  BY <1>1, InTurn, PTL

\* After a failed sync pass the delay of a lone daemon is never zero.
THEOREM SyncFailureDelays == ASSUME ~Overlap PROVE Spec => FailedSyncBacksOff
<1>1. ASSUME Inv, InTurnInv, [Next]_vars, NEW d \in Daemons, daemon[d].pc = "rest",
             daemon[d].outcome = "syncFailed", daemon'[d].pc = "begin"
      PROVE  daemon[d].pendingWake
  <2>1. Rest(d)
    BY <1>1, RestMoves DEF Inv, InTurnInv
  <2>2. ~daemon[d].aborted
    BY <1>1, <2>1 DEF Rest, Conclude, Ended, NotStarted, Inv, TypeOK
  <2>3. file.repair \in {"backoff", "retry-after"}
    BY <1>1 DEF InTurnInv, MarkedForDelay
  <2>4. Delay(d) # 0
    BY <1>1, <2>3, WatchAssumption DEF Delay, Ticks
  <2>5. CASE ~daemon[d].pendingWake
    <3>1. daemon' = [daemon EXCEPT ![d] = [@ EXCEPT !.pc = "sleep", !.rest = Delay(d)]]
      BY <2>1, <2>2, <2>4, <2>5 DEF Rest
    <3> QED  BY <1>1, <3>1 DEF Inv, TypeOK, DaemonRecord
  <2> QED  BY <2>5
<1>2. Inv /\ InTurnInv /\ [Next]_vars =>
        [\A d \in Daemons :
           daemon[d].pc = "rest" /\ daemon[d].outcome = "syncFailed"
             /\ daemon'[d].pc = "begin" => daemon[d].pendingWake]_vars
  BY <1>1
<1> QED  BY <1>2, InTurn, PTL DEF Spec, FailedSyncBacksOff
=============================================================================
