---------------------------- MODULE WatchDaemon ----------------------------
(***************************************************************************)
(* The watch daemon of notion-datasource-sync (daemon/watch.ts), with the   *)
(* signal inbox (store.ts, enqueueSignal to releaseSignal) that webhook     *)
(* deliveries fill, the wake notifier that ends its sleep, and the state    *)
(* file that carries its repair mark from cycle to cycle and over restarts. *)
(* Each await of a cycle separates two actions; a store transaction and a   *)
(* whole push or sync pass are one action each.                             *)
(***************************************************************************)
EXTENDS Naturals

CONSTANTS
  Signals,        \* external events, one inbox row each
  Daemons,        \* daemon processes, each started at most once
  Nobody,         \* no signal claimed; lease_token IS NULL
  LeaseDuration,  \* ticks after which a claim may be taken over
  Backoff,        \* ticks of the mode's backoff
  RetryAfter,     \* ticks of a Retry-After answer
  Overlap,        \* TRUE: daemons overlap; FALSE: one starts after the last ended
  MaxErrors,      \* bound: failing passes and state-file accesses
  MaxEnds         \* bound: crashed and aborted processes

ASSUME WatchAssumption ==
  /\ Nobody \notin Signals \cup Daemons
  /\ LeaseDuration \in Nat \ {0} /\ Backoff \in Nat \ {0} /\ RetryAfter \in Nat \ {0}
  /\ Overlap \in BOOLEAN /\ MaxErrors \in Nat /\ MaxEnds \in Nat

VARIABLES
  inbox,     \* inbox[s]: the _nds_signal_inbox row of signal s
  file,      \* the state file
  daemon,    \* daemon[d]: the locals of runWatchDaemon and its current cycle
  receiver,  \* receiver[d]: deliveries enqueued in process d, wake() still to come
  localWork, \* pending replica changes or runnable outbox commands exist
  synced,    \* history: signals that were in the inbox when a completed sync began
  budget     \* the errors and ends so far

vars == <<inbox, file, daemon, receiver, localWork, synced, budget>>

\* The lease token `watch:${rootId}:${instanceId}` stands for the process: the
\* instance id is a fresh UUID.  No caller releases a signal as failed.
SignalRow == [state : {"absent", "pending", "claimed", "processed"},
              lease : Daemons \cup {Nobody}, age : 0..LeaseDuration]

\* repair of the state file, by its retryAfterMillis: 0, the backoff, a Retry-After.
Repairs == {"none", "at-once", "backoff", "retry-after"}

\* unfinished: lastCompleteCycle < cycle, all that is ever asked of the two numbers.
StateFile == [unfinished : BOOLEAN, repair : Repairs]

InitialFile == [unfinished |-> FALSE, repair |-> "none"]

RestCap == IF Backoff > RetryAfter THEN Backoff ELSE RetryAfter

\* pc: begin, about to read the state file; mark, to write the start of the cycle;
\* claim, to claim a signal; push and sync, in a pass; report, to write the failure;
\* finish, to write the completion; rest, to compute the delay; sleep, in awaitWake.
InCycle == {"begin", "mark", "claim", "push", "sync", "report", "finish"}

DaemonRecord ==
  [pc : InCycle \cup {"down", "rest", "sleep", "ended"}, previous : StateFile,
   signal : Signals \cup {Nobody}, covers : SUBSET Signals, cause : Repairs,
   outcome : {"completed", "syncFailed", "pushFailed", "storeFailed", "cancelled"},
   rest : 0..RestCap, pendingWake : BOOLEAN, aborted : BOOLEAN]

NotStarted == [pc |-> "down", previous |-> InitialFile, signal |-> Nobody, covers |-> {},
               cause |-> "none", outcome |-> "completed", rest |-> 0,
               pendingWake |-> FALSE, aborted |-> FALSE]

Ended == [NotStarted EXCEPT !.pc = "ended"]

Alive(d) == daemon[d].pc \notin {"down", "ended"}
Arrived == {s \in Signals : inbox[s].state # "absent"}
Pending == {s \in Signals : inbox[s].state = "pending"}

Spend(what, limit) ==
  /\ budget[what] < limit
  /\ budget' = [budget EXCEPT ![what] = @ + 1]

Init ==
  /\ inbox = [s \in Signals |-> [state |-> "absent", lease |-> Nobody, age |-> 0]]
  /\ file = InitialFile
  /\ daemon = [d \in Daemons |-> NotStarted]
  /\ receiver = [d \in Daemons |-> {}]
  /\ localWork = FALSE
  /\ synced = {}
  /\ budget = [errors |-> 0, ends |-> 0]
-----------------------------------------------------------------------------
(* The signal inbox.                                                          *)

\* enqueueSignal: INSERT unless (provider, external_id) is there.
Enqueue(row) == IF row.state = "absent" THEN [row EXCEPT !.state = "pending"] ELSE row

\* Mutant of Claimable: a claim is never taken over.
ClaimablePending(row) == row.state = "pending"

\* claimNextSignal, the WHERE clause.
Claimable(row) ==
  \/ row.state = "pending"
  \/ row.state = "claimed" /\ row.age = LeaseDuration

ClaimedBy(d) == [state |-> "claimed", lease |-> d, age |-> 0]

\* The WHERE clause of settleSignal and releaseSignal.
HeldBy(row, d) == row.state = "claimed" /\ row.lease = d

\* Mutant of SettleSignal: the token is not compared.
SettleAnyClaim(row, d) ==
  IF row.state = "claimed" THEN [state |-> "processed", lease |-> Nobody, age |-> 0]
  ELSE row

SettleSignal(row, d) ==
  IF HeldBy(row, d) THEN [state |-> "processed", lease |-> Nobody, age |-> 0] ELSE row

\* Mutant of ReleaseSignal: a failed cycle settles its signal as well.
ReleaseSettles(row, d) == SettleSignal(row, d)

ReleaseSignal(row, d) ==
  IF HeldBy(row, d) THEN [state |-> "pending", lease |-> Nobody, age |-> 0] ELSE row

\* Both end at once if the cycle has claimed no signal.
SettleClaimed(d) == inbox' = [s \in Signals |->
  IF s = daemon[d].signal THEN SettleSignal(inbox[s], d) ELSE inbox[s]]

ReleaseClaimed(d) == inbox' = [s \in Signals |->
  IF s = daemon[d].signal THEN ReleaseSignal(inbox[s], d) ELSE inbox[s]]

\* A webhook delivery reaches the receiver of process d, perhaps once more: it is
\* enqueued; the wake follows after the intake span.
Deliver(d, s) ==
  /\ Alive(d)
  /\ s \notin receiver[d]
  /\ inbox' = [inbox EXCEPT ![s] = Enqueue(@)]
  /\ receiver' = [receiver EXCEPT ![d] = @ \cup {s}]
  /\ UNCHANGED <<file, daemon, localWork, synced, budget>>

\* wake(): end the sleep, or leave a wake for the next awaitWake.
Notified(d) ==
  IF daemon[d].pc = "sleep" THEN [daemon[d] EXCEPT !.pc = "begin", !.rest = 0]
  ELSE [daemon[d] EXCEPT !.pendingWake = TRUE]

Wake(d) == \E s \in receiver[d] :
  /\ receiver' = [receiver EXCEPT ![d] = @ \ {s}]
  /\ daemon' = [daemon EXCEPT ![d] = Notified(d)]
  /\ UNCHANGED <<inbox, file, localWork, synced, budget>>
-----------------------------------------------------------------------------
(* One cycle (runWatchDaemonCycle).                                           *)

Goto(d, pc) == daemon' = [daemon EXCEPT ![d].pc = pc]

\* The cycle is over and its locals are gone; a cancelled one ends the process.
Conclude(d, outcome) ==
  daemon' = [daemon EXCEPT ![d] =
    IF outcome = "cancelled" THEN Ended
    ELSE [NotStarted EXCEPT !.pc = "rest", !.outcome = outcome,
                            !.pendingWake = daemon[d].pendingWake,
                            !.aborted = daemon[d].aborted]]

\* The state file cannot be read or written: LocalStoreError, retried by the loop.
StoreFails(d) ==
  /\ Spend("errors", MaxErrors)
  /\ Conclude(d, "storeFailed")
  /\ UNCHANGED file

\* readWatchDaemonState, then ensureNotCancelled.
Begin(d) ==
  /\ daemon[d].pc = "begin"
  /\ \/ /\ IF daemon[d].aborted THEN Conclude(d, "cancelled")
           ELSE daemon' = [daemon EXCEPT ![d] = [@ EXCEPT !.pc = "mark", !.previous = file]]
        /\ UNCHANGED <<file, budget>>
     \/ StoreFails(d)
  /\ UNCHANGED <<inbox, localWork, synced>>

\* The write that starts the cycle; after an unfinished cycle the repair mark is a
\* retry without delay.
Mark(d) ==
  /\ daemon[d].pc = "mark"
  /\ \/ /\ file' = [unfinished |-> TRUE,
                    repair |-> IF daemon[d].previous.unfinished THEN "at-once"
                               ELSE daemon[d].previous.repair]
        /\ Goto(d, "claim")
        /\ UNCHANGED budget
     \/ StoreFails(d)
  /\ UNCHANGED <<inbox, localWork, synced>>

\* The pass that follows the claim: a fast push when there is local work, else the
\* sync, which sees everything that has arrived by now.
StartPass(d, signal) ==
  daemon' = [daemon EXCEPT ![d] =
    [@ EXCEPT !.signal = signal,
              !.pc = IF localWork THEN "push" ELSE "sync",
              !.covers = IF localWork THEN {} ELSE Arrived]]

\* claimNextSignal, and the read of the local work in the same turn.  ORDER BY
\* updated_at, signal_id: which claimable signal comes first is left open.
Claim(d) ==
  /\ daemon[d].pc = "claim"
  /\ \/ \E s \in Signals :
          /\ Claimable(inbox[s])
          /\ inbox' = [inbox EXCEPT ![s] = ClaimedBy(d)]
          /\ StartPass(d, s)
     \/ /\ \A s \in Signals : ~Claimable(inbox[s])
        /\ StartPass(d, Nobody)
        /\ UNCHANGED inbox
  /\ UNCHANGED <<file, localWork, synced, budget>>

\* The fast push settles the local work or leaves some retryable.  Its failure
\* leaves the cycle at once: neither the release nor the failure write is around it.
Push(d) ==
  /\ daemon[d].pc = "push"
  /\ \/ /\ localWork' \in {FALSE, localWork}
        /\ daemon' = [daemon EXCEPT ![d] = [@ EXCEPT !.pc = "sync", !.covers = Arrived]]
        /\ UNCHANGED budget
     \/ /\ Spend("errors", MaxErrors)
        /\ Conclude(d, "pushFailed")
        /\ UNCHANGED localWork
  /\ UNCHANGED <<inbox, file, synced>>

\* The sync pass completes: the signal is settled in the same turn; an abort noticed
\* after it leaves the cycle unfinished in the file.
SyncSucceeds(d) ==
  /\ SettleClaimed(d)
  /\ synced' = synced \cup daemon[d].covers
  /\ IF daemon[d].aborted THEN Conclude(d, "cancelled") ELSE Goto(d, "finish")

\* tapError, up to the state write: the signal goes back to pending.
SyncReleases(d, cause, outcome) ==
  /\ ReleaseClaimed(d)
  /\ daemon' = [daemon EXCEPT ![d] =
       [@ EXCEPT !.pc = "report", !.cause = cause, !.outcome = outcome]]
  /\ UNCHANGED synced

Sync(d) ==
  /\ daemon[d].pc = "sync"
  /\ \/ SyncSucceeds(d) /\ UNCHANGED budget
     \/ /\ Spend("errors", MaxErrors)
        /\ \E cause \in {"backoff", "retry-after"} : SyncReleases(d, cause, "syncFailed")
     \/ /\ daemon[d].aborted
        /\ SyncReleases(d, "backoff", "cancelled")
        /\ UNCHANGED budget
  /\ UNCHANGED <<file, localWork>>

\* Mutant of FailureFile: the mark of an unfinished cycle is kept.
FailureKeepsMark(d) == file

FailureFile(d) == [unfinished |-> TRUE, repair |-> daemon[d].cause]

\* tapError, the state write.  If it fails its error replaces the cycle's.
Report(d) ==
  /\ daemon[d].pc = "report"
  /\ \/ /\ file' = FailureFile(d)
        /\ Conclude(d, daemon[d].outcome)
        /\ UNCHANGED budget
     \/ StoreFails(d)
  /\ UNCHANGED <<inbox, localWork, synced>>

Finish(d) ==
  /\ daemon[d].pc = "finish"
  /\ \/ /\ file' = InitialFile
        /\ Conclude(d, "completed")
        /\ UNCHANGED budget
     \/ StoreFails(d)
  /\ UNCHANGED <<inbox, localWork, synced>>
-----------------------------------------------------------------------------
(* The loop (runWatchDaemon), processes, time and the rest of the world.      *)

\* Mutant of Ticks: the backoff is added to the Retry-After.
TicksAdded(repair) ==
  CASE repair = "at-once" -> 0 [] repair = "retry-after" -> RetryAfter + Backoff
    [] OTHER -> Backoff

Ticks(repair) ==
  CASE repair = "at-once" -> 0 [] repair = "retry-after" -> RetryAfter [] OTHER -> Backoff

\* Mutant of Delay: pending signals are not looked at.
DelayIgnoringInbox(d) ==
  IF daemon[d].outcome # "completed" /\ file.repair # "none" THEN Ticks(file.repair)
  ELSE Backoff

\* After a completed cycle its own state, after any other the file decides.
Delay(d) ==
  IF daemon[d].outcome # "completed" /\ file.repair # "none" THEN Ticks(file.repair)
  ELSE IF Pending # {} THEN 0
  ELSE Backoff

\* awaitWake(delay) returns at once without a delay or with a wake left for it, and
\* forgets that wake either way.
Rest(d) ==
  /\ daemon[d].pc = "rest"
  /\ IF daemon[d].aborted THEN Conclude(d, "cancelled")
     ELSE IF Delay(d) = 0 \/ daemon[d].pendingWake
     THEN daemon' = [daemon EXCEPT ![d] = [@ EXCEPT !.pc = "begin", !.pendingWake = FALSE]]
     ELSE daemon' = [daemon EXCEPT ![d] = [@ EXCEPT !.pc = "sleep", !.rest = Delay(d)]]
  /\ UNCHANGED <<inbox, file, localWork, synced, budget>>

Timer(d) ==
  /\ daemon[d].pc = "sleep"
  /\ daemon[d].rest = 0
  /\ Goto(d, "begin")
  /\ UNCHANGED <<inbox, file, localWork, synced, budget>>

Start(d) ==
  /\ daemon[d].pc = "down"
  /\ Overlap \/ \A e \in Daemons : ~Alive(e)
  /\ Goto(d, "begin")
  /\ UNCHANGED <<inbox, file, receiver, localWork, synced, budget>>

\* The process dies, or a defect (a store transaction that throws, an unreadable
\* state file after a failed cycle) ends its loop.
Crash(d) ==
  /\ Alive(d)
  /\ Spend("ends", MaxEnds)
  /\ daemon' = [daemon EXCEPT ![d] = Ended]
  /\ receiver' = [receiver EXCEPT ![d] = {}]
  /\ UNCHANGED <<inbox, file, localWork, synced>>

\* options.signal is aborted; the cycle notices at its next check.
Abort(d) ==
  /\ Alive(d)
  /\ ~daemon[d].aborted
  /\ Spend("ends", MaxEnds)
  /\ daemon' = [daemon EXCEPT ![d].aborted = TRUE]
  /\ UNCHANGED <<inbox, file, receiver, localWork, synced>>

LocalEdit ==
  /\ ~localWork
  /\ localWork' = TRUE
  /\ UNCHANGED <<inbox, file, daemon, receiver, synced, budget>>

Older(row) ==
  IF row.state = "claimed" /\ row.age < LeaseDuration THEN [row EXCEPT !.age = @ + 1] ELSE row

Rested(r) == IF r.pc = "sleep" /\ r.rest > 0 THEN [r EXCEPT !.rest = @ - 1] ELSE r

Tick ==
  /\ inbox' = [s \in Signals |-> Older(inbox[s])]
  /\ daemon' = [d \in Daemons |-> Rested(daemon[d])]
  /\ UNCHANGED <<file, receiver, localWork, synced, budget>>

Step(d) ==
  /\ Begin(d) \/ Mark(d) \/ Claim(d) \/ Push(d) \/ Sync(d) \/ Report(d) \/ Finish(d)
       \/ Rest(d) \/ Timer(d)
  /\ receiver' = IF daemon'[d].pc = "ended" THEN [receiver EXCEPT ![d] = {}] ELSE receiver

Next ==
  \/ \E d \in Daemons : Step(d) \/ Wake(d) \/ Start(d) \/ Crash(d) \/ Abort(d)
  \/ \E d \in Daemons, s \in Signals : Deliver(d, s)
  \/ LocalEdit
  \/ Tick

Spec == Init /\ [][Next]_vars

\* The loop runs on, timers fire, and a supervisor or a user starts the next process.
\* That passes return is an assumption: only the sync pass has a timeout.
Fairness ==
  /\ \A d \in Daemons : WF_vars(Step(d)) /\ WF_vars(Start(d))
  /\ WF_vars(Tick)

FairSpec == Spec /\ Fairness
-----------------------------------------------------------------------------
(* Properties.                                                                *)

TypeOK ==
  /\ inbox \in [Signals -> SignalRow]
  /\ file \in StateFile
  /\ daemon \in [Daemons -> DaemonRecord]
  /\ receiver \in [Daemons -> SUBSET Signals]
  /\ localWork \in BOOLEAN
  /\ synced \in SUBSET Signals
  /\ budget \in [{"errors", "ends"} -> Nat]

\* A signal is processed only after a sync pass that began when it had arrived has
\* completed, whatever fails, expires or is claimed twice in between (DAEMON-R10).
ProcessedWasSynced == \A s \in Signals : inbox[s].state = "processed" => s \in synced

\* A claim ends only in a step of the process that holds it, or by a takeover: the late
\* settle or release of a process that was overtaken touches no signal.
ClaimKept ==
  [][\A s \in Signals : inbox[s].state = "claimed" /\ inbox'[s].state # "claimed"
       => \E d \in Daemons : inbox[s].lease = d /\ daemon[d].pc = "sync"
                             /\ daemon[d].signal = s]_vars

\* A processed signal stays processed: no redelivery, release or takeover revives it.
ProcessedIsFinal ==
  [][\A s \in Signals : inbox[s].state = "processed" => inbox'[s] = inbox[s]]_vars

\* No lost wake: while a lone daemon sleeps, a signal whose wake() has been called is
\* not left pending, unless the sleep is the delay of a repair.
NoSignalSleptOn == \A d \in Daemons, s \in Pending :
  daemon[d].pc = "sleep" /\ s \notin receiver[d] => file.repair # "none"

\* After a sync pass that failed, a lone daemon starts the next cycle only after a
\* delay, or woken.
FailedSyncBacksOff ==
  [][\A d \in Daemons :
       daemon[d].pc = "rest" /\ daemon[d].outcome = "syncFailed" /\ daemon'[d].pc = "begin"
         => daemon[d].pendingWake]_vars

\* Every signal that has arrived is processed in the end.
EverySignalProcessed == \A s \in Signals :
  inbox[s].state = "pending" ~> inbox[s].state = "processed"
-----------------------------------------------------------------------------
(* The inductive invariants behind the safety properties (WatchDaemonProofs). *)

\* What a cycle has claimed has arrived, and a sync pass that holds it covers it.
ClaimsCovered == \A d \in Daemons : daemon[d].signal # Nobody =>
  /\ daemon[d].signal \in Arrived
  /\ daemon[d].pc = "sync" => daemon[d].signal \in daemon[d].covers

\* A failure about to be reported carries a delay.
CauseDelays == \A d \in Daemons :
  daemon[d].pc = "report" => daemon[d].cause \in {"backoff", "retry-after"}

Inv == TypeOK /\ ClaimsCovered /\ CauseDelays /\ ProcessedWasSynced

\* Without overlap one process at a time is alive, and nobody else touches the file
\* between its failure report and its rest.
Alone == \A d, e \in Daemons : Alive(d) /\ Alive(e) => d = e

MarkedForDelay == \A d \in Daemons :
  daemon[d].pc = "rest" /\ daemon[d].outcome = "syncFailed"
    => file.repair \in {"backoff", "retry-after"}

InTurnInv == Alone /\ MarkedForDelay /\ NoSignalSleptOn
=============================================================================
