------------------------------- MODULE Outbox -------------------------------
(***************************************************************************)
(* The durable outbox of notion-datasource-sync: executors (one-shot sync  *)
(* processes and watch daemons sharing one SQLite store) claim commands,   *)
(* re-read the remote surface, write to Notion, re-read it and append a    *)
(* settlement (executor.ts, executeOutboxOnce; store.ts, claim, attempt    *)
(* and settlement).  A store transaction is one action; every await of     *)
(* the executor separates two actions.                                     *)
(***************************************************************************)
EXTENDS OutboxProjection

CONSTANTS
  Commands,       \* planned remote writes
  Workers,        \* executor processes, each started at most once
  NoCommand,
  Token,          \* Token[w]: the lease token process w claims with
  Kind,           \* Kind[c]: what the command writes, see CommandKinds
  LeaseDuration,  \* ticks without an append after which a running row is expired
  RetryAfter,     \* ticks of a Retry-After delay
  Overlap,        \* TRUE: processes overlap; FALSE: one starts after the last ended
  MaxAttempts,    \* bound: attempts of one command
  MaxErrors,      \* bound: remote calls that fail or whose answer is lost
  MaxCrashes,     \* bound: interrupted executions and crashed processes
  MaxStalls,      \* bound: leases that expire while their holder is still at work
  MaxEdits,       \* bound: remote edits by somebody else
  MaxAppends      \* bound: other events appended to the log

\* create:    CreatePage, checked against the schema hash, which it does not change
\* patch:     PatchPageProperties, checked against the hash of the whole page, while
\*            its desired hash is that of the edited property
\* surface:   schema, metadata and body writes, base and desired in one hash space
\* lifecycle: Trash and Restore, checked against the properties hash, verified by
\*            the trash flag
CommandKinds == {"create", "patch", "surface", "lifecycle"}

ASSUME OutboxAssumption ==
  /\ NoCommand \notin Commands
  /\ Token \in [Workers -> Tokens]
  /\ Kind \in [Commands -> CommandKinds]
  /\ LeaseDuration \in Nat \ {0} /\ RetryAfter \in Nat \ {0}
  /\ Overlap \in BOOLEAN /\ MaxAttempts \in Nat /\ MaxErrors \in Nat
  /\ MaxCrashes \in Nat /\ MaxStalls \in Nat /\ MaxEdits \in Nat /\ MaxAppends \in Nat

VARIABLES
  outbox,   \* outbox[c]: the projected row of command c
  settleKey,\* settleKey[c]: the log holds an event with key `${commandKey}:settled`
  age,      \* time since the last rebuild of the projection, saturating
  worker,   \* worker[w]: the locals of executeOutboxOnce in process w
  remote,   \* remote[c]: how the surface of c compares with c's base and desired hash
  landed,   \* landed[c]: history, how often c's write took effect remotely
  shown,    \* shown[c]: history, the effect of c has been on the remote
  budget    \* the errors, crashes, stalls, edits and appends so far

vars == <<outbox, settleKey, age, worker, remote, landed, shown, budget>>

Surface == [base : BOOLEAN, desired : BOOLEAN]

PlannedSurface == [base |-> TRUE, desired |-> FALSE]

\* pc: where the process is between two awaits.  observe: about to re-read;
\* decide: has the answer; guard: the gateway re-reads the base; write: about to
\* send; verify: about to re-read after the write; commit: about to append the
\* settlement; record: about to append the attempt state in verdict.
AtWork == {"observe", "decide", "guard", "write", "verify", "commit", "record"}

PCs == AtWork \cup {"down", "idle", "dead"}

WorkerRecord ==
  [pc : PCs, cmd : Commands \cup {NoCommand}, attempt : Nat,
   mode : {"running", "ambiguous"}, before : Surface,
   verdict : {"retryable", "blocked", "fenced"}, delay : BOOLEAN]

Resting == [pc |-> "down", cmd |-> NoCommand, attempt |-> 0, mode |-> "running",
            before |-> PlannedSurface, verdict |-> "retryable", delay |-> FALSE]

\* Saturation of the clock: no comparison of the code looks further back.
AgeCap == IF LeaseDuration > RetryAfter THEN LeaseDuration ELSE RetryAfter

Expired == age >= LeaseDuration
Due == age >= RetryAfter

Working(w) == worker[w].pc \in AtWork
Alive(w) == worker[w].pc \notin {"down", "dead"}

\* w's attempt is the last one claimed for its command.
Current(w) == worker[w].attempt = outbox[worker[w].cmd].attempts

CanClaim(c) == Claimable(outbox[c], Expired, Due)

Spend(what, limit) ==
  /\ budget[what] < limit
  /\ budget' = [budget EXCEPT ![what] = @ + 1]

Init ==
  /\ outbox = [c \in Commands |-> AbsentRow]
  /\ settleKey = [c \in Commands |-> FALSE]
  /\ age = 0
  /\ worker = [w \in Workers |-> Resting]
  /\ remote = [c \in Commands |-> PlannedSurface]
  /\ landed = [c \in Commands |-> 0]
  /\ shown = [c \in Commands |-> FALSE]
  /\ budget = [errors |-> 0, crashes |-> 0, stalls |-> 0,
                edits |-> 0, appends |-> 0]
-----------------------------------------------------------------------------
(* Appending to the log.  Every inserted event rebuilds the whole projection in
   its transaction, and the rebuild stamps updated_at and retry_after_at of every
   row with the current time: age starts again for all of them.                *)

Rebuilt == age' = 0

\* appendOutboxAttemptState.  Its idempotency key names the attempt, so the event is
\* inserted, and the log replayed, even when the projection drops it.
AppendAttempt(w, state, delay) ==
  LET c == worker[w].cmd
  IN /\ outbox' = [outbox EXCEPT
           ![c] = ApplyAttempted(@, state, worker[w].attempt, Token[w], delay)]
     /\ Rebuilt
     /\ UNCHANGED settleKey

\* appendOutboxSettlement with the executor's key `${commandKey}:settled`: the first
\* one is inserted, whether or not the projection accepts it; a later one finds the
\* key and changes nothing.  No lease is looked at.
AppendSettlement(c) ==
  IF settleKey[c]
  THEN UNCHANGED <<outbox, settleKey, age>>
  ELSE /\ outbox' = [outbox EXCEPT ![c] = ApplySettled(@)]
       /\ settleKey' = [settleKey EXCEPT ![c] = TRUE]
       /\ Rebuilt

\* The planner appends RemoteWritePlanned against a base it has just observed; a
\* repeated plan of the same command finds its key and changes nothing.
Plan(c) ==
  /\ outbox[c].state = "absent"
  /\ outbox' = [outbox EXCEPT ![c] = ApplyPlanned(@)]
  /\ Rebuilt
  /\ UNCHANGED <<settleKey, worker, remote, landed, shown, budget>>

\* Any other inserted event (an observation, a checkpoint, a conflict), and
\* rebuildProjections itself.
Rebuild ==
  /\ age > 0
  /\ Spend("appends", MaxAppends)
  /\ Rebuilt
  /\ UNCHANGED <<outbox, settleKey, worker, remote, landed, shown>>
-----------------------------------------------------------------------------
(* The executor.                                                              *)

Goto(w, pc) == worker' = [worker EXCEPT ![w].pc = pc]

\* Return from executeOutboxOnce; the drain loop and the next cycle call it again.
Return(w) == worker' = [worker EXCEPT ![w] = [Resting EXCEPT !.pc = "idle"]]

\* A remote call fails: the error becomes the attempt state to record.
\* StaleSurfaceBase blocks, anything else is retryable, with or without Retry-After;
\* after the write every error is retryable.
Fail(w, verdict, delay) ==
  worker' = [worker EXCEPT ![w] =
    [@ EXCEPT !.pc = "record", !.verdict = verdict, !.delay = delay]]

FaultyAnswer(w, verdicts) ==
  /\ Spend("errors", MaxErrors)
  /\ \E verdict \in verdicts, delay \in BOOLEAN :
       /\ delay => verdict = "retryable"
       /\ Fail(w, verdict, delay)

\* claimNextOutboxCommand.  ORDER BY updated_at, command_id takes one of the
\* claimable rows; the stamps are all of one rebuild, so which one is left open.
Claim(w, c) ==
  /\ worker[w].pc = "idle"
  /\ CanClaim(c)
  /\ outbox[c].attempts < MaxAttempts
  /\ outbox' = [outbox EXCEPT ![c] = ClaimRow(@, Token[w])]
  /\ Rebuilt
  /\ worker' = [worker EXCEPT ![w] =
       [Resting EXCEPT !.pc = "observe", !.cmd = c,
                       !.attempt = outbox[c].attempts + 1,
                       !.mode = ClaimState(outbox[c])]]
  /\ UNCHANGED <<settleKey, remote, landed, shown, budget>>

\* observeCurrentSurface before the write.
Observe(w) ==
  /\ worker[w].pc = "observe"
  /\ \/ /\ worker' = [worker EXCEPT ![w] =
             [@ EXCEPT !.pc = "decide", !.before = remote[worker[w].cmd]]]
        /\ UNCHANGED budget
     \/ FaultyAnswer(w, {"retryable", "blocked"})
  /\ UNCHANGED <<outbox, settleKey, age, remote, landed, shown>>

\* Mutant of SettleNoOp: the base hash is compared where the verification hash belongs.
SettleOnBase(w) ==
  /\ worker[w].before.base
  /\ AppendSettlement(worker[w].cmd)
  /\ Return(w)

\* The local decision on what was observed, up to the remote write.
SettleNoOp(w) ==
  /\ worker[w].before.desired
  /\ AppendSettlement(worker[w].cmd)
  /\ Return(w)

LeaveAmbiguous(w) ==
  /\ ~worker[w].before.desired
  /\ worker[w].mode = "ambiguous"
  /\ Return(w)
  /\ UNCHANGED <<outbox, settleKey, age>>

BlockStaleBase(w) ==
  /\ ~worker[w].before.desired
  /\ worker[w].mode = "running"
  /\ ~worker[w].before.base
  /\ AppendAttempt(w, "blocked", FALSE)
  /\ Return(w)

CheckLease(w) ==
  /\ ~worker[w].before.desired
  /\ worker[w].mode = "running"
  /\ worker[w].before.base
  /\ IF LeaseActive(outbox[worker[w].cmd], Token[w])
     THEN Goto(w, "guard")
     ELSE Fail(w, "fenced", FALSE)
  /\ UNCHANGED <<outbox, settleKey, age>>

Decide(w) ==
  /\ worker[w].pc = "decide"
  /\ \/ SettleNoOp(w)
     \/ LeaveAmbiguous(w)
     \/ BlockStaleBase(w)
     \/ CheckLease(w)
  /\ UNCHANGED <<remote, landed, shown, budget>>

\* The gateway reads the base again before it sends the write.
Guard(w) ==
  /\ worker[w].pc = "guard"
  /\ \/ /\ IF remote[worker[w].cmd].base
           THEN Goto(w, "write")
           ELSE Fail(w, "blocked", FALSE)
        /\ UNCHANGED budget
     \/ FaultyAnswer(w, {"retryable", "blocked"})
  /\ UNCHANGED <<outbox, settleKey, age, remote, landed, shown>>

\* What the write leaves on its surface.
Written(kind, surface) ==
  CASE kind = "create"    -> surface
    [] kind = "patch"     -> [base |-> FALSE, desired |-> FALSE]
    [] kind = "surface"   -> [base |-> FALSE, desired |-> TRUE]
    [] kind = "lifecycle" -> [surface EXCEPT !.desired = TRUE]

Land(c) ==
  /\ remote' = [remote EXCEPT ![c] = Written(Kind[c], @)]
  /\ landed' = [landed EXCEPT ![c] = @ + 1]
  /\ shown' = [shown EXCEPT ![c] = TRUE]

\* executeRemoteWrite: the write lands and is answered, lands and its answer is lost,
\* or does not land.  createPage returns the new page, which counts as verified.
Write(w) ==
  LET c == worker[w].cmd
  IN /\ worker[w].pc = "write"
     /\ \/ /\ Land(c)
           /\ Goto(w, IF Kind[c] = "create" THEN "commit" ELSE "verify")
           /\ UNCHANGED budget
        \/ /\ Land(c)
           /\ FaultyAnswer(w, {"retryable", "blocked"})
        \/ /\ FaultyAnswer(w, {"retryable", "blocked"})
           /\ UNCHANGED <<remote, landed, shown>>
     /\ UNCHANGED <<outbox, settleKey, age>>

\* observeCurrentSurface after the write.  A patch is taken as verified when the page
\* hash has moved, whoever moved it.
Verified(w) ==
  LET c == worker[w].cmd
  IN \/ remote[c].desired
     \/ Kind[c] = "patch" /\ remote[c].base # worker[w].before.base

Verify(w) ==
  /\ worker[w].pc = "verify"
  /\ \/ /\ IF Verified(w)
           THEN Goto(w, "commit")
           ELSE Fail(w, "retryable", FALSE)
        /\ UNCHANGED budget
     \/ FaultyAnswer(w, {"retryable"})
  /\ UNCHANGED <<outbox, settleKey, age, remote, landed, shown>>

\* settle(verified-success).
Commit(w) ==
  /\ worker[w].pc = "commit"
  /\ AppendSettlement(worker[w].cmd)
  /\ Return(w)
  /\ UNCHANGED <<remote, landed, shown, budget>>

\* recordAttemptState.
Record(w) ==
  /\ worker[w].pc = "record"
  /\ AppendAttempt(w, worker[w].verdict, worker[w].delay)
  /\ Return(w)
  /\ UNCHANGED <<remote, landed, shown, budget>>
-----------------------------------------------------------------------------
(* Processes, time and the rest of the world.                                 *)

Start(w) ==
  /\ worker[w].pc = "down"
  /\ Overlap \/ \A v \in Workers : ~Alive(v)
  /\ Goto(w, "idle")
  /\ UNCHANGED <<outbox, settleKey, age, remote, landed, shown, budget>>

\* A cycle timeout or an abort interrupts the executor at an await; the process and
\* its token live on.
Interrupt(w) ==
  /\ Working(w)
  /\ Spend("crashes", MaxCrashes)
  /\ Return(w)
  /\ UNCHANGED <<outbox, settleKey, age, remote, landed, shown>>

Crash(w) ==
  /\ Alive(w)
  /\ Spend("crashes", MaxCrashes)
  /\ worker' = [worker EXCEPT ![w] = [Resting EXCEPT !.pc = "dead"]]
  /\ UNCHANGED <<outbox, settleKey, age, remote, landed, shown>>

\* Some process is still at work on a row the next tick lets others reclaim.
HolderStalls == \E w \in Workers :
  Working(w) /\ Current(w) /\ outbox[worker[w].cmd].state = "running"

Tick ==
  /\ age < AgeCap
  /\ age' = age + 1
  /\ IF age + 1 = LeaseDuration /\ HolderStalls
     THEN Spend("stalls", MaxStalls)
     ELSE UNCHANGED budget
  /\ UNCHANGED <<outbox, settleKey, worker, remote, landed, shown>>

\* How the surface of a command can compare with the command's hashes.
Surfaces(kind) ==
  IF kind \in {"create", "patch"} THEN {s \in Surface : ~s.desired}
  ELSE IF kind = "surface" THEN {s \in Surface : ~(s.base /\ s.desired)}
  ELSE Surface

\* Somebody else edits the surface in Notion.
ExternalEdit(c) ==
  /\ outbox[c].state # "absent"
  /\ Spend("edits", MaxEdits)
  /\ \E s \in Surfaces(Kind[c]) \ {remote[c]} :
       /\ remote' = [remote EXCEPT ![c] = s]
       /\ shown' = [shown EXCEPT ![c] = @ \/ s.desired]
  /\ UNCHANGED <<outbox, settleKey, age, worker, landed>>

Step(w) ==
  \/ \E c \in Commands : Claim(w, c)
  \/ Observe(w) \/ Decide(w) \/ Guard(w) \/ Write(w) \/ Verify(w)
  \/ Commit(w) \/ Record(w)

Next ==
  \/ \E w \in Workers : Step(w) \/ Start(w) \/ Interrupt(w) \/ Crash(w)
  \/ \E c \in Commands : Plan(c) \/ ExternalEdit(c)
  \/ Rebuild
  \/ Tick

Spec == Init /\ [][Next]_vars

\* A living process keeps draining the outbox (the daemon loop and the drain loop of
\* pushOneShotSync), a supervisor or a user starts the next one, and time passes.
Fairness ==
  /\ \A w \in Workers : WF_vars(Step(w)) /\ WF_vars(Start(w))
  /\ WF_vars(Tick)

FairSpec == Spec /\ Fairness
-----------------------------------------------------------------------------
(* Properties.                                                                *)

TypeOK ==
  /\ outbox \in [Commands -> OutboxRow]
  /\ settleKey \in [Commands -> BOOLEAN]
  /\ age \in 0..AgeCap
  /\ worker \in [Workers -> WorkerRecord]
  /\ \A w \in Workers : Working(w) => worker[w].cmd \in Commands
  /\ remote \in [Commands -> Surface]
  /\ landed \in [Commands -> Nat]
  /\ shown \in [Commands -> BOOLEAN]
  /\ budget \in [{"errors", "crashes", "stalls", "edits", "appends"} -> Nat]

\* A command is settled only after its effect has been on the remote, whatever
\* crashes, lost answers, reclaims and edits came between (SYNC-R02).
SettledWasShown == \A c \in Commands : outbox[c].settled => shown[c]

\* No two processes are at work on the same attempt of a command: an attempt number
\* identifies its executor even when all processes share one lease token.
OneExecutorPerAttempt == \A v, w \in Workers :
  Working(v) /\ Working(w) /\ worker[v].cmd = worker[w].cmd
    /\ worker[v].attempt = worker[w].attempt => v = w

\* The state fenced, from which nothing in the code returns, never sticks: by the time
\* a process finds its lease gone the row belongs to a later attempt, or is settled.
NeverFenced == \A c \in Commands : outbox[c].state # "fenced"

\* The state an outdated executor records late changes no row.
StaleRecordIgnored ==
  [][\A w \in Workers : worker[w].pc = "record" /\ ~Current(w) /\ ~Working(w)'
       => outbox' = outbox]_vars

\* Settled rows are final and attempts only grow.
RowsAdvance ==
  [][\A c \in Commands :
       /\ outbox[c].settled => outbox'[c] = outbox[c]
       /\ outbox'[c].attempts >= outbox[c].attempts]_vars

\* A process that passes the lease check is the executor of the row's last attempt.
LeaseCheckMeansCurrent ==
  [][\A w \in Workers : worker[w].pc = "decide" /\ worker'[w].pc = "guard"
       => Current(w)]_vars

\* The first settlement in the log is terminal: it settles the row.
FirstSettlementIsTerminal == \A c \in Commands : settleKey[c] => outbox[c].settled

\* No process has outlived its lease and nobody else has edited.
Undisturbed == budget.stalls = 0 /\ budget.edits = 0

\* As long as no process outlives its lease and nobody else edits, a command other than
\* a create reaches the remote at most once, through errors, crashes and reclaims.
UpdateLandsOnce == Undisturbed =>
  \A c \in Commands : Kind[c] # "create" => landed[c] <= 1

\* A create reaches the remote at most once: no duplicate row.
CreateLandsOnce == \A c \in Commands : Kind[c] = "create" => landed[c] <= 1

\* Every planned command is settled or blocked in the end.
Concluded(c) == outbox[c].state \in {"settled", "blocked"}

EveryCommandConcludes ==
  \A c \in Commands : outbox[c].state = "queued" ~> Concluded(c)

-----------------------------------------------------------------------------
(* The inductive invariant behind the safety properties (OutboxProofs).       *)

\* A row under nobody's attempt has none; settlement_event_id goes with the state.
RowsConsistent == \A c \in Commands :
  /\ outbox[c].state = "absent" => outbox[c].attempts = 0
  /\ outbox[c].settled <=> outbox[c].state = "settled"

\* A process at work executes an attempt that was claimed.
AttemptsClaimed == \A w \in Workers : Working(w) =>
  /\ worker[w].attempt > 0
  /\ worker[w].attempt <= outbox[worker[w].cmd].attempts

\* The executor of a row's last attempt finds the row as it left it, or settled.
HolderRow == \A w \in Workers :
  Working(w) /\ Current(w) /\ ~outbox[worker[w].cmd].settled =>
    /\ outbox[worker[w].cmd].state = worker[w].mode
    /\ outbox[worker[w].cmd].lease = Token[w]

\* A process about to record fenced has been overtaken.
FencedOutdated == \A w \in Workers :
  worker[w].pc = "record" /\ worker[w].verdict = "fenced" =>
    ~Current(w) \/ outbox[worker[w].cmd].settled

\* Whoever is about to settle has seen, or caused, the effect.
ShownRemotely ==
  /\ \A c \in Commands : remote[c].desired => shown[c]
  /\ \A w \in Workers : Working(w) =>
       /\ worker[w].before.desired => shown[worker[w].cmd]
       /\ worker[w].pc \in {"verify", "commit"} => shown[worker[w].cmd]

\* The inductive invariant.
Inv ==
  /\ TypeOK /\ RowsConsistent /\ AttemptsClaimed /\ OneExecutorPerAttempt
  /\ HolderRow /\ FencedOutdated /\ NeverFenced /\ ShownRemotely /\ SettledWasShown

\* Processes in turn: one is alive at a time, and its attempt is the row's last.
OneAlive == \A v, w \in Workers : Alive(v) /\ Alive(w) => v = w

AllCurrent == \A w \in Workers : Working(w) => Current(w)

InTurnInv == OneAlive /\ AllCurrent /\ FirstSettlementIsTerminal

\* A process that writes has seen the base of its command in place, in its own attempt.
WritersDecided == \A w \in Workers : worker[w].pc \in {"guard", "write"} =>
  worker[w].mode = "running" /\ worker[w].before = PlannedSurface

\* No row is reclaimable from under the process at work on it ...
HoldersFresh == HolderStalls => ~Expired

\* ... so that an attempt that may write is the row's last as long as it runs.
RunningCurrent == \A w \in Workers :
  Working(w) /\ worker[w].mode = "running" => Current(w)

\* A surface is as planned until its command lands, and as written from then on.
SurfaceTracked == \A c \in Commands : Kind[c] # "create" =>
  remote[c] = IF landed[c] = 0 THEN PlannedSurface ELSE Written(Kind[c], PlannedSurface)

\* Whoever is about to write does so for the first time.
WritersFirst == \A w \in Workers :
  /\ worker[w].pc \in {"decide", "guard", "write"} /\ worker[w].mode = "running"
  /\ worker[w].before = PlannedSurface /\ Kind[worker[w].cmd] # "create"
  => landed[worker[w].cmd] = 0

LandsOnceInv ==
  /\ WritersDecided
  /\ Undisturbed => /\ HoldersFresh /\ RunningCurrent /\ SurfaceTracked
                    /\ WritersFirst /\ UpdateLandsOnce
-----------------------------------------------------------------------------
\* The outbox implements CommandLifecycle: queued, running, retryable and ambiguous are
\* one pending phase.  There is no phase for fenced.
Phase(row) ==
  IF row.state \in {"queued", "running", "retryable", "ambiguous"} THEN "pending"
  ELSE row.state

Lifecycle == INSTANCE CommandLifecycle WITH phase <- [c \in Commands |-> Phase(outbox[c])]

ImplementsLifecycle == Lifecycle!LifecycleSpec
=============================================================================
