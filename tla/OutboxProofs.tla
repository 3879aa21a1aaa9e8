---------------------------- MODULE OutboxProofs ----------------------------
(***************************************************************************)
(* Theorems about Outbox for every set of commands, processes and tokens,  *)
(* every assignment of tokens to processes and every bound.                *)
(***************************************************************************)
EXTENDS Outbox, TLAPS

\* The facts about one row on which every step of the outbox rests.

\* An attempt event leaves a row a row, loses no attempt and no settlement, and changes
\* nothing when it is not accepted.
LEMMA AppliedAttempt ==
  ASSUME NEW row \in OutboxRow, NEW state \in AttemptStates, NEW attempt \in Nat,
         NEW token \in Tokens, NEW delay \in BOOLEAN
  PROVE  LET new == ApplyAttempted(row, state, attempt, token, delay)
         IN /\ new \in OutboxRow
            /\ new.attempts >= row.attempts
            /\ new.settled = row.settled
            /\ AttemptAccepted(row, attempt, token) =>
                 /\ new.state = state /\ new.attempts = attempt
                 /\ new.lease = token /\ ~new.settled
            /\ ~AttemptAccepted(row, attempt, token) => new = row
<1> DEFINE new == [state |-> state, attempts |-> attempt, lease |-> token,
                   delay |-> delay /\ state = "retryable", settled |-> FALSE]
<1>1. (delay /\ state = "retryable") \in BOOLEAN
  OBVIOUS
<1>2. new \in OutboxRow
  BY <1>1 DEF OutboxRow, OutboxStates, AttemptStates
<1>3. CASE AttemptAccepted(row, attempt, token)
  <2>1. ApplyAttempted(row, state, attempt, token, delay) = new
    BY <1>3 DEF ApplyAttempted
  <2>2. attempt >= row.attempts /\ row.settled = FALSE
    BY <1>3 DEF AttemptAccepted, OutboxRow
  <2>3. /\ new.state = state /\ new.attempts = attempt /\ new.lease = token
        /\ new.settled = FALSE
    OBVIOUS
  <2> HIDE DEF new
  <2> QED  BY <1>2, <1>3, <2>1, <2>2, <2>3
<1>4. CASE ~AttemptAccepted(row, attempt, token)
  BY <1>4 DEF ApplyAttempted, OutboxRow
<1> QED  BY <1>3, <1>4

\* A settlement event settles a running or ambiguous row and changes no other.
LEMMA AppliedSettlement ==
  ASSUME NEW row \in OutboxRow
  PROVE  LET new == ApplySettled(row)
         IN /\ new \in OutboxRow
            /\ new.attempts = row.attempts
            /\ \/ new = row
               \/ /\ row.state \in {"running", "ambiguous"} /\ ~row.settled
                  /\ new.state = "settled" /\ new.settled
BY DEF OutboxRow, OutboxStates, ApplySettled, SettlementAccepted

\* A claim starts the next attempt, under the claiming token, in the mode of the claim.
LEMMA ClaimedRow ==
  ASSUME NEW row \in OutboxRow, NEW token \in Tokens, NEW expired, NEW due,
         Claimable(row, expired, due)
  PROVE  LET new == ClaimRow(row, token)
         IN /\ new \in OutboxRow
            /\ new.attempts = row.attempts + 1
            /\ new.state = ClaimState(row) /\ ClaimState(row) \in {"running", "ambiguous"}
            /\ new.lease = token /\ ~new.settled /\ ~row.settled
            /\ row.state \in {"queued", "running", "retryable", "ambiguous"}
BY DEF OutboxRow, OutboxStates, ClaimRow, ClaimState, Claimable, ApplyAttempted,
       AttemptAccepted

-----------------------------------------------------------------------------
(* Type correctness.                                                          *)

LEMMA AgeCapNat == AgeCap \in Nat \ {0}
BY OutboxAssumption DEF AgeCap

\* Whatever a process does, it moves alone, and stays a process.
Moves(w) ==
  /\ worker' \in [Workers -> WorkerRecord]
  /\ \A v \in Workers \ {w} : worker'[v] = worker[v]

\* A process goes on with the attempt it has.
SameAttempt(w) ==
  /\ worker'[w].cmd = worker[w].cmd /\ worker'[w].attempt = worker[w].attempt
  /\ worker'[w].mode = worker[w].mode

LEMMA GoneTo ==
  ASSUME TypeOK, NEW w \in Workers, NEW pc \in PCs, Goto(w, pc)
  PROVE  /\ Moves(w) /\ SameAttempt(w)
         /\ worker'[w].pc = pc /\ worker'[w].before = worker[w].before
BY DEF TypeOK, Goto, Moves, SameAttempt, WorkerRecord

LEMMA Failed ==
  ASSUME TypeOK, NEW w \in Workers, NEW delay \in BOOLEAN,
         NEW verdict \in {"retryable", "blocked", "fenced"}, Fail(w, verdict, delay)
  PROVE  /\ Moves(w) /\ SameAttempt(w)
         /\ worker'[w].pc = "record" /\ worker'[w].before = worker[w].before
         /\ worker'[w].verdict = verdict
<1> DEFINE new == [worker[w] EXCEPT !.pc = "record", !.verdict = verdict, !.delay = delay]
<1>1. worker[w] \in WorkerRecord
  BY DEF TypeOK
<1>2. "record" \in PCs
  BY DEF PCs, AtWork
<1>3. new \in WorkerRecord
  BY <1>1, <1>2 DEF WorkerRecord
<1>4. /\ new.cmd = worker[w].cmd /\ new.attempt = worker[w].attempt
      /\ new.mode = worker[w].mode /\ new.before = worker[w].before
      /\ new.pc = "record" /\ new.verdict = verdict
  BY <1>1 DEF WorkerRecord
<1>5. worker' = [worker EXCEPT ![w] = new]
  BY DEF Fail
<1> HIDE DEF new
<1> QED  BY <1>3, <1>4, <1>5 DEF TypeOK, Moves, SameAttempt

LEMMA FaultAnswered ==
  ASSUME TypeOK, NEW w \in Workers, NEW verdicts \in SUBSET {"retryable", "blocked"},
         FaultyAnswer(w, verdicts)
  PROVE  /\ Moves(w) /\ SameAttempt(w)
         /\ worker'[w].pc = "record" /\ worker'[w].before = worker[w].before
         /\ worker'[w].verdict # "fenced"
         /\ budget' \in [{"errors", "crashes", "stalls", "edits", "appends"} -> Nat]
<1>1. PICK verdict \in verdicts, delay \in BOOLEAN : Fail(w, verdict, delay)
  BY DEF FaultyAnswer
<1>2. /\ Moves(w) /\ SameAttempt(w)
      /\ worker'[w].pc = "record" /\ worker'[w].before = worker[w].before
      /\ worker'[w].verdict = verdict
  BY <1>1, Failed
<1>3. budget' \in [{"errors", "crashes", "stalls", "edits", "appends"} -> Nat]
  BY DEF FaultyAnswer, Spend, TypeOK
<1> QED  BY <1>2, <1>3

LEMMA Rested ==
  Resting \in WorkerRecord
BY DEF Resting, WorkerRecord, PCs, AtWork, PlannedSurface, Surface

LEMMA Returned ==
  ASSUME TypeOK, NEW w \in Workers, Return(w)
  PROVE  Moves(w) /\ worker'[w] = [Resting EXCEPT !.pc = "idle"]
<1>1. [Resting EXCEPT !.pc = "idle"] \in WorkerRecord
  BY Rested DEF WorkerRecord, PCs
<1> QED  BY <1>1 DEF TypeOK, Return, Moves

\* The executor of a command applies its attempt events to a row of the outbox.
LEMMA AttemptAppended ==
  ASSUME TypeOK, NEW w \in Workers, Working(w), NEW delay \in BOOLEAN,
         NEW state \in AttemptStates, AppendAttempt(w, state, delay)
  PROVE  /\ outbox' \in [Commands -> OutboxRow]
         /\ settleKey' = settleKey /\ age' = 0
         /\ \A c \in Commands \ {worker[w].cmd} : outbox'[c] = outbox[c]
         /\ outbox'[worker[w].cmd] =
              ApplyAttempted(outbox[worker[w].cmd], state, worker[w].attempt, Token[w], delay)
<1> DEFINE c == worker[w].cmd
           new == ApplyAttempted(outbox[c], state, worker[w].attempt, Token[w], delay)
<1>1. c \in Commands /\ outbox[c] \in OutboxRow /\ worker[w].attempt \in Nat
  BY DEF TypeOK, WorkerRecord
<1>2. Token[w] \in Tokens
  BY OutboxAssumption
<1>3. new \in OutboxRow
  BY <1>1, <1>2, AppliedAttempt
<1>4. outbox' = [outbox EXCEPT ![c] = new] /\ settleKey' = settleKey /\ age' = 0
  BY DEF AppendAttempt, Rebuilt
<1> HIDE DEF new
<1>5. /\ outbox' \in [Commands -> OutboxRow]
      /\ \A d \in Commands \ {c} : outbox'[d] = outbox[d]
      /\ outbox'[c] = new
  BY <1>1, <1>3, <1>4 DEF TypeOK
<1> QED  BY <1>4, <1>5 DEF new

\* A settlement changes nothing, or applies a settlement event to the row of c.
LEMMA SettlementAppended ==
  ASSUME TypeOK, NEW c \in Commands, AppendSettlement(c)
  PROVE  /\ outbox' \in [Commands -> OutboxRow]
         /\ settleKey' \in [Commands -> BOOLEAN] /\ age' \in 0..AgeCap
         /\ \A d \in Commands \ {c} : outbox'[d] = outbox[d]
         /\ outbox'[c] = outbox[c] \/ outbox'[c] = ApplySettled(outbox[c])
<1>1. CASE settleKey[c]
  BY <1>1 DEF AppendSettlement, TypeOK
<1>2. CASE ~settleKey[c]
  <2>1. ApplySettled(outbox[c]) \in OutboxRow
    BY AppliedSettlement DEF TypeOK
  <2> DEFINE new == ApplySettled(outbox[c])
  <2>2. /\ outbox' = [outbox EXCEPT ![c] = new]
        /\ settleKey' = [settleKey EXCEPT ![c] = TRUE] /\ age' = 0
    BY <1>2 DEF AppendSettlement, Rebuilt
  <2> HIDE DEF new
  <2>3. /\ outbox' \in [Commands -> OutboxRow]
        /\ \A d \in Commands \ {c} : outbox'[d] = outbox[d]
        /\ outbox'[c] = new
    BY <2>1, <2>2 DEF TypeOK, new
  <2>4. settleKey' \in [Commands -> BOOLEAN] /\ age' \in 0..AgeCap
    BY <2>2, AgeCapNat DEF TypeOK
  <2> QED  BY <2>3, <2>4 DEF new
<1> QED  BY <1>1, <1>2

LEMMA TypeInit == Init => TypeOK
<1> SUFFICES ASSUME Init
             PROVE  TypeOK
  OBVIOUS
<1>1. AbsentRow \in OutboxRow
  BY DEF AbsentRow, OutboxRow, OutboxStates
<1>2. PlannedSurface \in Surface
  BY DEF PlannedSurface, Surface
<1>3. \A w \in Workers : ~Working(w)
  BY DEF Init, Working, AtWork, Resting
<1> QED  BY <1>1, <1>2, <1>3, Rested, AgeCapNat DEF Init, TypeOK

LEMMA TypeStep == TypeOK /\ [Next]_vars => TypeOK'
<1> SUFFICES ASSUME TypeOK, [Next]_vars
             PROVE  TypeOK'
  OBVIOUS
<1> USE AgeCapNat
<1> DEFINE Budgets == [{"errors", "crashes", "stalls", "edits", "appends"} -> Nat]
           WorkersOK == /\ worker \in [Workers -> WorkerRecord]
                        /\ \A w \in Workers : Working(w) => worker[w].cmd \in Commands
<1>a. WorkersOK /\ budget \in Budgets
  BY DEF TypeOK
\* One process moves, to no command or to one of Commands.
<1>b. ASSUME NEW w \in Workers, Moves(w), Working(w)' => worker'[w].cmd \in Commands
      PROVE  WorkersOK'
  BY <1>a, <1>b DEF Moves, Working
<1>c. ASSUME NEW w \in Workers, Return(w)
      PROVE  WorkersOK'
  BY <1>b, <1>c, Returned DEF Working, AtWork, Resting
<1>d. ASSUME NEW what \in {"errors", "crashes", "stalls", "edits", "appends"},
             NEW limit, Spend(what, limit)
      PROVE  budget' \in Budgets
  BY <1>a, <1>d DEF Spend
<1>e. ASSUME NEW w \in Workers, Working(w),
             NEW verdicts \in SUBSET {"retryable", "blocked"}, FaultyAnswer(w, verdicts)
      PROVE  WorkersOK' /\ budget' \in Budgets
  <2>1. worker[w] \in WorkerRecord /\ worker[w].cmd \in Commands
    BY <1>e DEF TypeOK
  <2>2. Moves(w) /\ worker'[w].cmd = worker[w].cmd /\ budget' \in Budgets
    BY <1>e, <2>1, FaultAnswered DEF SameAttempt
  <2> QED  BY <1>b, <2>1, <2>2
<1>f. ASSUME NEW w \in Workers, Working(w), NEW pc \in PCs, Goto(w, pc)
      PROVE  WorkersOK'
  <2>1. worker[w] \in WorkerRecord /\ worker[w].cmd \in Commands
    BY <1>f DEF TypeOK
  <2>2. Moves(w) /\ worker'[w].cmd = worker[w].cmd
    BY <1>f, <2>1, GoneTo DEF SameAttempt
  <2> QED  BY <1>b, <2>1, <2>2
<1>g. ASSUME NEW w \in Workers, Working(w), NEW verdict \in {"retryable", "blocked", "fenced"},
             Fail(w, verdict, FALSE)
      PROVE  WorkersOK'
  <2>1. worker[w] \in WorkerRecord /\ worker[w].cmd \in Commands
    BY <1>g DEF TypeOK
  <2>2. Moves(w) /\ worker'[w].cmd = worker[w].cmd
    BY <1>g, <2>1, Failed DEF SameAttempt
  <2> QED  BY <1>b, <2>1, <2>2
<1>1. ASSUME NEW w \in Workers, NEW c \in Commands, Claim(w, c)
      PROVE  TypeOK'
  <2>1. Token[w] \in Tokens /\ outbox[c] \in OutboxRow
    BY OutboxAssumption DEF TypeOK
  <2>2. ClaimRow(outbox[c], Token[w]) \in OutboxRow /\
        ClaimState(outbox[c]) \in {"running", "ambiguous"}
    BY <1>1, <2>1, ClaimedRow DEF Claim, CanClaim
  <2>3. outbox' \in [Commands -> OutboxRow]
    BY <1>1, <2>2 DEF Claim, TypeOK
  <2> DEFINE new == [Resting EXCEPT !.pc = "observe", !.cmd = c,
                                    !.attempt = outbox[c].attempts + 1,
                                    !.mode = ClaimState(outbox[c])]
  <2>4. outbox[c].attempts + 1 \in Nat
    BY <2>1 DEF OutboxRow
  <2>5. new \in WorkerRecord /\ new.cmd = c
    BY <2>2, <2>4, Rested DEF WorkerRecord, PCs, AtWork, Resting
  <2>6. worker' = [worker EXCEPT ![w] = new]
    BY <1>1 DEF Claim
  <2> HIDE DEF new
  <2>7. WorkersOK'
    BY <1>a, <1>b, <2>5, <2>6 DEF Moves
  <2> QED  BY <1>1, <2>3, <2>7 DEF Claim, Rebuilt, TypeOK
<1>2. ASSUME NEW w \in Workers, Observe(w)
      PROVE  TypeOK'
  <2>1. Working(w) /\ worker[w].cmd \in Commands
    BY <1>2 DEF Observe, Working, AtWork, TypeOK
  <2>2. CASE FaultyAnswer(w, {"retryable", "blocked"})
    BY <1>2, <1>e, <2>1, <2>2 DEF Observe, TypeOK
  <2>3. CASE /\ worker' = [worker EXCEPT ![w] =
                  [@ EXCEPT !.pc = "decide", !.before = remote[worker[w].cmd]]]
             /\ UNCHANGED budget
    <3> DEFINE new == [worker[w] EXCEPT !.pc = "decide", !.before = remote[worker[w].cmd]]
    <3>1. new \in WorkerRecord /\ new.cmd = worker[w].cmd
      BY <2>1 DEF TypeOK, WorkerRecord, PCs, AtWork
    <3>2. worker' = [worker EXCEPT ![w] = new]
      BY <2>3
    <3> HIDE DEF new
    <3>3. WorkersOK'
      BY <1>a, <1>b, <2>1, <3>1, <3>2 DEF Moves
    <3> QED  BY <1>2, <2>3, <3>3 DEF Observe, TypeOK
  <2> QED  BY <1>2, <2>2, <2>3 DEF Observe
<1>3. ASSUME NEW w \in Workers, Decide(w)
      PROVE  TypeOK'
  <2>1. Working(w) /\ worker[w].cmd \in Commands
    BY <1>3 DEF Decide, Working, AtWork, TypeOK
  <2>2. CASE SettleNoOp(w)
    BY <1>3, <1>c, <2>1, <2>2, SettlementAppended DEF Decide, SettleNoOp, TypeOK
  <2>3. CASE LeaveAmbiguous(w)
    BY <1>3, <1>c, <2>3 DEF Decide, LeaveAmbiguous, TypeOK
  <2>4. CASE BlockStaleBase(w)
    <3>1. AppendAttempt(w, "blocked", FALSE) /\ Return(w) /\ "blocked" \in AttemptStates
      BY <2>4 DEF BlockStaleBase, AttemptStates
    <3>2. outbox' \in [Commands -> OutboxRow] /\ settleKey' = settleKey /\ age' = 0
      BY <2>1, <3>1, AttemptAppended
    <3> QED  BY <1>3, <1>c, <3>1, <3>2 DEF Decide, TypeOK
  <2>5. CASE CheckLease(w)
    <3>1. ASSUME Goto(w, "guard")
          PROVE  WorkersOK'
      BY <1>f, <2>1, <3>1 DEF PCs, AtWork
    <3>2. ASSUME Fail(w, "fenced", FALSE)
          PROVE  WorkersOK'
      BY <1>g, <2>1, <3>2
    <3> QED  BY <1>3, <2>5, <3>1, <3>2 DEF Decide, CheckLease, TypeOK
  <2> QED  BY <1>3, <2>2, <2>3, <2>4, <2>5 DEF Decide
<1>4. ASSUME NEW w \in Workers, Guard(w)
      PROVE  TypeOK'
  <2>1. Working(w) /\ worker[w].cmd \in Commands
    BY <1>4 DEF Guard, Working, AtWork, TypeOK
  <2>2. ASSUME Goto(w, "write")
        PROVE  WorkersOK'
    BY <1>f, <2>1, <2>2 DEF PCs, AtWork
  <2>3. ASSUME Fail(w, "blocked", FALSE)
        PROVE  WorkersOK'
    BY <1>g, <2>1, <2>3
  <2>4. WorkersOK' /\ budget' \in Budgets
    BY <1>4, <1>a, <1>e, <2>1, <2>2, <2>3 DEF Guard
  <2> QED  BY <1>4, <2>4 DEF Guard, TypeOK
<1>5. ASSUME NEW w \in Workers, Write(w)
      PROVE  TypeOK'
  <2> DEFINE c == worker[w].cmd
  <2>1. Working(w) /\ c \in Commands
    BY <1>5 DEF Write, Working, AtWork, TypeOK
  <2>2. Kind[c] \in CommandKinds /\ remote[c] \in Surface
    BY <2>1, OutboxAssumption DEF TypeOK
  <2>3. Written(Kind[c], remote[c]) \in Surface
    BY <2>2 DEF Written, CommandKinds, Surface
  <2>4. ASSUME Land(c)
        PROVE  /\ remote' \in [Commands -> Surface] /\ landed' \in [Commands -> Nat]
               /\ shown' \in [Commands -> BOOLEAN]
    BY <2>1, <2>3, <2>4 DEF Land, TypeOK
  <2>5. /\ remote' \in [Commands -> Surface] /\ landed' \in [Commands -> Nat]
        /\ shown' \in [Commands -> BOOLEAN]
    BY <1>5, <2>4 DEF Write, TypeOK
  <2>6. ASSUME NEW pc \in {"commit", "verify"}, Goto(w, pc)
        PROVE  WorkersOK'
    BY <1>f, <2>1, <2>6 DEF PCs, AtWork
  <2>7. WorkersOK' /\ budget' \in Budgets
    <3>1. CASE FaultyAnswer(w, {"retryable", "blocked"})
      BY <1>e, <2>1, <3>1
    <3>2. CASE Goto(w, IF Kind[c] = "create" THEN "commit" ELSE "verify")
               /\ UNCHANGED budget
      BY <1>a, <2>6, <3>2
    <3> QED  BY <1>5, <3>1, <3>2 DEF Write
  <2> QED  BY <1>5, <2>5, <2>7 DEF Write, TypeOK
<1>6. ASSUME NEW w \in Workers, Verify(w)
      PROVE  TypeOK'
  <2>1. Working(w) /\ worker[w].cmd \in Commands
    BY <1>6 DEF Verify, Working, AtWork, TypeOK
  <2>2. ASSUME Goto(w, "commit")
        PROVE  WorkersOK'
    BY <1>f, <2>1, <2>2 DEF PCs, AtWork
  <2>3. ASSUME Fail(w, "retryable", FALSE)
        PROVE  WorkersOK'
    BY <1>g, <2>1, <2>3
  <2>4. WorkersOK' /\ budget' \in Budgets
    BY <1>6, <1>a, <1>e, <2>1, <2>2, <2>3 DEF Verify
  <2> QED  BY <1>6, <2>4 DEF Verify, TypeOK
<1>7. ASSUME NEW w \in Workers, Commit(w)
      PROVE  TypeOK'
  <2>1. worker[w].cmd \in Commands
    BY <1>7 DEF Commit, Working, AtWork, TypeOK
  <2> QED  BY <1>7, <1>c, <2>1, SettlementAppended DEF Commit, TypeOK
<1>8. ASSUME NEW w \in Workers, Record(w)
      PROVE  TypeOK'
  <2>1. Working(w)
    BY <1>8 DEF Record, Working, AtWork
  <2>2. worker[w].verdict \in AttemptStates /\ worker[w].delay \in BOOLEAN
    BY DEF TypeOK, WorkerRecord, AttemptStates
  <2> QED  BY <1>8, <1>c, <2>1, <2>2, AttemptAppended DEF Record, TypeOK
<1>9. ASSUME NEW w \in Workers, Start(w)
      PROVE  TypeOK'
  <2>1. Moves(w) /\ worker'[w].pc = "idle"
    BY <1>9, GoneTo DEF Start, PCs
  <2>2. WorkersOK'
    BY <1>b, <2>1 DEF Working, AtWork
  <2> QED  BY <1>9, <2>2 DEF Start, TypeOK
<1>10. ASSUME NEW w \in Workers, Interrupt(w)
       PROVE  TypeOK'
  BY <1>10, <1>c, <1>d DEF Interrupt, TypeOK
<1>11. ASSUME NEW w \in Workers, Crash(w)
       PROVE  TypeOK'
  <2>1. [Resting EXCEPT !.pc = "dead"] \in WorkerRecord
    BY Rested DEF WorkerRecord, PCs
  <2>2. WorkersOK'
    BY <1>11, <1>a, <1>b, <2>1 DEF Crash, Moves, Working, AtWork, Resting
  <2> QED  BY <1>11, <1>d, <2>2 DEF Crash, TypeOK
<1>12. ASSUME NEW c \in Commands, Plan(c)
       PROVE  TypeOK'
  <2>1. ApplyPlanned(outbox[c]) \in OutboxRow
    BY DEF TypeOK, ApplyPlanned, OutboxRow, OutboxStates
  <2>2. outbox' \in [Commands -> OutboxRow]
    BY <1>12, <2>1 DEF Plan, TypeOK
  <2> QED  BY <1>12, <2>2 DEF Plan, Rebuilt, TypeOK, Working
<1>13. ASSUME NEW c \in Commands, ExternalEdit(c)
       PROVE  TypeOK'
  <2>1. Surfaces(Kind[c]) \subseteq Surface
    BY DEF Surfaces
  <2>2. remote' \in [Commands -> Surface] /\ shown' \in [Commands -> BOOLEAN]
    BY <1>13, <2>1 DEF ExternalEdit, TypeOK, Surface
  <2> QED  BY <1>13, <1>d, <2>2 DEF ExternalEdit, TypeOK, Working
<1>14. ASSUME Rebuild
       PROVE  TypeOK'
  BY <1>14, <1>d DEF Rebuild, Rebuilt, TypeOK, Working
<1>15. ASSUME Tick
       PROVE  TypeOK'
  <2>1. age' \in 0..AgeCap
    BY <1>15 DEF Tick, TypeOK
  <2> QED  BY <1>15, <1>a, <1>d, <2>1 DEF Tick, TypeOK, Working
<1>16. ASSUME UNCHANGED vars
       PROVE  TypeOK'
  BY <1>16 DEF vars, TypeOK, Working
<1> QED  BY <1>1, <1>2, <1>3, <1>4, <1>5, <1>6, <1>7, <1>8, <1>9, <1>10, <1>11, <1>12,
            <1>13, <1>14, <1>15, <1>16 DEF Next, Step

\* Every variable keeps its type, for every set of commands and processes.
THEOREM TypeCorrect == Spec => []TypeOK
BY TypeInit, TypeStep, PTL DEF Spec
-----------------------------------------------------------------------------
(* Rows and attempts.                                                         *)

\* The conjuncts of Inv about the rows and the attempts at work on them.
RowsInv ==
  RowsConsistent /\ AttemptsClaimed /\ OneExecutorPerAttempt /\ HolderRow /\ NeverFenced

\* The action of RowsAdvance.
Advance == \A c \in Commands :
  /\ outbox[c].settled => outbox'[c] = outbox[c]
  /\ outbox'[c].attempts >= outbox[c].attempts

\* The types the steps below need of one process.
LEMMA AtWorkTyped ==
  ASSUME TypeOK, NEW w \in Workers, Working(w)
  PROVE  /\ worker[w].cmd \in Commands /\ outbox[worker[w].cmd] \in OutboxRow
         /\ worker[w].attempt \in Nat /\ worker[w].mode \in {"running", "ambiguous"}
         /\ Token[w] \in Tokens
BY OutboxAssumption DEF TypeOK, WorkerRecord

\* Steps that leave the rows alone and give no process another attempt.
LEMMA RowsQuiet ==
  ASSUME Inv, outbox' = outbox,
         \A v \in Workers : Working(v)' => Working(v) /\ SameAttempt(v)
  PROVE  RowsInv' /\ Advance
<1>1. RowsConsistent' /\ NeverFenced'
  BY DEF Inv, RowsConsistent, NeverFenced
<1>2. AttemptsClaimed'
  BY DEF Inv, AttemptsClaimed, SameAttempt
<1>3. OneExecutorPerAttempt'
  BY DEF Inv, OneExecutorPerAttempt, SameAttempt
<1>4. HolderRow'
  BY DEF Inv, HolderRow, SameAttempt, Current
<1>5. Advance
  BY DEF Inv, TypeOK, OutboxRow, Advance
<1> QED  BY <1>1, <1>2, <1>3, <1>4, <1>5 DEF RowsInv

\* An executor records a state and is done: only the executor of the last attempt
\* changes its row.
LEMMA RowsAttempted ==
  ASSUME Inv, NEW w \in Workers, Working(w), NEW delay \in BOOLEAN,
         NEW state \in {"retryable", "blocked", "fenced"},
         AppendAttempt(w, state, delay), Moves(w), ~Working(w)',
         state = "fenced" => ~Current(w) \/ outbox[worker[w].cmd].settled
  PROVE  /\ RowsInv' /\ Advance
         /\ \/ outbox' = outbox
            \/ /\ outbox[worker[w].cmd].state \in {"running", "ambiguous"}
               /\ outbox'[worker[w].cmd].state \in {"retryable", "blocked"}
               /\ ~outbox'[worker[w].cmd].settled
               /\ \A d \in Commands \ {worker[w].cmd} : outbox'[d] = outbox[d]
         /\ ~Current(w) => outbox' = outbox
<1> DEFINE c == worker[w].cmd
           row == outbox[c]
           new == ApplyAttempted(row, state, worker[w].attempt, Token[w], delay)
<1>1. /\ c \in Commands /\ row \in OutboxRow /\ worker[w].attempt \in Nat
      /\ worker[w].mode \in {"running", "ambiguous"} /\ Token[w] \in Tokens
  BY AtWorkTyped DEF Inv
<1>2. state \in AttemptStates
  BY DEF AttemptStates
<1>3. /\ outbox' \in [Commands -> OutboxRow]
      /\ \A d \in Commands \ {c} : outbox'[d] = outbox[d]
      /\ outbox'[c] = new
  BY <1>2, AttemptAppended DEF Inv
<1>4. worker[w].attempt > 0 /\ worker[w].attempt <= row.attempts
  BY DEF Inv, AttemptsClaimed
<1>5. \A v \in Workers : Working(v)' => v # w /\ Working(v) /\ SameAttempt(v)
  BY DEF Moves, SameAttempt, Working
<1>6. CASE ~Current(w) \/ row.settled
  <2>1. ~AttemptAccepted(row, worker[w].attempt, Token[w])
    BY <1>1, <1>4, <1>6 DEF AttemptAccepted, Current, OutboxRow
  <2>2. outbox'[c] = row
    BY <1>1, <1>2, <1>3, <2>1, AppliedAttempt
  <2>3. outbox' = outbox
    BY <1>3, <2>2 DEF Inv, TypeOK
  <2> QED  BY <1>5, <2>3, RowsQuiet
<1>7. CASE Current(w) /\ ~row.settled
  <2>1. row.state = worker[w].mode /\ row.lease = Token[w]
    BY <1>7 DEF Inv, HolderRow
  <2>2. AttemptAccepted(row, worker[w].attempt, Token[w])
    BY <1>1, <1>7, <2>1 DEF AttemptAccepted, Current, OutboxRow
  <2>3. /\ new.state = state /\ new.attempts = row.attempts /\ ~new.settled
        /\ new.attempts \in Nat
    BY <1>1, <1>2, <1>7, <2>2, AppliedAttempt DEF Current, OutboxRow
  <2>4. state # "fenced"
    BY <1>7
  <2> HIDE DEF new
  <2>5. RowsConsistent'
    BY <1>3, <1>4, <2>3 DEF Inv, RowsConsistent
  <2>6. AttemptsClaimed'
    BY <1>3, <1>5, <2>3, AtWorkTyped DEF Inv, AttemptsClaimed, SameAttempt
  <2>7. OneExecutorPerAttempt'
    BY <1>5 DEF Inv, OneExecutorPerAttempt, SameAttempt
  <2>8. HolderRow'
    <3> SUFFICES ASSUME NEW v \in Workers, Working(v)', Current(v)',
                        ~outbox'[worker'[v].cmd].settled
                 PROVE  /\ outbox'[worker'[v].cmd].state = worker'[v].mode
                        /\ outbox'[worker'[v].cmd].lease = Token[v]
      BY DEF HolderRow
    <3>1. v # w /\ Working(v) /\ SameAttempt(v)
      BY <1>5
    <3>2. worker[v].cmd # c
      BY <1>3, <1>7, <2>3, <3>1 DEF Inv, OneExecutorPerAttempt, Current, SameAttempt
    <3> QED  BY <1>3, <3>1, <3>2, AtWorkTyped DEF Inv, HolderRow, Current, SameAttempt
  <2>9. NeverFenced'
    BY <1>3, <2>3, <2>4 DEF Inv, NeverFenced
  <2>10. Advance
    BY <1>1, <1>3, <1>7, <2>3 DEF Inv, Advance, TypeOK, OutboxRow
  <2> QED  BY <1>1, <1>3, <1>7, <2>1, <2>3, <2>4, <2>5, <2>6, <2>7, <2>8, <2>9, <2>10
              DEF RowsInv
<1> QED  BY <1>6, <1>7

\* An executor settles and is done.
LEMMA RowsSettled ==
  ASSUME Inv, NEW w \in Workers, Working(w), AppendSettlement(worker[w].cmd),
         Moves(w), ~Working(w)'
  PROVE  /\ RowsInv' /\ Advance
         /\ \/ outbox' = outbox
            \/ /\ outbox[worker[w].cmd].state \in {"running", "ambiguous"}
               /\ outbox'[worker[w].cmd].state = "settled"
               /\ \A d \in Commands \ {worker[w].cmd} : outbox'[d] = outbox[d]
<1> DEFINE c == worker[w].cmd
<1>1. c \in Commands /\ outbox[c] \in OutboxRow
  BY AtWorkTyped DEF Inv
<1>2. /\ outbox' \in [Commands -> OutboxRow]
      /\ \A d \in Commands \ {c} : outbox'[d] = outbox[d]
      /\ outbox'[c] = outbox[c] \/ outbox'[c] = ApplySettled(outbox[c])
  BY <1>1, SettlementAppended DEF Inv
<1>3. \A v \in Workers : Working(v)' => v # w /\ Working(v) /\ SameAttempt(v)
  BY DEF Moves, SameAttempt, Working
<1>4. CASE outbox'[c] = outbox[c]
  <2>1. outbox' = outbox
    BY <1>2, <1>4 DEF Inv, TypeOK
  <2> QED  BY <1>3, <2>1, RowsQuiet
<1>5. CASE outbox'[c] # outbox[c]
  <2>1. /\ outbox'[c].attempts = outbox[c].attempts /\ ~outbox[c].settled
        /\ outbox[c].state \in {"running", "ambiguous"}
        /\ outbox'[c].state = "settled" /\ outbox'[c].settled
    BY <1>1, <1>2, <1>5, AppliedSettlement
  <2>2. RowsConsistent'
    BY <1>2, <2>1 DEF Inv, RowsConsistent
  <2>3. AttemptsClaimed'
    BY <1>2, <1>3, <2>1, AtWorkTyped DEF Inv, AttemptsClaimed, SameAttempt
  <2>4. OneExecutorPerAttempt'
    BY <1>3 DEF Inv, OneExecutorPerAttempt, SameAttempt
  <2>5. HolderRow'
    <3> SUFFICES ASSUME NEW v \in Workers, Working(v)', Current(v)',
                        ~outbox'[worker'[v].cmd].settled
                 PROVE  /\ outbox'[worker'[v].cmd].state = worker'[v].mode
                        /\ outbox'[worker'[v].cmd].lease = Token[v]
      BY DEF HolderRow
    <3>1. Working(v) /\ SameAttempt(v) /\ worker[v].cmd # c
      BY <1>3, <2>1 DEF SameAttempt
    <3> QED  BY <1>2, <3>1, AtWorkTyped DEF Inv, HolderRow, Current, SameAttempt
  <2>6. NeverFenced'
    BY <1>2, <2>1 DEF Inv, NeverFenced
  <2>7. Advance
    BY <1>1, <1>2, <2>1 DEF Inv, Advance, TypeOK, OutboxRow
  <2> QED  BY <1>2, <2>1, <2>2, <2>3, <2>4, <2>5, <2>6, <2>7 DEF RowsInv
<1> QED  BY <1>4, <1>5

\* A claim starts the attempt after the row's last one, and all others at work on the
\* row are at most at that one.
LEMMA RowsClaimed ==
  ASSUME Inv, NEW w \in Workers, NEW c \in Commands, Claim(w, c)
  PROVE  /\ RowsInv' /\ Advance
         /\ outbox[c].state \in {"queued", "running", "retryable", "ambiguous"}
         /\ outbox'[c].state \in {"running", "ambiguous"} /\ ~outbox'[c].settled
         /\ \A d \in Commands \ {c} : outbox'[d] = outbox[d]
         /\ Moves(w) /\ worker'[w].cmd = c /\ worker'[w].pc = "observe"
         /\ ~worker'[w].before.desired
<1>1. outbox[c] \in OutboxRow /\ Token[w] \in Tokens
  BY OutboxAssumption DEF Inv, TypeOK
<1> DEFINE new == ClaimRow(outbox[c], Token[w])
           rec == [Resting EXCEPT !.pc = "observe", !.cmd = c,
                                  !.attempt = outbox[c].attempts + 1,
                                  !.mode = ClaimState(outbox[c])]
<1>2. /\ new \in OutboxRow /\ new.attempts = outbox[c].attempts + 1
      /\ new.state = ClaimState(outbox[c])
      /\ ClaimState(outbox[c]) \in {"running", "ambiguous"}
      /\ new.lease = Token[w] /\ ~new.settled /\ ~outbox[c].settled
      /\ outbox[c].state \in {"queued", "running", "retryable", "ambiguous"}
  BY <1>1, ClaimedRow DEF Claim, CanClaim
<1>3. /\ outbox[c].attempts \in Nat /\ new.attempts \in Nat
  BY <1>1, <1>2 DEF OutboxRow
<1>4. /\ rec \in WorkerRecord /\ rec.pc = "observe" /\ rec.cmd = c
      /\ rec.attempt = outbox[c].attempts + 1 /\ rec.mode = ClaimState(outbox[c])
      /\ rec.before = PlannedSurface
  BY <1>2, <1>3, Rested DEF WorkerRecord, PCs, AtWork, Resting
<1>5. outbox' = [outbox EXCEPT ![c] = new] /\ worker' = [worker EXCEPT ![w] = rec]
  BY DEF Claim
<1> HIDE DEF new, rec
<1>6. /\ outbox'[c] = new /\ \A d \in Commands \ {c} : outbox'[d] = outbox[d]
      /\ worker'[w] = rec /\ Moves(w)
  BY <1>4, <1>5 DEF Inv, TypeOK, Moves
<1>7. \A v \in Workers \ {w} : worker'[v] = worker[v] /\ Working(v)' = Working(v)
  BY <1>6 DEF Moves, Working
<1>8. RowsConsistent'
  BY <1>2, <1>3, <1>6 DEF Inv, RowsConsistent
<1>9. \A v \in Workers \ {w} : Working(v) /\ worker[v].cmd = c =>
        worker[v].attempt < new.attempts
  BY <1>2, <1>3, AtWorkTyped DEF Inv, AttemptsClaimed
<1>10. AttemptsClaimed'
  <2> SUFFICES ASSUME NEW v \in Workers, Working(v)'
               PROVE  /\ worker'[v].attempt > 0
                      /\ worker'[v].attempt <= outbox'[worker'[v].cmd].attempts
    BY DEF AttemptsClaimed
  <2>1. CASE v = w
    BY <1>2, <1>3, <1>4, <1>6, <2>1
  <2>2. CASE v # w
    <3>1. Working(v) /\ worker'[v] = worker[v] /\ worker[v].cmd \in Commands
          /\ worker[v].attempt \in Nat
      BY <1>7, <2>2, AtWorkTyped DEF Inv
    <3>2. worker[v].attempt > 0 /\ worker[v].attempt <= outbox[worker[v].cmd].attempts
      BY <3>1 DEF Inv, AttemptsClaimed
    <3> QED  BY <1>3, <1>6, <1>9, <2>2, <3>1, <3>2
  <2> QED  BY <2>1, <2>2
<1>11. OneExecutorPerAttempt'
  BY <1>2, <1>3, <1>4, <1>6, <1>7, <1>9, AtWorkTyped DEF Inv, OneExecutorPerAttempt
<1>12. HolderRow'
  <2> SUFFICES ASSUME NEW v \in Workers, Working(v)', Current(v)',
                      ~outbox'[worker'[v].cmd].settled
               PROVE  /\ outbox'[worker'[v].cmd].state = worker'[v].mode
                      /\ outbox'[worker'[v].cmd].lease = Token[v]
    BY DEF HolderRow
  <2>1. CASE v = w
    BY <1>2, <1>4, <1>6, <2>1
  <2>2. CASE v # w
    <3>1. Working(v) /\ worker'[v] = worker[v] /\ worker[v].cmd \in Commands
      BY <1>7, <2>2, AtWorkTyped DEF Inv
    <3>2. worker[v].cmd # c
      BY <1>6, <1>9, <2>2, <3>1, <1>3, AtWorkTyped DEF Inv, Current
    <3> QED  BY <1>6, <3>1, <3>2 DEF Inv, HolderRow, Current
  <2> QED  BY <2>1, <2>2
<1>13. NeverFenced'
  BY <1>2, <1>6 DEF Inv, NeverFenced
<1>14. Advance
  BY <1>1, <1>2, <1>3, <1>6 DEF Inv, Advance, TypeOK, OutboxRow
<1> QED  BY <1>2, <1>4, <1>6, <1>8, <1>10, <1>11, <1>12, <1>13, <1>14
            DEF RowsInv, PlannedSurface

\* A planned row has no attempt and nobody at work on it.
LEMMA RowsPlanned ==
  ASSUME Inv, NEW c \in Commands, Plan(c)
  PROVE  /\ RowsInv' /\ Advance
         /\ outbox[c].state = "absent" /\ outbox'[c].state = "queued"
         /\ ~outbox'[c].settled
         /\ \A d \in Commands \ {c} : outbox'[d] = outbox[d]
<1> DEFINE new == [outbox[c] EXCEPT !.state = "queued"]
<1>1. outbox[c] \in OutboxRow /\ outbox[c].state = "absent"
  BY DEF Plan, Inv, TypeOK
<1>2. outbox[c].attempts = 0 /\ outbox[c].settled = FALSE
  BY <1>1 DEF Inv, RowsConsistent, OutboxRow
<1>3. new.state = "queued" /\ new.attempts = 0 /\ new.settled = FALSE
  BY <1>1, <1>2 DEF OutboxRow
<1>4. outbox' = [outbox EXCEPT ![c] = new]
  BY <1>1 DEF Plan, ApplyPlanned
<1> HIDE DEF new
<1>5. /\ outbox'[c] = new /\ worker' = worker
      /\ \A d \in Commands \ {c} : outbox'[d] = outbox[d]
  BY <1>4 DEF Plan, Inv, TypeOK
<1>6. \A v \in Workers : Working(v) => worker[v].cmd # c
  BY <1>2, AtWorkTyped DEF Inv, AttemptsClaimed
<1>7. RowsConsistent' /\ NeverFenced'
  BY <1>3, <1>5 DEF Inv, RowsConsistent, NeverFenced
<1>8. AttemptsClaimed'
  BY <1>5, <1>6, AtWorkTyped DEF Inv, AttemptsClaimed, Working
<1>9. OneExecutorPerAttempt'
  BY <1>5 DEF Inv, OneExecutorPerAttempt, Working
<1>10. HolderRow'
  BY <1>5, <1>6, AtWorkTyped DEF Inv, HolderRow, Working, Current
<1>11. Advance
  BY <1>2, <1>3, <1>5 DEF Inv, Advance, TypeOK, OutboxRow
<1> QED  BY <1>1, <1>3, <1>5, <1>7, <1>8, <1>9, <1>10, <1>11 DEF RowsInv

\* What a step does to the rows: nothing, or one of the four events above to one row.
RowStep(c) ==
  \/ outbox' = outbox
  \/ /\ \A d \in Commands \ {c} : outbox'[d] = outbox[d]
     /\ \/ /\ outbox[c].state = "absent" /\ outbox'[c].state = "queued"
           /\ ~outbox'[c].settled
        \/ /\ outbox[c].state \in {"queued", "running", "retryable", "ambiguous"}
           /\ outbox'[c].state \in {"running", "retryable", "ambiguous", "blocked"}
           /\ ~outbox'[c].settled
        \/ /\ outbox[c].state \in {"running", "ambiguous"}
           /\ outbox'[c].state = "settled" /\ shown[c]

\* A process at work stays where it is, moves within its attempt, or is done.
LEMMA StepMoves ==
  ASSUME Inv, NEW w \in Workers, Observe(w) \/ Guard(w) \/ Write(w) \/ Verify(w)
  PROVE  /\ Working(w) /\ Moves(w) /\ SameAttempt(w)
         /\ worker'[w].pc = "record" => worker'[w].verdict # "fenced"
         /\ outbox' = outbox
<1>1. Working(w)
  BY DEF Observe, Guard, Write, Verify, Working, AtWork
<1>2. TypeOK
  BY DEF Inv
<1>3. ASSUME NEW verdicts \in SUBSET {"retryable", "blocked"}, FaultyAnswer(w, verdicts)
      PROVE  Moves(w) /\ SameAttempt(w) /\ worker'[w].verdict # "fenced"
  BY <1>2, <1>3, FaultAnswered
<1>4. ASSUME NEW pc \in {"write", "commit", "verify"}, Goto(w, pc)
      PROVE  Moves(w) /\ SameAttempt(w) /\ worker'[w].pc = pc
  BY <1>2, <1>4, GoneTo DEF PCs, AtWork
<1>5. ASSUME NEW verdict \in {"retryable", "blocked"}, Fail(w, verdict, FALSE)
      PROVE  Moves(w) /\ SameAttempt(w) /\ worker'[w].verdict # "fenced"
  BY <1>2, <1>5, Failed
<1>6. CASE Observe(w)
  <2>1. CASE FaultyAnswer(w, {"retryable", "blocked"})
    BY <1>1, <1>3, <1>6, <2>1 DEF Observe
  <2>2. CASE worker' = [worker EXCEPT ![w] =
               [@ EXCEPT !.pc = "decide", !.before = remote[worker[w].cmd]]]
    <3> DEFINE new == [worker[w] EXCEPT !.pc = "decide", !.before = remote[worker[w].cmd]]
    <3>1. /\ new \in WorkerRecord /\ new.cmd = worker[w].cmd /\ new.mode = worker[w].mode
          /\ new.attempt = worker[w].attempt /\ new.pc = "decide"
      BY <1>1, <1>2 DEF TypeOK, WorkerRecord, PCs, AtWork
    <3>2. worker' = [worker EXCEPT ![w] = new]
      BY <2>2
    <3> HIDE DEF new
    <3> QED  BY <1>1, <1>2, <1>6, <3>1, <3>2 DEF Observe, TypeOK, Moves, SameAttempt
  <2> QED  BY <1>6, <2>1, <2>2 DEF Observe
<1>7. CASE Guard(w)
  BY <1>1, <1>3, <1>4, <1>5, <1>7 DEF Guard
<1>8. CASE Write(w)
  <2>1. CASE FaultyAnswer(w, {"retryable", "blocked"})
    BY <1>1, <1>3, <1>8, <2>1 DEF Write
  <2>2. CASE Goto(w, IF Kind[worker[w].cmd] = "create" THEN "commit" ELSE "verify")
    BY <1>1, <1>4, <1>8, <2>2 DEF Write
  <2> QED  BY <1>8, <2>1, <2>2 DEF Write
<1>9. CASE Verify(w)
  BY <1>1, <1>3, <1>4, <1>5, <1>9 DEF Verify
<1> QED  BY <1>6, <1>7, <1>8, <1>9

LEMMA DecideMoves ==
  ASSUME Inv, NEW w \in Workers, Decide(w)
  PROVE  /\ Working(w) /\ Moves(w)
         /\ worker'[w].pc \notin {"verify", "commit"}
         /\ worker'[w].before = worker[w].before \/ ~Working(w)'
         /\ RowsInv' /\ Advance /\ RowStep(worker[w].cmd)
         /\ Working(w)' => SameAttempt(w)
         /\ worker'[w].pc = "record" => outbox' = outbox
         /\ worker'[w].pc = "record" =>
              ~Current(w) \/ outbox[worker[w].cmd].settled
<1>1. Working(w) /\ TypeOK
  BY DEF Decide, Working, AtWork, Inv
<1> DEFINE c == worker[w].cmd
<1>2. ASSUME Return(w)
      PROVE  /\ Moves(w) /\ ~Working(w)' /\ worker'[w].pc = "idle"
             /\ \A v \in Workers : Working(v)' => Working(v) /\ SameAttempt(v)
  <2>1. Moves(w) /\ ~Working(w)' /\ worker'[w].pc = "idle"
    BY <1>1, <1>2, Returned DEF Working, AtWork, Resting
  <2> QED  BY <2>1 DEF Moves, SameAttempt, Working
<1>3. CASE SettleNoOp(w)
  <2>1. shown[c]
    BY <1>1, <1>3 DEF SettleNoOp, Inv, ShownRemotely
  <2> QED  BY <1>1, <1>2, <1>3, <2>1, RowsSettled DEF SettleNoOp, RowStep
<1>4. CASE LeaveAmbiguous(w)
  BY <1>1, <1>2, <1>4, RowsQuiet DEF LeaveAmbiguous, RowStep
<1>5. CASE BlockStaleBase(w)
  <2>1. AppendAttempt(w, "blocked", FALSE) /\ Moves(w) /\ ~Working(w)'
        /\ worker'[w].pc = "idle"
    BY <1>2, <1>5 DEF BlockStaleBase
  <2>2. /\ RowsInv' /\ Advance
        /\ \/ outbox' = outbox
           \/ /\ outbox[c].state \in {"running", "ambiguous"}
              /\ outbox'[c].state \in {"retryable", "blocked"}
              /\ ~outbox'[c].settled
              /\ \A d \in Commands \ {c} : outbox'[d] = outbox[d]
    BY <1>1, <2>1, RowsAttempted
  <2> QED  BY <1>1, <2>1, <2>2 DEF RowStep
<1>6. CASE CheckLease(w)
  <2>1. /\ Moves(w) /\ SameAttempt(w) /\ worker'[w].before = worker[w].before
        /\ worker'[w].pc \in {"guard", "record"}
        /\ worker'[w].pc = "record" => ~LeaseActive(outbox[c], Token[w])
    BY <1>1, <1>6, GoneTo, Failed DEF CheckLease, PCs, AtWork
  <2>2. outbox' = outbox /\ worker[w].mode = "running"
    BY <1>6 DEF CheckLease
  <2>3. \A v \in Workers : Working(v)' => Working(v) /\ SameAttempt(v)
    BY <1>1, <2>1 DEF Moves, SameAttempt, Working
  <2>4. worker'[w].pc = "record" => ~Current(w) \/ outbox[c].settled
    BY <1>1, <2>1, <2>2 DEF Inv, HolderRow, LeaseActive
  <2> QED  BY <1>1, <2>1, <2>2, <2>3, <2>4, RowsQuiet DEF RowStep
<1> QED  BY <1>3, <1>4, <1>5, <1>6 DEF Decide

LEMMA RowsStep ==
  ASSUME Inv, [Next]_vars
  PROVE  /\ RowsInv' /\ Advance
         /\ outbox' = outbox \/ \E c \in Commands : RowStep(c)
<1>1. TypeOK
  BY DEF Inv
<1>2. ASSUME outbox' = outbox, worker' = worker
      PROVE  RowsInv' /\ Advance
  BY <1>2, RowsQuiet DEF SameAttempt, Working
<1>3. ASSUME NEW w \in Workers, outbox' = outbox, Moves(w),
             Working(w)' => Working(w) /\ SameAttempt(w)
      PROVE  RowsInv' /\ Advance
  BY <1>3, RowsQuiet DEF Moves, SameAttempt, Working
<1>4. ASSUME NEW w \in Workers, Return(w)
      PROVE  Moves(w) /\ ~Working(w)'
  BY <1>1, <1>4, Returned DEF Working, AtWork, Resting
<1>5. ASSUME NEW w \in Workers, NEW c \in Commands, Claim(w, c)
      PROVE  RowsInv' /\ Advance /\ RowStep(c)
  BY <1>5, RowsClaimed DEF RowStep
<1>6. ASSUME NEW w \in Workers, Observe(w) \/ Guard(w) \/ Write(w) \/ Verify(w)
      PROVE  RowsInv' /\ Advance /\ outbox' = outbox
  BY <1>3, <1>6, StepMoves
<1>7. ASSUME NEW w \in Workers, Decide(w)
      PROVE  RowsInv' /\ Advance /\ RowStep(worker[w].cmd) /\ worker[w].cmd \in Commands
  BY <1>1, <1>7, DecideMoves, AtWorkTyped
<1>8. ASSUME NEW w \in Workers, Commit(w)
      PROVE  RowsInv' /\ Advance /\ RowStep(worker[w].cmd) /\ worker[w].cmd \in Commands
  <2>1. Working(w) /\ worker[w].cmd \in Commands
    BY <1>1, <1>8, AtWorkTyped DEF Commit, Working, AtWork
  <2>2. shown[worker[w].cmd]
    BY <1>8, <2>1 DEF Commit, Inv, ShownRemotely
  <2> QED  BY <1>4, <1>8, <2>1, <2>2, RowsSettled DEF Commit, RowStep
<1>9. ASSUME NEW w \in Workers, Record(w)
      PROVE  RowsInv' /\ Advance /\ RowStep(worker[w].cmd) /\ worker[w].cmd \in Commands
  <2>1. Working(w) /\ worker[w].cmd \in Commands
    BY <1>1, <1>9, AtWorkTyped DEF Record, Working, AtWork
  <2>2. /\ worker[w].verdict \in {"retryable", "blocked", "fenced"}
        /\ worker[w].delay \in BOOLEAN
    BY <1>1 DEF TypeOK, WorkerRecord
  <2>3. worker[w].verdict = "fenced" => ~Current(w) \/ outbox[worker[w].cmd].settled
    BY <1>9 DEF Record, Inv, FencedOutdated
  <2>4. AppendAttempt(w, worker[w].verdict, worker[w].delay) /\ Moves(w) /\ ~Working(w)'
    BY <1>4, <1>9 DEF Record
  <2>5. /\ RowsInv' /\ Advance
        /\ \/ outbox' = outbox
           \/ /\ outbox[worker[w].cmd].state \in {"running", "ambiguous"}
              /\ outbox'[worker[w].cmd].state \in {"retryable", "blocked"}
              /\ ~outbox'[worker[w].cmd].settled
              /\ \A d \in Commands \ {worker[w].cmd} : outbox'[d] = outbox[d]
    BY <2>1, <2>2, <2>3, <2>4, RowsAttempted
  <2> QED  BY <2>1, <2>5 DEF RowStep
<1>10. ASSUME NEW w \in Workers, Start(w) \/ Interrupt(w) \/ Crash(w)
       PROVE  RowsInv' /\ Advance /\ outbox' = outbox
  <2>1. Moves(w) /\ ~Working(w)'
    <3>1. CASE Start(w)
      BY <1>1, <3>1, GoneTo DEF Start, PCs, Working, AtWork
    <3>2. CASE Interrupt(w)
      BY <1>4, <3>2 DEF Interrupt
    <3>3. CASE Crash(w)
      <4>1. [Resting EXCEPT !.pc = "dead"] \in WorkerRecord
        BY Rested DEF WorkerRecord, PCs
      <4> QED  BY <1>1, <3>3, <4>1 DEF Crash, TypeOK, Moves, Working, AtWork, Resting
    <3> QED  BY <1>10, <3>1, <3>2, <3>3
  <2>2. outbox' = outbox
    BY <1>10 DEF Start, Interrupt, Crash
  <2> QED  BY <1>3, <2>1, <2>2
<1>11. ASSUME NEW c \in Commands, Plan(c)
       PROVE  RowsInv' /\ Advance /\ RowStep(c)
  BY <1>11, RowsPlanned DEF RowStep
<1>12. ASSUME NEW c \in Commands, ExternalEdit(c)
       PROVE  RowsInv' /\ Advance /\ outbox' = outbox
  BY <1>2, <1>12 DEF ExternalEdit
<1>13. CASE Rebuild \/ Tick \/ UNCHANGED vars
  BY <1>2, <1>13 DEF Rebuild, Tick, vars
<1> QED  BY <1>5, <1>6, <1>7, <1>8, <1>9, <1>10, <1>11, <1>12, <1>13 DEF Next, Step
-----------------------------------------------------------------------------
(* The inductive invariant.                                                   *)

\* A process that is about to record fenced stays outdated: rows only advance.
LEMMA FencedStep ==
  ASSUME Inv, TypeOK', [Next]_vars
  PROVE  FencedOutdated'
<1> SUFFICES ASSUME NEW v \in Workers, worker'[v].pc = "record",
                    worker'[v].verdict = "fenced"
             PROVE  ~Current(v)' \/ outbox'[worker'[v].cmd].settled
  BY DEF FencedOutdated
<1>1. Advance /\ TypeOK
  BY RowsStep DEF Inv
<1>2. ASSUME worker'[v] = worker[v]
      PROVE  ~Current(v)' \/ outbox'[worker'[v].cmd].settled
  <2>1. Working(v) /\ worker[v].cmd \in Commands /\ worker[v].attempt \in Nat
        /\ outbox[worker[v].cmd] \in OutboxRow
    BY <1>1, <1>2, AtWorkTyped DEF Working, AtWork
  <2>2. ~Current(v) \/ outbox[worker[v].cmd].settled
    BY <1>2 DEF Inv, FencedOutdated
  <2>3. worker[v].attempt <= outbox[worker[v].cmd].attempts
    BY <2>1 DEF Inv, AttemptsClaimed
  <2>4. outbox[worker[v].cmd].attempts \in Nat /\ outbox'[worker[v].cmd].attempts \in Nat
    BY <2>1 DEF TypeOK, OutboxRow
  <2> QED  BY <1>1, <1>2, <2>1, <2>2, <2>3, <2>4 DEF Advance, Current
<1>3. ASSUME NEW w \in Workers, Decide(w), v = w
      PROVE  ~Current(v)' \/ outbox'[worker'[v].cmd].settled
  <2>1. /\ Working(w)' /\ SameAttempt(w) /\ outbox' = outbox
        /\ ~Current(w) \/ outbox[worker[w].cmd].settled
    BY <1>3, DecideMoves DEF Working, AtWork
  <2> QED  BY <1>3, <2>1 DEF SameAttempt, Current
<1>4. ASSUME NEW w \in Workers, Moves(w), ~Working(w)' \/ worker'[w].verdict # "fenced"
      PROVE  ~Current(v)' \/ outbox'[worker'[v].cmd].settled
  <2>1. v # w
    BY <1>4 DEF Working, AtWork
  <2> QED  BY <1>2, <1>4, <2>1 DEF Moves
<1>5. ASSUME NEW w \in Workers, Moves(w), v # w
      PROVE  ~Current(v)' \/ outbox'[worker'[v].cmd].settled
  BY <1>2, <1>5 DEF Moves
<1>6. ASSUME NEW w \in Workers, Step(w)
      PROVE  ~Current(v)' \/ outbox'[worker'[v].cmd].settled
  <2>1. ASSUME NEW c \in Commands, Claim(w, c)
        PROVE  ~Current(v)' \/ outbox'[worker'[v].cmd].settled
    BY <1>5, <2>1, RowsClaimed
  <2>2. CASE Observe(w) \/ Guard(w) \/ Write(w) \/ Verify(w)
    BY <1>4, <1>5, <2>2, StepMoves
  <2>3. CASE Decide(w)
    BY <1>3, <1>5, <2>3, DecideMoves
  <2>4. CASE Commit(w) \/ Record(w)
    <3>1. Return(w)
      BY <2>4 DEF Commit, Record
    <3> QED  BY <1>1, <1>4, <3>1, Returned DEF Working, AtWork, Resting
  <2> QED  BY <1>6, <2>1, <2>2, <2>3, <2>4 DEF Step
<1>7. ASSUME NEW w \in Workers, Start(w) \/ Interrupt(w) \/ Crash(w)
      PROVE  ~Current(v)' \/ outbox'[worker'[v].cmd].settled
  <2>1. CASE v = w
    BY <1>1, <1>7, <2>1, GoneTo, Returned
       DEF Start, Interrupt, Crash, PCs, AtWork, Resting, TypeOK
  <2>2. CASE v # w
    BY <1>1, <1>2, <1>7, <2>2 DEF Start, Interrupt, Crash, Goto, Return, TypeOK
  <2> QED  BY <2>1, <2>2
<1>8. ASSUME worker' = worker
      PROVE  ~Current(v)' \/ outbox'[worker'[v].cmd].settled
  BY <1>2, <1>8
<1> QED  BY <1>6, <1>7, <1>8 DEF Next, Plan, ExternalEdit, Rebuild, Tick, vars

\* Nobody settles what has not been shown.
LEMMA ShownStep ==
  ASSUME Inv, TypeOK', [Next]_vars
  PROVE  ShownRemotely' /\ SettledWasShown'
<1> DEFINE Remembered == \A c \in Commands : shown[c] => shown'[c]
           RemoteShown == \A c \in Commands : remote[c].desired => shown[c]
           SeenShown(v) == Working(v) =>
             /\ worker[v].before.desired => shown[worker[v].cmd]
             /\ worker[v].pc \in {"verify", "commit"} => shown[worker[v].cmd]
<1>1. /\ TypeOK /\ RemoteShown /\ SettledWasShown /\ RowsConsistent
      /\ \A v \in Workers : SeenShown(v)
  BY DEF Inv, ShownRemotely
<1>2. Remembered /\ RemoteShown'
  <2>1. ASSUME NEW w \in Workers, Write(w)
        PROVE  Remembered /\ RemoteShown'
    <3>1. worker[w].cmd \in Commands
      BY <1>1, <2>1, AtWorkTyped DEF Write, Working, AtWork
    <3>2. CASE Land(worker[w].cmd)
      BY <1>1, <3>1, <3>2 DEF Land, TypeOK
    <3>3. CASE UNCHANGED <<remote, landed, shown>>
      BY <1>1, <3>3
    <3> QED  BY <2>1, <3>2, <3>3 DEF Write
  <2>2. ASSUME NEW c \in Commands, ExternalEdit(c)
        PROVE  Remembered /\ RemoteShown'
    <3>1. PICK s \in Surfaces(Kind[c]) :
               /\ remote' = [remote EXCEPT ![c] = s]
               /\ shown' = [shown EXCEPT ![c] = @ \/ s.desired]
      BY <2>2 DEF ExternalEdit
    <3>2. \A d \in Commands \ {c} : remote'[d] = remote[d] /\ shown'[d] = shown[d]
      BY <1>1, <3>1 DEF TypeOK
    <3>3. remote'[c] = s /\ shown'[c] = (shown[c] \/ s.desired)
      BY <1>1, <3>1 DEF TypeOK
    <3> QED  BY <1>1, <3>2, <3>3
  <2>3. ASSUME UNCHANGED <<remote, shown>>
        PROVE  Remembered /\ RemoteShown'
    BY <1>1, <2>3
  <2> QED  BY <2>1, <2>2, <2>3 DEF Next, Step, Claim, Observe, Decide, Guard, Verify,
              Commit, Record, Start, Interrupt, Crash, Plan, Rebuild, Tick, vars
<1>3. SettledWasShown'
  <2>1. CASE outbox' = outbox
    BY <1>1, <1>2, <2>1 DEF SettledWasShown
  <2>2. ASSUME NEW c \in Commands, RowStep(c)
        PROVE  SettledWasShown'
    <3>1. outbox'[c].settled => shown[c] \/ outbox'[c] = outbox[c]
      BY <2>2 DEF RowStep
    <3>2. \A d \in Commands \ {c} : outbox'[d] = outbox[d]
      BY <2>2 DEF RowStep
    <3> QED  BY <1>1, <1>2, <3>1, <3>2 DEF SettledWasShown
  <2> QED  BY <2>1, <2>2, RowsStep
<1>4. ASSUME NEW v \in Workers, worker'[v] = worker[v]
      PROVE  SeenShown(v)'
  BY <1>1, <1>2, <1>4, AtWorkTyped DEF Working
<1>5. ASSUME NEW v \in Workers, ~Working(v)'
      PROVE  SeenShown(v)'
  BY <1>5
<1>6. ASSUME NEW v \in Workers, Working(v), SameAttempt(v),
             worker'[v].before = worker[v].before \/
               worker'[v].before = remote[worker[v].cmd],
             worker'[v].pc \in {"verify", "commit"} => shown'[worker[v].cmd]
      PROVE  SeenShown(v)'
  BY <1>1, <1>2, <1>6, AtWorkTyped DEF SameAttempt
<1>7. ASSUME NEW w \in Workers, Step(w)
      PROVE  SeenShown(w)'
  <2>1. ASSUME NEW c \in Commands, Claim(w, c)
        PROVE  SeenShown(w)'
    BY <2>1, RowsClaimed
  <2>2. CASE Observe(w)
    <3>1. Working(w) /\ Moves(w) /\ SameAttempt(w)
      BY <2>2, StepMoves
    <3>2. CASE FaultyAnswer(w, {"retryable", "blocked"})
      BY <1>1, <1>6, <3>1, <3>2, FaultAnswered
    <3>3. CASE worker' = [worker EXCEPT ![w] =
                 [@ EXCEPT !.pc = "decide", !.before = remote[worker[w].cmd]]]
      BY <1>1, <1>6, <3>1, <3>3 DEF TypeOK, WorkerRecord
    <3> QED  BY <2>2, <3>2, <3>3 DEF Observe
  <2>3. CASE Decide(w)
    <3>1. CASE Working(w)'
      BY <1>6, <2>3, <3>1, DecideMoves
    <3> QED  BY <1>5, <3>1
  <2>4. CASE Guard(w)
    <3>1. Working(w) /\ Moves(w) /\ SameAttempt(w)
      BY <2>4, StepMoves
    <3>2. CASE FaultyAnswer(w, {"retryable", "blocked"})
      BY <1>1, <1>6, <3>1, <3>2, FaultAnswered
    <3>3. CASE Goto(w, "write")
      BY <1>1, <1>6, <3>1, <3>3, GoneTo DEF PCs, AtWork
    <3>4. CASE Fail(w, "blocked", FALSE)
      BY <1>1, <1>6, <3>1, <3>4, Failed
    <3> QED  BY <2>4, <3>2, <3>3, <3>4 DEF Guard
  <2>5. CASE Write(w)
    <3>1. Working(w) /\ Moves(w) /\ SameAttempt(w) /\ worker[w].cmd \in Commands
      BY <1>1, <2>5, StepMoves, AtWorkTyped
    <3>2. CASE FaultyAnswer(w, {"retryable", "blocked"})
      BY <1>1, <1>6, <3>1, <3>2, FaultAnswered
    <3>3. CASE Land(worker[w].cmd)
               /\ Goto(w, IF Kind[worker[w].cmd] = "create" THEN "commit" ELSE "verify")
      <4>1. shown'[worker[w].cmd]
        BY <1>1, <3>1, <3>3 DEF Land, TypeOK
      <4>2. worker'[w].before = worker[w].before
        BY <1>1, <3>3, GoneTo DEF PCs, AtWork
      <4> QED  BY <1>6, <3>1, <4>1, <4>2
    <3> QED  BY <2>5, <3>2, <3>3 DEF Write
  <2>6. CASE Verify(w)
    <3>1. Working(w) /\ Moves(w) /\ SameAttempt(w) /\ worker[w].cmd \in Commands
          /\ shown[worker[w].cmd]
      BY <1>1, <2>6, StepMoves, AtWorkTyped DEF Verify
    <3>2. CASE FaultyAnswer(w, {"retryable"})
      BY <1>1, <1>6, <3>1, <3>2, FaultAnswered
    <3>3. CASE Goto(w, "commit")
      BY <1>1, <1>2, <1>6, <3>1, <3>3, GoneTo DEF PCs, AtWork
    <3>4. CASE Fail(w, "retryable", FALSE)
      BY <1>1, <1>6, <3>1, <3>4, Failed
    <3> QED  BY <2>6, <3>2, <3>3, <3>4 DEF Verify
  <2>7. CASE Commit(w) \/ Record(w)
    BY <1>1, <1>5, <2>7, Returned DEF Commit, Record, Working, AtWork, Resting
  <2> QED  BY <1>7, <2>1, <2>2, <2>3, <2>4, <2>5, <2>6, <2>7 DEF Step
<1>8. ASSUME NEW w \in Workers, Start(w) \/ Interrupt(w) \/ Crash(w)
      PROVE  SeenShown(w)'
  BY <1>1, <1>5, <1>8, GoneTo, Returned
     DEF Start, Interrupt, Crash, Working, PCs, AtWork, Resting, TypeOK
<1>9. \A v \in Workers : SeenShown(v)'
  <2> SUFFICES ASSUME NEW v \in Workers
               PROVE  SeenShown(v)'
    OBVIOUS
  <2>1. ASSUME NEW w \in Workers, Step(w) \/ Start(w) \/ Interrupt(w) \/ Crash(w)
        PROVE  SeenShown(v)'
    <3>1. CASE v = w
      BY <1>7, <1>8, <2>1, <3>1
    <3>2. CASE v # w
      <4>1. worker'[v] = worker[v]
        BY <1>1, <2>1, <3>2, RowsClaimed, StepMoves, DecideMoves
           DEF Step, Commit, Record, Return, Start, Goto, Interrupt, Crash, Moves, TypeOK
      <4> QED  BY <1>4, <4>1
    <3> QED  BY <3>1, <3>2
  <2>2. ASSUME worker' = worker
        PROVE  SeenShown(v)'
    BY <1>4, <2>2
  <2> QED  BY <2>1, <2>2 DEF Next, Plan, ExternalEdit, Rebuild, Tick, vars
<1> QED  BY <1>2, <1>3, <1>9 DEF ShownRemotely

LEMMA InvInit == Init => Inv
<1> SUFFICES ASSUME Init
             PROVE  Inv
  OBVIOUS
<1>1. \A w \in Workers : ~Working(w) /\ worker[w].pc # "record"
  BY DEF Init, Working, AtWork, Resting
<1>2. \A c \in Commands :
        /\ outbox[c].state = "absent" /\ outbox[c].attempts = 0
        /\ outbox[c].settled = FALSE /\ remote[c].desired = FALSE
  BY DEF Init, AbsentRow, PlannedSurface
<1> QED  BY <1>1, <1>2, TypeInit DEF Inv, RowsConsistent, AttemptsClaimed,
            OneExecutorPerAttempt, HolderRow, FencedOutdated, NeverFenced, ShownRemotely,
            SettledWasShown

LEMMA InvStep == Inv /\ [Next]_vars => Inv'
<1> SUFFICES ASSUME Inv, [Next]_vars
             PROVE  Inv'
  OBVIOUS
<1>1. TypeOK'
  BY TypeStep DEF Inv
<1> QED  BY <1>1, RowsStep, FencedStep, ShownStep DEF Inv, RowsInv

\* The inductive invariant holds in every reachable state.
THEOREM Invariance == Spec => []Inv
BY InvInit, InvStep, PTL DEF Spec
-----------------------------------------------------------------------------
(* The theorems about the outbox.                                             *)

\* A command is settled only after its effect has been on the remote, for every number
\* of processes, stalls, crashes, lost answers and foreign edits.
THEOREM SettledMeansShown == Spec => []SettledWasShown
BY Invariance, PTL DEF Inv

\* No two processes execute the same attempt, even under one shared lease token.
THEOREM OneExecutor == Spec => []OneExecutorPerAttempt
BY Invariance, PTL DEF Inv

\* The dead-end state fenced is never reached.
THEOREM FencedUnreachable == Spec => []NeverFenced
BY Invariance, PTL DEF Inv

\* Settled rows never change again and attempt counts never fall.
THEOREM RowsOnlyAdvance == Spec => RowsAdvance
<1>1. Inv /\ [Next]_vars =>
        [\A c \in Commands :
           /\ outbox[c].settled => outbox'[c] = outbox[c]
           /\ outbox'[c].attempts >= outbox[c].attempts]_vars
  BY RowsStep DEF Advance
<1> QED  BY <1>1, Invariance, PTL DEF Spec, RowsAdvance

LEMMA StaleRecordStep ==
  ASSUME Inv, [Next]_vars
  PROVE  \A w \in Workers : worker[w].pc = "record" /\ ~Current(w) /\ ~Working(w)'
           => outbox' = outbox
<1> SUFFICES ASSUME NEW w \in Workers, worker[w].pc = "record", ~Current(w),
                    ~Working(w)'
             PROVE  outbox' = outbox
  OBVIOUS
<1>1. TypeOK /\ Working(w)
  BY DEF Inv, Working, AtWork
<1>2. worker'[w] # worker[w]
  BY <1>1 DEF Working
<1>3. CASE Record(w)
  <2>1. /\ worker[w].verdict \in {"retryable", "blocked", "fenced"}
        /\ worker[w].delay \in BOOLEAN
    BY <1>1 DEF TypeOK, WorkerRecord
  <2>2. AppendAttempt(w, worker[w].verdict, worker[w].delay) /\ Moves(w)
    BY <1>1, <1>3, Returned DEF Record
  <2> QED  BY <1>1, <2>1, <2>2, RowsAttempted
<1>4. CASE Interrupt(w) \/ Crash(w)
  BY <1>4 DEF Interrupt, Crash
<1>5. CASE \E c \in Commands : Claim(w, c)
  BY <1>5 DEF Claim
<1>6. CASE Observe(w) \/ Guard(w) \/ Write(w) \/ Verify(w) \/ Decide(w) \/ Commit(w)
           \/ Start(w)
  BY <1>6 DEF Observe, Guard, Write, Verify, Decide, Commit, Start
<1>7. ASSUME NEW v \in Workers, v # w, Step(v) \/ Start(v) \/ Interrupt(v) \/ Crash(v)
      PROVE  FALSE
  BY <1>1, <1>2, <1>7, RowsClaimed, StepMoves, DecideMoves
     DEF Step, Commit, Record, Return, Start, Goto, Interrupt, Crash, Moves, TypeOK
<1>8. CASE worker' = worker
  BY <1>2, <1>8
<1> QED  BY <1>3, <1>4, <1>5, <1>6, <1>7, <1>8
            DEF Next, Step, Plan, ExternalEdit, Rebuild, Tick, vars

\* The state an overtaken executor records changes no row.
THEOREM StaleRecordsIgnored == Spec => StaleRecordIgnored
<1>1. Inv /\ [Next]_vars =>
        [\A w \in Workers : worker[w].pc = "record" /\ ~Current(w) /\ ~Working(w)'
           => outbox' = outbox]_vars
  BY StaleRecordStep
<1> QED  BY <1>1, Invariance, PTL DEF Spec, StaleRecordIgnored

LEMMA LifecycleStep ==
  ASSUME Inv, [Next]_vars
  PROVE  [Lifecycle!LifecycleNext]_(Lifecycle!lifecycleVars)
<1> DEFINE phase == [c \in Commands |-> Phase(outbox[c])]
<1>1. TypeOK
  BY DEF Inv
<1>2. ASSUME NEW c \in Commands, shown' = shown, RowStep(c), outbox' # outbox
      PROVE  [Lifecycle!LifecycleNext]_(Lifecycle!lifecycleVars)
  <2>1. \A d \in Commands \ {c} : Phase(outbox'[d]) = Phase(outbox[d])
    BY <1>2 DEF RowStep
  <2>2. phase' = [phase EXCEPT ![c] = Phase(outbox'[c])]
    BY <2>1
  <2>3. CASE Phase(outbox'[c]) = Phase(outbox[c])
    BY <1>2, <2>1, <2>3 DEF Lifecycle!lifecycleVars
  <2>4. CASE Phase(outbox'[c]) # Phase(outbox[c])
    <3>1. \/ Phase(outbox[c]) = "absent" /\ Phase(outbox'[c]) = "pending"
          \/ Phase(outbox[c]) = "pending" /\ Phase(outbox'[c]) = "blocked"
          \/ Phase(outbox[c]) = "pending" /\ Phase(outbox'[c]) = "settled" /\ shown[c]
      BY <1>2, <2>4 DEF RowStep, Phase
    <3>2. \/ Lifecycle!Accept(c) \/ Lifecycle!Block(c) \/ Lifecycle!Settle(c)
      BY <1>2, <2>2, <3>1 DEF Lifecycle!Accept, Lifecycle!Block, Lifecycle!Settle,
         Lifecycle!Become
    <3> QED  BY <3>2 DEF Lifecycle!LifecycleNext
  <2> QED  BY <2>3, <2>4
<1>3. ASSUME NEW c \in Commands, outbox' = outbox, outbox[c].state # "absent",
             shown' = [shown EXCEPT ![c] = TRUE]
      PROVE  Lifecycle!LifecycleNext
  BY <1>3 DEF Lifecycle!LifecycleNext, Lifecycle!Show, Phase
<1>4. ASSUME outbox' = outbox, shown' = shown
      PROVE  UNCHANGED Lifecycle!lifecycleVars
  BY <1>4 DEF Lifecycle!lifecycleVars
<1>5. CASE shown' = shown
  BY <1>2, <1>4, <1>5, RowsStep
<1>6. ASSUME NEW w \in Workers, Write(w)
      PROVE  [Lifecycle!LifecycleNext]_(Lifecycle!lifecycleVars)
  <2>1. /\ outbox' = outbox /\ worker[w].cmd \in Commands /\ worker[w].attempt > 0
        /\ worker[w].attempt <= outbox[worker[w].cmd].attempts
        /\ worker[w].attempt \in Nat /\ outbox[worker[w].cmd].attempts \in Nat
    BY <1>1, <1>6, StepMoves, AtWorkTyped DEF Inv, AttemptsClaimed, OutboxRow
  <2>2. outbox[worker[w].cmd].state # "absent"
    BY <2>1 DEF Inv, RowsConsistent
  <2> QED  BY <1>3, <1>4, <1>6, <2>1, <2>2 DEF Write, Land
<1>7. ASSUME NEW c \in Commands, ExternalEdit(c)
      PROVE  [Lifecycle!LifecycleNext]_(Lifecycle!lifecycleVars)
  <2>1. PICK s \in Surface : shown' = [shown EXCEPT ![c] = @ \/ s.desired]
    BY <1>7 DEF ExternalEdit, Surfaces
  <2>2. shown' = [shown EXCEPT ![c] = TRUE] \/ shown' = shown
    <3>1. CASE s.desired
      <4>1. (shown[c] \/ s.desired) = TRUE
        BY <3>1
      <4> QED  BY <2>1, <4>1
    <3>2. CASE ~s.desired
      <4>1. (shown[c] \/ s.desired) = shown[c]
        BY <1>1, <3>2 DEF TypeOK
      <4> QED  BY <1>1, <2>1, <4>1 DEF TypeOK
    <3> QED  BY <3>1, <3>2
  <2> QED  BY <1>3, <1>4, <1>7, <2>2 DEF ExternalEdit
<1> QED  BY <1>5, <1>6, <1>7 DEF Next, Step, Claim, Observe, Decide, Guard, Verify,
            Commit, Record, Start, Interrupt, Crash, Plan, Rebuild, Tick, vars

\* The outbox implements the life of a command: every step of any process, fault or
\* edit moves one command along CommandLifecycle, or leaves all phases alone.
THEOREM Implements == Spec => ImplementsLifecycle
<1>1. Init => Lifecycle!LifecycleInit
  BY DEF Init, Lifecycle!LifecycleInit, Phase, AbsentRow
<1>2. Inv /\ [Next]_vars => [Lifecycle!LifecycleNext]_(Lifecycle!lifecycleVars)
  BY LifecycleStep
<1> QED  BY <1>1, <1>2, Invariance, PTL
            DEF Spec, ImplementsLifecycle, Lifecycle!LifecycleSpec
-----------------------------------------------------------------------------
(* The lease check, when every process has a token of its own.                *)

OwnTokenEach == \A v, w \in Workers : Token[v] = Token[w] => v = w

\* A row under the token of a process at work on it is under that process's attempt.
LeaseOfCurrent == \A w \in Workers :
  Working(w) /\ outbox[worker[w].cmd].lease = Token[w] => Current(w)

\* How a step changes a lease: an executor may write its token to the row it works on
\* without a new attempt; a settlement clears it.
LeaseKept(c) ==
  outbox'[c].attempts = outbox[c].attempts /\ outbox'[c].lease \in {outbox[c].lease, NoToken}

LEMMA LeaseQuiet ==
  ASSUME Inv, LeaseOfCurrent, \A c \in Commands : LeaseKept(c),
         \A v \in Workers : Working(v)' => Working(v) /\ SameAttempt(v)
  PROVE  LeaseOfCurrent'
<1> SUFFICES ASSUME NEW v \in Workers, Working(v)', outbox'[worker'[v].cmd].lease = Token[v]
             PROVE  Current(v)'
  BY DEF LeaseOfCurrent
<1>1. Working(v) /\ SameAttempt(v) /\ worker[v].cmd \in Commands /\ Token[v] \in Tokens
  BY AtWorkTyped DEF Inv
<1>2. outbox[worker[v].cmd].lease = Token[v]
  BY <1>1, TokenAssumption DEF LeaseKept, SameAttempt
<1>3. Current(v)
  BY <1>1, <1>2 DEF LeaseOfCurrent
<1> QED  BY <1>1, <1>3 DEF Current, LeaseKept, SameAttempt

LEMMA LeaseAttempted ==
  ASSUME OwnTokenEach, Inv, LeaseOfCurrent, NEW w \in Workers, Working(w),
         NEW delay \in BOOLEAN, NEW state \in AttemptStates,
         AppendAttempt(w, state, delay), Return(w)
  PROVE  LeaseOfCurrent'
<1> DEFINE c == worker[w].cmd
           row == outbox[c]
<1>1. /\ c \in Commands /\ row \in OutboxRow /\ worker[w].attempt \in Nat
      /\ Token[w] \in Tokens /\ worker[w].attempt <= row.attempts /\ row.attempts \in Nat
  BY AtWorkTyped DEF Inv, AttemptsClaimed, OutboxRow
<1>2. /\ \A d \in Commands \ {c} : outbox'[d] = outbox[d]
      /\ outbox'[c] = ApplyAttempted(row, state, worker[w].attempt, Token[w], delay)
  BY AttemptAppended DEF Inv
<1>3. \/ outbox'[c] = row
      \/ outbox'[c].attempts = row.attempts /\ outbox'[c].lease = Token[w]
  BY <1>1, <1>2, AppliedAttempt DEF AttemptAccepted
<1>4. Moves(w) /\ ~Working(w)'
  BY Returned DEF Inv, Working, AtWork, Resting
<1> SUFFICES ASSUME NEW v \in Workers, Working(v)', outbox'[worker'[v].cmd].lease = Token[v]
             PROVE  Current(v)'
  BY DEF LeaseOfCurrent
<1>5. v # w /\ Working(v) /\ worker'[v] = worker[v] /\ worker[v].cmd \in Commands
  BY <1>4, AtWorkTyped DEF Moves, Working, Inv
<1>6. Token[v] # Token[w]
  BY <1>5 DEF OwnTokenEach
<1> QED  BY <1>2, <1>3, <1>5, <1>6 DEF LeaseOfCurrent, Current

LEMMA LeaseSettled ==
  ASSUME Inv, LeaseOfCurrent, NEW w \in Workers, Working(w),
         AppendSettlement(worker[w].cmd), Return(w)
  PROVE  LeaseOfCurrent'
<1> DEFINE c == worker[w].cmd
<1>1. c \in Commands /\ outbox[c] \in OutboxRow
  BY AtWorkTyped DEF Inv
<1>2. /\ \A d \in Commands \ {c} : outbox'[d] = outbox[d]
      /\ outbox'[c] = outbox[c] \/ outbox'[c] = ApplySettled(outbox[c])
  BY <1>1, SettlementAppended DEF Inv
<1>3. ApplySettled(outbox[c]).lease \in {outbox[c].lease, NoToken}
      /\ ApplySettled(outbox[c]).attempts = outbox[c].attempts
  BY <1>1 DEF ApplySettled, OutboxRow
<1>4. \A d \in Commands : LeaseKept(d)
  BY <1>2, <1>3 DEF LeaseKept
<1>5. Moves(w) /\ ~Working(w)'
  BY Returned DEF Inv, Working, AtWork, Resting
<1> QED  BY <1>4, <1>5, LeaseQuiet DEF Moves, SameAttempt, Working

LEMMA LeaseClaimed ==
  ASSUME OwnTokenEach, Inv, LeaseOfCurrent, NEW w \in Workers, NEW c \in Commands,
         Claim(w, c)
  PROVE  LeaseOfCurrent'
<1>1. /\ \A d \in Commands \ {c} : outbox'[d] = outbox[d]
      /\ Moves(w) /\ worker'[w].cmd = c
  BY RowsClaimed
<1>2. outbox[c] \in OutboxRow /\ Token[w] \in Tokens
  BY OutboxAssumption DEF Inv, TypeOK
<1>3. /\ ClaimRow(outbox[c], Token[w]).lease = Token[w]
      /\ ClaimRow(outbox[c], Token[w]).attempts = outbox[c].attempts + 1
  BY <1>2, ClaimedRow DEF Claim, CanClaim
<1>4. outbox'[c].lease = Token[w] /\ outbox'[c].attempts = outbox[c].attempts + 1
  BY <1>3 DEF Claim, Inv, TypeOK
<1>5. worker'[w].attempt = outbox[c].attempts + 1
  <2>1. [Resting EXCEPT !.pc = "observe", !.cmd = c, !.attempt = outbox[c].attempts + 1,
                        !.mode = ClaimState(outbox[c])].attempt = outbox[c].attempts + 1
    BY DEF Resting
  <2> QED  BY <2>1 DEF Claim, Inv, TypeOK
<1> SUFFICES ASSUME NEW v \in Workers, Working(v)', outbox'[worker'[v].cmd].lease = Token[v]
             PROVE  Current(v)'
  BY DEF LeaseOfCurrent
<1>6. CASE v = w
  BY <1>1, <1>4, <1>5, <1>6 DEF Current
<1>7. CASE v # w
  <2>1. Working(v) /\ worker'[v] = worker[v] /\ worker[v].cmd \in Commands
    BY <1>1, <1>7, AtWorkTyped DEF Moves, Working, Inv
  <2>2. Token[v] # Token[w]
    BY <1>7 DEF OwnTokenEach
  <2> QED  BY <1>1, <1>4, <2>1, <2>2 DEF LeaseOfCurrent, Current
<1> QED  BY <1>6, <1>7

LEMMA LeaseStep ==
  ASSUME OwnTokenEach, Inv, LeaseOfCurrent, [Next]_vars
  PROVE  LeaseOfCurrent'
<1>1. TypeOK
  BY DEF Inv
<1>2. ASSUME outbox' = outbox, \A v \in Workers : Working(v)' => Working(v) /\ SameAttempt(v)
      PROVE  LeaseOfCurrent'
  BY <1>2, LeaseQuiet DEF LeaseKept
<1>3. ASSUME NEW w \in Workers, outbox' = outbox, Moves(w),
             Working(w)' => Working(w) /\ SameAttempt(w)
      PROVE  LeaseOfCurrent'
  BY <1>2, <1>3 DEF Moves, SameAttempt, Working
<1>4. ASSUME outbox' = outbox, worker' = worker
      PROVE  LeaseOfCurrent'
  BY <1>2, <1>4 DEF SameAttempt, Working
<1>5. ASSUME NEW w \in Workers, Return(w)
      PROVE  Moves(w) /\ ~Working(w)'
  BY <1>1, <1>5, Returned DEF Working, AtWork, Resting
<1>6. ASSUME NEW w \in Workers, Step(w)
      PROVE  LeaseOfCurrent'
  <2>1. CASE \E c \in Commands : Claim(w, c)
    BY <2>1, LeaseClaimed
  <2>2. CASE Observe(w) \/ Guard(w) \/ Write(w) \/ Verify(w)
    BY <1>3, <2>2, StepMoves
  <2>3. CASE Decide(w)
    <3>1. Working(w) /\ Moves(w) /\ (Working(w)' => SameAttempt(w))
      BY <2>3, DecideMoves
    <3>2. CASE SettleNoOp(w)
      BY <3>1, <3>2, LeaseSettled DEF SettleNoOp
    <3>3. CASE BlockStaleBase(w)
      BY <3>1, <3>3, LeaseAttempted DEF BlockStaleBase, AttemptStates
    <3>4. CASE LeaveAmbiguous(w) \/ CheckLease(w)
      BY <1>3, <3>1, <3>4 DEF LeaveAmbiguous, CheckLease
    <3> QED  BY <2>3, <3>2, <3>3, <3>4 DEF Decide
  <2>4. CASE Commit(w)
    BY <2>4, LeaseSettled DEF Commit, Working, AtWork
  <2>5. CASE Record(w)
    <3>1. /\ worker[w].verdict \in AttemptStates /\ worker[w].delay \in BOOLEAN
      BY <1>1 DEF TypeOK, WorkerRecord, AttemptStates
    <3> QED  BY <2>5, <3>1, LeaseAttempted DEF Record, Working, AtWork
  <2> QED  BY <1>6, <2>1, <2>2, <2>3, <2>4, <2>5 DEF Step
<1>7. ASSUME NEW w \in Workers, Start(w) \/ Interrupt(w) \/ Crash(w)
      PROVE  LeaseOfCurrent'
  <2>1. Moves(w) /\ ~Working(w)'
    <3>1. CASE Start(w)
      BY <1>1, <3>1, GoneTo DEF Start, PCs, Working, AtWork
    <3>2. CASE Interrupt(w)
      BY <1>5, <3>2 DEF Interrupt
    <3>3. CASE Crash(w)
      <4>1. [Resting EXCEPT !.pc = "dead"] \in WorkerRecord
        BY Rested DEF WorkerRecord, PCs
      <4> QED  BY <1>1, <3>3, <4>1 DEF Crash, TypeOK, Moves, Working, AtWork, Resting
    <3> QED  BY <1>7, <3>1, <3>2, <3>3
  <2> QED  BY <1>3, <1>7, <2>1 DEF Start, Interrupt, Crash
<1>8. ASSUME NEW c \in Commands, Plan(c)
      PROVE  LeaseOfCurrent'
  <2>1. \A d \in Commands : LeaseKept(d)
    BY <1>1, <1>8 DEF Plan, ApplyPlanned, LeaseKept, TypeOK, OutboxRow
  <2> QED  BY <1>8, <2>1, LeaseQuiet DEF Plan, SameAttempt, Working
<1> QED  BY <1>4, <1>6, <1>7, <1>8 DEF Next, ExternalEdit, Rebuild, Tick, vars

\* When no two processes share a token, a process that passes the lease check is the
\* executor of the row's last attempt.
THEOREM LeaseCheckSound ==
  ASSUME OwnTokenEach
  PROVE  Spec => LeaseCheckMeansCurrent
<1>1. Init => LeaseOfCurrent
  BY DEF Init, LeaseOfCurrent, Working, AtWork, Resting
<1>2. Inv /\ LeaseOfCurrent /\ [Next]_vars => LeaseOfCurrent'
  BY LeaseStep
<1>3. Inv /\ LeaseOfCurrent /\ [Next]_vars =>
        [\A w \in Workers : worker[w].pc = "decide" /\ worker'[w].pc = "guard"
           => Current(w)]_vars
  <2> SUFFICES ASSUME Inv, LeaseOfCurrent, [Next]_vars, NEW w \in Workers,
                      worker[w].pc = "decide", worker'[w].pc = "guard"
               PROVE  Current(w)
    OBVIOUS
  <2>1. Working(w) /\ TypeOK /\ worker'[w] # worker[w]
    BY DEF Working, AtWork, Inv
  <2>2. CASE CheckLease(w)
    <3>1. LeaseActive(outbox[worker[w].cmd], Token[w])
      BY <2>1, <2>2, Failed DEF CheckLease
    <3> QED  BY <2>1, <3>1 DEF LeaseActive, LeaseOfCurrent
  <2>3. ASSUME Return(w)
        PROVE  FALSE
    BY <2>1, <2>3, Returned DEF Resting
  <2>4. CASE Step(w)
    BY <2>2, <2>3, <2>4 DEF Step, Claim, Observe, Decide, Guard, Write, Verify, Commit,
       Record, SettleNoOp, LeaveAmbiguous, BlockStaleBase
  <2>5. CASE Start(w) \/ Interrupt(w)
    BY <2>3, <2>5 DEF Start, Interrupt
  <2>6. CASE Crash(w)
    BY <2>1, <2>6 DEF Crash, TypeOK, Resting
  <2>7. ASSUME NEW v \in Workers, v # w, Step(v) \/ Start(v) \/ Interrupt(v) \/ Crash(v)
        PROVE  FALSE
    BY <2>1, <2>7, RowsClaimed, StepMoves, DecideMoves
       DEF Step, Commit, Record, Return, Start, Goto, Interrupt, Crash, Moves, TypeOK
  <2>8. CASE worker' = worker
    BY <2>1, <2>8
  <2> QED  BY <2>4, <2>5, <2>6, <2>7, <2>8
              DEF Next, Plan, ExternalEdit, Rebuild, Tick, vars
<1> QED  BY <1>1, <1>2, <1>3, Invariance, PTL DEF Spec, LeaseCheckMeansCurrent
-----------------------------------------------------------------------------
(* What one step does to a process, to an attempt count and to a key: the       *)
(* facts the rest of the theorems share.                                        *)

\* A process that changes has taken a step of its own.
LEMMA OwnStep ==
  ASSUME Inv, [Next]_vars, NEW v \in Workers, worker'[v] # worker[v]
  PROVE  Step(v) \/ Start(v) \/ Interrupt(v) \/ Crash(v)
<1>1. TypeOK
  BY DEF Inv
<1>2. ASSUME NEW w \in Workers, w # v, Step(w) \/ Start(w) \/ Interrupt(w) \/ Crash(w)
      PROVE  FALSE
  BY <1>1, <1>2, RowsClaimed, StepMoves, DecideMoves
     DEF Step, Commit, Record, Return, Start, Goto, Interrupt, Crash, Moves, TypeOK
<1> QED  BY <1>2 DEF Next, Plan, ExternalEdit, Rebuild, Tick, vars

\* A process that does not claim keeps its attempt or is done with it.
LEMMA AttemptKept ==
  ASSUME Inv, [Next]_vars, NEW v \in Workers, Working(v)'
  PROVE  (Working(v) /\ SameAttempt(v)) \/ \E c \in Commands : Claim(v, c)
<1>1. TypeOK
  BY DEF Inv
<1>2. ASSUME worker'[v] = worker[v]
      PROVE  Working(v) /\ SameAttempt(v)
  BY <1>2 DEF Working, SameAttempt
<1>3. ASSUME Return(v)
      PROVE  FALSE
  BY <1>1, <1>3, Returned DEF Working, AtWork, Resting
<1>4. CASE Step(v)
  BY <1>3, <1>4, StepMoves, DecideMoves DEF Step, Commit, Record
<1>5. CASE Start(v) \/ Interrupt(v) \/ Crash(v)
  BY <1>1, <1>3, <1>5, GoneTo
     DEF Start, Interrupt, Crash, Working, PCs, AtWork, Resting, TypeOK
<1> QED  BY <1>2, <1>4, <1>5, OwnStep

\* A claim hands out the next attempt number, with the mode of the row's state.
LEMMA ClaimHandsOut ==
  ASSUME Inv, NEW w \in Workers, NEW c \in Commands, Claim(w, c)
  PROVE  /\ outbox'[c].attempts = outbox[c].attempts + 1
         /\ \A d \in Commands \ {c} : outbox'[d] = outbox[d]
         /\ worker'[w].attempt = outbox[c].attempts + 1 /\ worker'[w].cmd = c
         /\ worker'[w].pc = "observe" /\ worker'[w].mode = ClaimState(outbox[c])
<1>1. outbox[c] \in OutboxRow /\ Token[w] \in Tokens /\ TypeOK
  BY OutboxAssumption DEF Inv, TypeOK
<1>2. ClaimRow(outbox[c], Token[w]).attempts = outbox[c].attempts + 1
  BY <1>1, ClaimedRow DEF Claim, CanClaim
<1>3. outbox'[c].attempts = outbox[c].attempts + 1
  BY <1>1, <1>2 DEF Claim, TypeOK
<1> DEFINE rec == [Resting EXCEPT !.pc = "observe", !.cmd = c,
                                  !.attempt = outbox[c].attempts + 1,
                                  !.mode = ClaimState(outbox[c])]
<1>4. /\ rec.attempt = outbox[c].attempts + 1 /\ rec.cmd = c /\ rec.pc = "observe"
      /\ rec.mode = ClaimState(outbox[c])
  BY DEF Resting
<1>5. worker'[w] = rec
  BY <1>1 DEF Claim, TypeOK
<1> HIDE DEF rec
<1> QED  BY <1>3, <1>4, <1>5, RowsClaimed

\* An attempt event changes no attempt count: the count grew when the attempt was claimed.
LEMMA AttemptCountKept ==
  ASSUME Inv, NEW w \in Workers, Working(w), NEW delay \in BOOLEAN,
         NEW state \in AttemptStates, AppendAttempt(w, state, delay)
  PROVE  \A c \in Commands : outbox'[c].attempts = outbox[c].attempts
<1> DEFINE c == worker[w].cmd
           row == outbox[c]
<1>1. /\ c \in Commands /\ row \in OutboxRow /\ worker[w].attempt \in Nat
      /\ Token[w] \in Tokens /\ worker[w].attempt <= row.attempts /\ row.attempts \in Nat
  BY AtWorkTyped DEF Inv, AttemptsClaimed, OutboxRow
<1>2. /\ \A d \in Commands \ {c} : outbox'[d] = outbox[d]
      /\ outbox'[c] = ApplyAttempted(row, state, worker[w].attempt, Token[w], delay)
  BY AttemptAppended DEF Inv
<1>3. outbox'[c].attempts = row.attempts
  BY <1>1, <1>2, AppliedAttempt DEF AttemptAccepted
<1> QED  BY <1>2, <1>3

\* Attempt counts change in claims only.
LEMMA AttemptCountStep ==
  ASSUME Inv, [Next]_vars
  PROVE  \/ \A c \in Commands : outbox'[c].attempts = outbox[c].attempts
         \/ \E w \in Workers, c \in Commands : Claim(w, c)
<1>1. TypeOK
  BY DEF Inv
<1> DEFINE Kept == \A c \in Commands : outbox'[c].attempts = outbox[c].attempts
<1>2. ASSUME NEW c \in Commands, AppendSettlement(c)
      PROVE  Kept
  <2>1. ApplySettled(outbox[c]).attempts = outbox[c].attempts
    BY <1>1, AppliedSettlement DEF TypeOK
  <2> QED  BY <1>1, <1>2, <2>1, SettlementAppended
<1>3. ASSUME NEW w \in Workers, Step(w), ~\E c \in Commands : Claim(w, c)
      PROVE  Kept
  <2>1. CASE Observe(w) \/ Guard(w) \/ Write(w) \/ Verify(w)
    BY <2>1, StepMoves
  <2>2. CASE Decide(w)
    <3>1. Working(w) /\ worker[w].cmd \in Commands
      BY <1>1, <2>2, AtWorkTyped DEF Decide, Working, AtWork
    <3> QED  BY <1>2, <2>2, <3>1, AttemptCountKept
             DEF Decide, SettleNoOp, LeaveAmbiguous, BlockStaleBase, CheckLease,
                 AttemptStates
  <2>3. CASE Commit(w)
    BY <1>1, <1>2, <2>3, AtWorkTyped DEF Commit, Working, AtWork
  <2>4. CASE Record(w)
    <3>1. /\ worker[w].verdict \in AttemptStates /\ worker[w].delay \in BOOLEAN
      BY <1>1 DEF TypeOK, WorkerRecord, AttemptStates
    <3> QED  BY <2>4, <3>1, AttemptCountKept DEF Record, Working, AtWork
  <2> QED  BY <1>3, <2>1, <2>2, <2>3, <2>4 DEF Step
<1>4. ASSUME NEW c \in Commands, Plan(c)
      PROVE  Kept
  BY <1>1, <1>4 DEF Plan, ApplyPlanned, TypeOK, OutboxRow
<1> QED  BY <1>3, <1>4 DEF Next, Start, Interrupt, Crash, ExternalEdit, Rebuild, Tick, vars

\* Only an executor of the command puts its settlement in the log.
LEMMA SettleKeyStep ==
  ASSUME Inv, [Next]_vars
  PROVE  \/ settleKey' = settleKey
         \/ \E w \in Workers : Working(w) /\ AppendSettlement(worker[w].cmd)
BY DEF Next, Step, Claim, Observe, Decide, SettleNoOp, LeaveAmbiguous, BlockStaleBase,
       CheckLease, AppendAttempt, Guard, Write, Verify, Commit, Record, Start, Interrupt,
       Crash, Plan, ExternalEdit, Rebuild, Tick, vars, Working, AtWork
-----------------------------------------------------------------------------
(* Processes in turn.                                                           *)

LEMMA AllCurrentStep ==
  ASSUME Inv, OneAlive, AllCurrent, [Next]_vars
  PROVE  AllCurrent'
<1> SUFFICES ASSUME NEW v \in Workers, Working(v)'
             PROVE  Current(v)'
  BY DEF AllCurrent
<1>1. ASSUME NEW w \in Workers, NEW c \in Commands, Claim(w, c)
      PROVE  Current(v)'
  <2>1. CASE v = w
    BY <1>1, <2>1, ClaimHandsOut DEF Current
  <2>2. CASE v # w
    <3>1. Alive(w)
      BY <1>1 DEF Claim, Alive
    <3>2. Alive(v)
      BY <1>1, <2>2, RowsClaimed DEF Moves, Working, AtWork, Alive
    <3> QED  BY <2>2, <3>1, <3>2 DEF OneAlive
  <2> QED  BY <2>1, <2>2
<1>2. CASE ~\E w \in Workers, c \in Commands : Claim(w, c)
  <2>1. Working(v) /\ SameAttempt(v) /\ worker[v].cmd \in Commands
    BY <1>2, AttemptKept, AtWorkTyped DEF Inv
  <2>2. outbox'[worker[v].cmd].attempts = outbox[worker[v].cmd].attempts
    BY <1>2, <2>1, AttemptCountStep
  <2> QED  BY <2>1, <2>2 DEF AllCurrent, Current, SameAttempt
<1> QED  BY <1>1, <1>2

LEMMA OneAliveStep ==
  ASSUME ~Overlap, Inv, OneAlive, [Next]_vars
  PROVE  OneAlive'
<1>1. TypeOK
  BY DEF Inv
<1>2. ASSUME NEW v \in Workers, Alive(v)'
      PROVE  Alive(v) \/ Start(v)
  <2>1. CASE worker'[v] = worker[v]
    BY <1>2, <2>1 DEF Alive
  <2>2. CASE Step(v) \/ Interrupt(v) \/ Crash(v)
    BY <2>2 DEF Step, Claim, Observe, Decide, Guard, Write, Verify, Commit, Record,
       Interrupt, Crash, Working, AtWork, Alive
  <2> QED  BY <2>1, <2>2, OwnStep
<1>3. ASSUME NEW v \in Workers, Start(v), NEW w \in Workers, Alive(w)'
      PROVE  w = v
  <2>1. ~Alive(w)
    BY <1>3 DEF Start
  <2> QED  BY <1>1, <1>3, <2>1 DEF Start, Goto, Alive, TypeOK
<1> QED  BY <1>2, <1>3 DEF OneAlive

\* The settlement of the executor of the last attempt is accepted.
LEMMA TerminalStep ==
  ASSUME Inv, AllCurrent, FirstSettlementIsTerminal, [Next]_vars
  PROVE  FirstSettlementIsTerminal'
<1> SUFFICES ASSUME NEW c \in Commands, settleKey'[c]
             PROVE  outbox'[c].settled
  BY DEF FirstSettlementIsTerminal
<1>1. TypeOK
  BY DEF Inv
<1>2. CASE settleKey[c]
  <2>1. outbox[c].settled
    BY <1>2 DEF FirstSettlementIsTerminal
  <2> QED  BY <2>1, RowsStep DEF Advance
<1>3. CASE ~settleKey[c]
  <2>1. PICK w \in Workers : Working(w) /\ AppendSettlement(worker[w].cmd)
    BY <1>3, SettleKeyStep
  <2>2. worker[w].cmd \in Commands /\ worker[w].mode \in {"running", "ambiguous"}
    BY <1>1, <2>1, AtWorkTyped
  <2>3. /\ c = worker[w].cmd
        /\ outbox' = [outbox EXCEPT ![c] = ApplySettled(@)]
    BY <1>1, <1>3, <2>1, <2>2 DEF AppendSettlement, TypeOK
  <2>4. outbox'[c] = ApplySettled(outbox[c]) /\ outbox[c] \in OutboxRow
    BY <1>1, <2>3 DEF TypeOK
  <2>5. CASE outbox[c].settled
    BY <2>5, RowsStep DEF Advance
  <2>6. CASE ~outbox[c].settled
    <3>1. /\ outbox[c].state \in {"running", "ambiguous"} /\ outbox[c].attempts > 0
      BY <2>1, <2>2, <2>3, <2>4, <2>6
         DEF AllCurrent, Inv, HolderRow, AttemptsClaimed, Current
    <3> QED  BY <2>4, <2>6, <3>1 DEF ApplySettled, SettlementAccepted, OutboxRow
  <2> QED  BY <2>5, <2>6
<1> QED  BY <1>2, <1>3

\* When processes run one after the other, the first settlement the log takes for a
\* command settles its row, through every crash, interruption and lost answer.
THEOREM FirstSettlementSettles ==
  ASSUME ~Overlap
  PROVE  Spec => []FirstSettlementIsTerminal
<1>1. Init => InTurnInv
  BY DEF Init, InTurnInv, OneAlive, AllCurrent, FirstSettlementIsTerminal, Alive, Working,
         AtWork, Resting
<1>2. Inv /\ InTurnInv /\ [Next]_vars => InTurnInv'
  BY AllCurrentStep, OneAliveStep, TerminalStep DEF InTurnInv
<1>3. InTurnInv => FirstSettlementIsTerminal
  BY DEF InTurnInv
<1> QED  BY <1>1, <1>2, <1>3, Invariance, PTL DEF Spec
-----------------------------------------------------------------------------
(* Updates land once.                                                           *)

\* A process at a write has compared what it read with the command's hashes.
LEMMA DecidedStep ==
  ASSUME Inv, WritersDecided, [Next]_vars
  PROVE  WritersDecided'
<1> SUFFICES ASSUME NEW v \in Workers, worker'[v].pc \in {"guard", "write"}
             PROVE  worker'[v].mode = "running" /\ worker'[v].before = PlannedSurface
  BY DEF WritersDecided
<1>1. TypeOK
  BY DEF Inv
<1>2. Working(v)'
  BY DEF Working, AtWork
<1>3. CASE worker'[v] = worker[v]
  BY <1>3 DEF WritersDecided
<1>4. ASSUME Return(v)
      PROVE  FALSE
  BY <1>1, <1>2, <1>4, Returned DEF Working, AtWork, Resting
<1>5. ASSUME NEW verdicts \in SUBSET {"retryable", "blocked"}, FaultyAnswer(v, verdicts)
      PROVE  FALSE
  BY <1>1, <1>5, FaultAnswered
<1>6. ASSUME NEW verdict \in {"retryable", "blocked", "fenced"}, Fail(v, verdict, FALSE)
      PROVE  FALSE
  BY <1>1, <1>6, Failed
<1>7. CASE Decide(v)
  <2>1. CheckLease(v)
    BY <1>4, <1>7 DEF Decide, SettleNoOp, LeaveAmbiguous, BlockStaleBase
  <2>2. Goto(v, "guard")
    BY <1>6, <2>1 DEF CheckLease
  <2>3. SameAttempt(v) /\ worker'[v].before = worker[v].before
    BY <1>1, <2>2, GoneTo DEF PCs, AtWork
  <2>4. worker[v].before \in Surface
    BY <1>1 DEF TypeOK, WorkerRecord
  <2>5. worker[v].before = PlannedSurface
    BY <2>1, <2>4 DEF CheckLease, Surface, PlannedSurface
  <2> QED  BY <2>1, <2>3, <2>5 DEF CheckLease, SameAttempt
<1>8. CASE Guard(v)
  <2>1. Goto(v, "write") /\ worker[v].pc = "guard"
    BY <1>5, <1>6, <1>8 DEF Guard
  <2>2. SameAttempt(v) /\ worker'[v].before = worker[v].before
    BY <1>1, <2>1, GoneTo DEF PCs, AtWork
  <2> QED  BY <2>1, <2>2 DEF WritersDecided, SameAttempt
<1>9. CASE Observe(v)
  <2>1. worker'[v].pc = "decide"
    BY <1>1, <1>5, <1>9 DEF Observe, TypeOK, WorkerRecord
  <2> QED  BY <2>1
<1>10. CASE Write(v)
  <2>1. \E pc \in {"commit", "verify"} : Goto(v, pc)
    BY <1>5, <1>10 DEF Write
  <2> QED  BY <1>1, <2>1, GoneTo DEF PCs, AtWork
<1>11. CASE Verify(v)
  <2>1. Goto(v, "commit")
    BY <1>5, <1>6, <1>11 DEF Verify
  <2> QED  BY <1>1, <2>1, GoneTo DEF PCs, AtWork
<1>12. CASE Step(v)
  BY <1>4, <1>7, <1>8, <1>9, <1>10, <1>11, <1>12, ClaimHandsOut
     DEF Step, Commit, Record
<1>13. CASE Start(v) \/ Interrupt(v) \/ Crash(v)
  BY <1>1, <1>4, <1>13, GoneTo DEF Start, Interrupt, Crash, PCs, AtWork, Resting, TypeOK
<1> QED  BY <1>3, <1>12, <1>13, OwnStep

\* A step after which nothing has been disturbed: no edit, and no tick that expires the
\* lease of a process at work.
LEMMA UndisturbedStep ==
  ASSUME Inv, [Next]_vars, Undisturbed'
  PROVE  /\ Undisturbed
         /\ \A c \in Commands : ~ExternalEdit(c)
         /\ Tick => ~(age + 1 = LeaseDuration /\ HolderStalls)
<1>1. /\ budget \in [{"errors", "crashes", "stalls", "edits", "appends"} -> Nat]
      /\ budget.stalls \in Nat /\ budget.edits \in Nat
  BY DEF Inv, TypeOK
<1>2. ASSUME NEW what \in {"errors", "crashes", "stalls", "edits", "appends"},
             NEW limit, Spend(what, limit)
      PROVE  Undisturbed /\ what \notin {"stalls", "edits"}
  <2>1. budget' = [budget EXCEPT ![what] = budget[what] + 1] /\ budget[what] \in Nat
    BY <1>1, <1>2 DEF Spend
  <2>2. budget'[what] = budget[what] + 1
    BY <1>1, <2>1
  <2>3. what \notin {"stalls", "edits"}
    BY <2>1, <2>2 DEF Undisturbed
  <2>4. budget'.stalls = budget.stalls /\ budget'.edits = budget.edits
    BY <1>1, <2>1, <2>3
  <2> QED  BY <2>3, <2>4 DEF Undisturbed
<1>3. ASSUME budget' = budget
      PROVE  Undisturbed
  BY <1>3 DEF Undisturbed
<1>4. \A c \in Commands : ~ExternalEdit(c)
  BY <1>2 DEF ExternalEdit
<1>5. Tick => ~(age + 1 = LeaseDuration /\ HolderStalls)
  BY <1>2 DEF Tick
<1>6. ASSUME NEW w \in Workers, NEW verdicts, FaultyAnswer(w, verdicts)
      PROVE  Undisturbed
  BY <1>2, <1>6 DEF FaultyAnswer
<1>7. Undisturbed
  <2>1. ASSUME NEW w \in Workers, Step(w)
        PROVE  Undisturbed
    BY <1>3, <1>6, <2>1
       DEF Step, Claim, Observe, Decide, Guard, Write, Verify, Commit, Record
  <2>2. ASSUME NEW w \in Workers, Start(w) \/ Interrupt(w) \/ Crash(w)
        PROVE  Undisturbed
    BY <1>2, <1>3, <2>2 DEF Start, Interrupt, Crash
  <2>3. CASE Tick \/ Rebuild
    BY <1>2, <1>3, <2>3 DEF Tick, Rebuild
  <2>4. ASSUME NEW c \in Commands, Plan(c)
        PROVE  Undisturbed
    BY <1>3, <2>4 DEF Plan
  <2> QED  BY <1>3, <1>4, <2>1, <2>2, <2>3, <2>4 DEF Next, vars
<1> QED  BY <1>4, <1>5, <1>7

\* The clock starts again with every change to a row and every claim.
LEMMA AgeStep ==
  ASSUME Inv, [Next]_vars
  PROVE  \/ age' = 0
         \/ Tick
         \/ age' = age /\ outbox' = outbox /\ ~\E w \in Workers, c \in Commands : Claim(w, c)
<1>1. ASSUME NEW w \in Workers, worker'[w] = worker[w], NEW c \in Commands, Claim(w, c)
      PROVE  FALSE
  BY <1>1, ClaimHandsOut DEF Claim
<1>2. ASSUME NEW w \in Workers, NEW c \in Commands, Claim(w, c)
      PROVE  age' = 0
  BY <1>2 DEF Claim, Rebuilt
<1>3. ASSUME NEW w \in Workers, Step(w), ~\E c \in Commands : Claim(w, c)
      PROVE  age' = 0 \/ (age' = age /\ outbox' = outbox)
  BY <1>3 DEF Step, Observe, Decide, SettleNoOp, LeaveAmbiguous, BlockStaleBase, CheckLease,
     AppendAttempt, AppendSettlement, Rebuilt, Guard, Write, Verify, Commit, Record
<1> QED  BY <1>2, <1>3 DEF Next, Start, Interrupt, Crash, Plan, ExternalEdit, Rebuild,
            Rebuilt, vars

LEMMA HoldersFreshStep ==
  ASSUME Inv, [Next]_vars, Undisturbed', HoldersFresh
  PROVE  HoldersFresh'
<1>1. age \in Nat /\ LeaseDuration \in Nat \ {0}
  BY OutboxAssumption, AgeCapNat DEF Inv, TypeOK
<1>2. CASE age' = 0
  BY <1>1, <1>2 DEF HoldersFresh, Expired
<1>3. CASE Tick
  <2>1. HolderStalls' => HolderStalls
    BY <1>3 DEF Tick, HolderStalls, Working, Current
  <2>2. ~(age + 1 = LeaseDuration /\ HolderStalls) /\ age' = age + 1
    BY <1>3, UndisturbedStep DEF Tick
  <2> QED  BY <1>1, <2>1, <2>2 DEF HoldersFresh, Expired
<1>4. CASE /\ age' = age /\ outbox' = outbox
           /\ ~\E w \in Workers, c \in Commands : Claim(w, c)
  <2>1. HolderStalls' => HolderStalls
    BY <1>4, AttemptKept DEF HolderStalls, SameAttempt, Current
  <2> QED  BY <1>4, <2>1 DEF HoldersFresh, Expired
<1> QED  BY <1>2, <1>3, <1>4, AgeStep

\* A row in the hands of a running attempt is settled, or running under a fresh lease:
\* nobody else can claim it.
LEMMA RunningCurrentStep ==
  ASSUME Inv, [Next]_vars, HoldersFresh, RunningCurrent
  PROVE  RunningCurrent'
<1> SUFFICES ASSUME NEW v \in Workers, Working(v)', worker'[v].mode = "running"
             PROVE  Current(v)'
  BY DEF RunningCurrent
<1>1. ASSUME NEW w \in Workers, NEW c \in Commands, Claim(w, c)
      PROVE  Current(v)'
  <2>1. CASE v = w
    BY <1>1, <2>1, ClaimHandsOut DEF Current
  <2>2. CASE v # w
    <3>1. worker'[v] = worker[v] /\ Working(v)
      BY <1>1, <2>2, RowsClaimed DEF Moves, Working
    <3>2. worker[v].cmd \in Commands /\ Current(v)
      BY <3>1, AtWorkTyped DEF Inv, RunningCurrent
    <3>3. CASE worker[v].cmd # c
      BY <1>1, <3>1, <3>2, <3>3, ClaimHandsOut DEF Current
    <3>4. CASE worker[v].cmd = c
      <4>1. ~outbox[c].settled
        BY <1>1 DEF Claim, CanClaim, Claimable
      <4>2. outbox[c].state = "running"
        BY <3>1, <3>2, <3>4, <4>1 DEF Inv, HolderRow
      <4>3. ~Expired
        BY <3>1, <3>2, <3>4, <4>2 DEF HoldersFresh, HolderStalls
      <4> QED  BY <1>1, <4>2, <4>3 DEF Claim, CanClaim, Claimable
    <3> QED  BY <3>3, <3>4
  <2> QED  BY <2>1, <2>2
<1>2. CASE ~\E w \in Workers, c \in Commands : Claim(w, c)
  <2>1. Working(v) /\ SameAttempt(v) /\ worker[v].cmd \in Commands
    BY <1>2, AttemptKept, AtWorkTyped DEF Inv
  <2>2. outbox'[worker[v].cmd].attempts = outbox[worker[v].cmd].attempts
    BY <1>2, <2>1, AttemptCountStep
  <2> QED  BY <2>1, <2>2 DEF RunningCurrent, Current, SameAttempt
<1> QED  BY <1>1, <1>2

\* A written surface is not a planned one, and writing it again leaves it as it is.
LEMMA WrittenSurface ==
  ASSUME NEW kind \in CommandKinds \ {"create"}
  PROVE  /\ Written(kind, PlannedSurface) # PlannedSurface
         /\ Written(kind, Written(kind, PlannedSurface)) = Written(kind, PlannedSurface)
BY DEF CommandKinds, Written, PlannedSurface

\* The surface and the count of a command change together, when its write lands.
LEMMA LandStep ==
  ASSUME Inv, [Next]_vars, \A c \in Commands : ~ExternalEdit(c)
  PROVE  \/ UNCHANGED <<remote, landed>>
         \/ \E w \in Workers :
              /\ Write(w) /\ worker[w].cmd \in Commands /\ worker'[w].pc # "write"
              /\ remote' = [remote EXCEPT ![worker[w].cmd] = Written(Kind[worker[w].cmd], @)]
              /\ landed' = [landed EXCEPT ![worker[w].cmd] = @ + 1]
<1>1. TypeOK
  BY DEF Inv
<1>2. ASSUME NEW w \in Workers, Write(w), ~UNCHANGED <<remote, landed>>
      PROVE  /\ worker[w].cmd \in Commands /\ worker'[w].pc # "write"
             /\ Land(worker[w].cmd)
  <2>1. worker[w].cmd \in Commands
    BY <1>1, <1>2, AtWorkTyped DEF Write, Working, AtWork
  <2>2. \/ FaultyAnswer(w, {"retryable", "blocked"})
        \/ \E pc \in {"commit", "verify"} : Goto(w, pc)
    BY <1>2 DEF Write
  <2>3. worker'[w].pc # "write"
    BY <1>1, <2>2, GoneTo, FaultAnswered DEF PCs, AtWork
  <2> QED  BY <1>2, <2>1, <2>3 DEF Write
<1> QED  BY <1>2 DEF Next, Step, Claim, Observe, Decide, Guard, Verify, Commit, Record,
            Start, Interrupt, Crash, Plan, Rebuild, Tick, vars, Land

\* What a step makes of the surfaces, when whoever is about to write does so for the
\* first time.
LEMMA SurfaceStep ==
  ASSUME Inv, WritersDecided, SurfaceTracked, WritersFirst, UpdateLandsOnce, Undisturbed,
         [Next]_vars, Undisturbed'
  PROVE  SurfaceTracked' /\ UpdateLandsOnce'
<1>1. TypeOK /\ \A c \in Commands : ~ExternalEdit(c)
  BY UndisturbedStep DEF Inv
<1>2. CASE UNCHANGED <<remote, landed>>
  BY <1>2 DEF SurfaceTracked, UpdateLandsOnce, Undisturbed
<1>3. ASSUME NEW w \in Workers, Write(w), NEW c \in Commands, c = worker[w].cmd,
             remote' = [remote EXCEPT ![c] = Written(Kind[c], @)],
             landed' = [landed EXCEPT ![c] = @ + 1]
      PROVE  SurfaceTracked' /\ UpdateLandsOnce'
  <2>1. \A d \in Commands \ {c} : remote'[d] = remote[d] /\ landed'[d] = landed[d]
    BY <1>1, <1>3 DEF TypeOK
  <2>2. remote'[c] = Written(Kind[c], remote[c]) /\ landed'[c] = landed[c] + 1
    BY <1>1, <1>3 DEF TypeOK
  <2>3. ASSUME Kind[c] # "create"
        PROVE  landed[c] = 0 /\ remote[c] = PlannedSurface
    BY <1>3, <2>3 DEF Write, WritersDecided, WritersFirst, SurfaceTracked
  <2> QED  BY <2>1, <2>2, <2>3 DEF SurfaceTracked, UpdateLandsOnce, Undisturbed
<1> QED  BY <1>1, <1>2, <1>3, LandStep

\* Whoever reads a planned surface reads one that nothing has been written to, and stays
\* the only one who may write it.
LEMMA WritersFirstStep ==
  ASSUME Inv, WritersDecided, RunningCurrent, SurfaceTracked, WritersFirst,
         [Next]_vars, Undisturbed'
  PROVE  WritersFirst'
<1> SUFFICES ASSUME NEW v \in Workers,
                    worker'[v].pc \in {"decide", "guard", "write"},
                    worker'[v].mode = "running", worker'[v].before = PlannedSurface,
                    Kind[worker'[v].cmd] # "create"
             PROVE  landed'[worker'[v].cmd] = 0
  BY DEF WritersFirst
<1>1. TypeOK /\ Working(v)' /\ \A c \in Commands : ~ExternalEdit(c)
  BY UndisturbedStep DEF Inv, Working, AtWork
<1>2. ~\E c \in Commands : Claim(v, c)
  BY ClaimHandsOut
<1>3. Working(v) /\ SameAttempt(v) /\ worker[v].cmd \in Commands
  BY <1>1, <1>2, AttemptKept, AtWorkTyped
<1> DEFINE c == worker[v].cmd
<1>4. landed[c] = 0
  <2>1. CASE worker'[v] = worker[v]
    BY <2>1 DEF WritersFirst
  <2>2. ASSUME NEW verdicts \in SUBSET {"retryable", "blocked"}, FaultyAnswer(v, verdicts)
        PROVE  FALSE
    BY <1>1, <2>2, FaultAnswered
  <2>3. CASE Observe(v)
    <3>1. worker'[v].before = remote[c]
      BY <1>1, <2>2, <2>3 DEF Observe, TypeOK, WorkerRecord
    <3>2. Kind[c] \in CommandKinds \ {"create"}
      BY <1>3, OutboxAssumption DEF SameAttempt
    <3> QED  BY <1>3, <3>1, <3>2, WrittenSurface DEF SurfaceTracked
  <2>4. CASE Decide(v)
    <3>1. worker'[v].before = worker[v].before
      BY <1>1, <2>4, DecideMoves
    <3> QED  BY <1>3, <2>4, <3>1 DEF Decide, WritersFirst, SameAttempt
  <2>5. CASE Guard(v)
    <3>1. worker[v].before = PlannedSurface /\ worker[v].mode = "running"
      BY <2>5 DEF Guard, WritersDecided
    <3> QED  BY <1>3, <2>5, <3>1 DEF Guard, WritersFirst, SameAttempt
  <2>6. CASE Write(v) \/ Verify(v)
    <3>1. \E pc \in {"commit", "verify"}, verdict \in {"retryable"} :
             Goto(v, pc) \/ Fail(v, verdict, FALSE)
      BY <2>2, <2>6 DEF Write, Verify
    <3> QED  BY <1>1, <3>1, GoneTo, Failed DEF PCs, AtWork
  <2>7. ASSUME Return(v)
        PROVE  FALSE
    BY <1>1, <2>7, Returned DEF Working, AtWork, Resting
  <2>8. CASE Step(v)
    BY <1>2, <2>3, <2>4, <2>5, <2>6, <2>7, <2>8 DEF Step, Commit, Record
  <2>9. CASE Start(v) \/ Interrupt(v) \/ Crash(v)
    BY <1>1, <2>7, <2>9, GoneTo
       DEF Start, Interrupt, Crash, Working, PCs, AtWork, Resting, TypeOK
  <2> QED  BY <2>1, <2>8, <2>9, OwnStep
<1>5. landed'[c] = landed[c]
  <2>1. ASSUME NEW w \in Workers, Write(w), worker[w].cmd = c, worker'[w].pc # "write"
        PROVE  FALSE
    <3>1. Working(w) /\ worker[w].mode = "running"
      BY <2>1 DEF Write, Working, AtWork, WritersDecided
    <3>2. Current(w) /\ Current(v)
      BY <1>3, <3>1 DEF RunningCurrent, SameAttempt
    <3>3. v = w
      BY <1>3, <2>1, <3>1, <3>2 DEF Inv, OneExecutorPerAttempt, Current
    <3>4. \E pc \in {"commit", "verify"} : Goto(v, pc)
             \/ FaultyAnswer(v, {"retryable", "blocked"})
      BY <2>1, <3>3 DEF Write
    <3> QED  BY <1>1, <3>4, GoneTo, FaultAnswered DEF PCs, AtWork
  <2>2. CASE UNCHANGED <<remote, landed>>
    BY <2>2
  <2>3. ASSUME NEW w \in Workers, Write(w), worker'[w].pc # "write",
               worker[w].cmd \in Commands,
               landed' = [landed EXCEPT ![worker[w].cmd] = @ + 1]
        PROVE  landed'[c] = landed[c]
    BY <1>1, <1>3, <2>1, <2>3 DEF TypeOK
  <2> QED  BY <1>1, <2>2, <2>3, LandStep
<1> QED  BY <1>3, <1>4, <1>5 DEF SameAttempt

LEMMA LandsOnceStep ==
  ASSUME Inv, LandsOnceInv, [Next]_vars
  PROVE  LandsOnceInv'
<1>1. WritersDecided'
  BY DecidedStep DEF LandsOnceInv
<1>2. ASSUME Undisturbed'
      PROVE  /\ HoldersFresh' /\ RunningCurrent' /\ SurfaceTracked'
             /\ WritersFirst' /\ UpdateLandsOnce'
  <2>1. Undisturbed
    BY <1>2, UndisturbedStep
  <2>2. /\ WritersDecided /\ HoldersFresh /\ RunningCurrent /\ SurfaceTracked
        /\ WritersFirst /\ UpdateLandsOnce
    BY <2>1 DEF LandsOnceInv
  <2> QED  BY <1>2, <2>1, <2>2, HoldersFreshStep, RunningCurrentStep, SurfaceStep,
              WritersFirstStep
<1> QED  BY <1>1, <1>2 DEF LandsOnceInv

\* As long as no process outlives its lease and nobody else edits, a patch, a surface
\* write, a Trash or a Restore reaches Notion at most once, however many processes share
\* the outbox and whatever calls fail, answers are lost and processes crash.
THEOREM UpdatesLandOnce == Spec => []UpdateLandsOnce
<1>1. Init => LandsOnceInv
  <2> SUFFICES ASSUME Init
               PROVE  LandsOnceInv
    OBVIOUS
  <2>1. \A w \in Workers : ~Working(w) /\ worker[w].pc = "down"
    BY DEF Init, Working, AtWork, Resting
  <2>2. \A c \in Commands : landed[c] = 0 /\ remote[c] = PlannedSurface
    BY DEF Init
  <2> QED  BY <2>1, <2>2 DEF LandsOnceInv, WritersDecided, HoldersFresh, HolderStalls,
              RunningCurrent, SurfaceTracked, WritersFirst, UpdateLandsOnce
<1>2. Inv /\ LandsOnceInv /\ [Next]_vars => LandsOnceInv'
  BY LandsOnceStep
<1>3. LandsOnceInv => UpdateLandsOnce
  BY DEF LandsOnceInv, UpdateLandsOnce
<1> QED  BY <1>1, <1>2, <1>3, Invariance, PTL DEF Spec
=============================================================================
