-------------------------- MODULE OutboxProjection --------------------------
(***************************************************************************)
(* One row of the _nds_outbox projection and what each event of the sync  *)
(* log does to it (store.ts, #applyEvent).  The projection is a fold of    *)
(* these operators over the log; a row keeps no time of its own, because   *)
(* every inserted event replays the whole log and stamps every row with    *)
(* the time of that replay (see Outbox.tla, variable age).                 *)
(***************************************************************************)
EXTENDS Naturals

CONSTANTS Tokens,     \* the lease tokens processes claim with
          NoToken     \* lease_token IS NULL

ASSUME TokenAssumption == NoToken \notin Tokens

\* The states of a row.  "absent" is a command with no RemoteWritePlanned event.
OutboxStates == {"absent", "queued", "running", "retryable", "blocked",
                 "settled", "fenced", "ambiguous"}

\* The states an attempt event can carry (RemoteWriteAttempted.attemptState).
AttemptStates == {"running", "retryable", "blocked", "fenced", "ambiguous"}

\* delay: a Retry-After came with the retryable state; settled: settlement_event_id
\* is not NULL.
OutboxRow == [state : OutboxStates, attempts : Nat, lease : Tokens \cup {NoToken},
              delay : BOOLEAN, settled : BOOLEAN]

AbsentRow == [state |-> "absent", attempts |-> 0, lease |-> NoToken,
              delay |-> FALSE, settled |-> FALSE]

\* RemoteWritePlanned: INSERT ... ON CONFLICT(root_id, command_id) DO NOTHING.
ApplyPlanned(row) ==
  IF row.state = "absent" THEN [row EXCEPT !.state = "queued"] ELSE row

\* Mutants of AttemptAccepted: the attempt number is not compared; settled rows and
\* foreign tokens are let in.
AcceptOlderAttempt(row, attempt, token) ==
  /\ row.state # "absent"
  /\ ~row.settled
  /\ attempt = row.attempts => row.lease \in {NoToken, token}

\* RemoteWriteAttempted: dropped once the row is settled, when the attempt is older
\* than the row's, or when it is the row's own attempt under another token.
AttemptAccepted(row, attempt, token) ==
  /\ row.state # "absent"
  /\ ~row.settled
  /\ attempt >= row.attempts
  /\ attempt = row.attempts => row.lease \in {NoToken, token}

ApplyAttempted(row, state, attempt, token, delay) ==
  IF AttemptAccepted(row, attempt, token)
  THEN [state |-> state, attempts |-> attempt, lease |-> token,
        delay |-> delay /\ state = "retryable", settled |-> FALSE]
  ELSE row

\* Mutant of SettlementAccepted: only a running row takes a settlement.
AcceptWhenRunning(row) == ~row.settled /\ row.attempts > 0 /\ row.state = "running"

\* RemoteWriteSettled: only a row under attempt takes a settlement.  The hash and
\* command-tag comparisons of the code always hold for the executor's settlements
\* (it settles with the claimed desired hash), so they are left out.
SettlementAccepted(row) ==
  /\ ~row.settled
  /\ row.attempts > 0
  /\ row.state \in {"running", "ambiguous"}

ApplySettled(row) ==
  IF SettlementAccepted(row)
  THEN [row EXCEPT !.state = "settled", !.lease = NoToken, !.settled = TRUE]
  ELSE row

\* Mutants of Claimable: running rows without regard to their lease; never; blocked
\* rows as well.
ClaimLeased(row, expired, due) ==
  /\ ~row.settled
  /\ \/ row.state \in {"queued", "ambiguous", "running"}
     \/ row.state = "retryable" /\ (row.delay => due)

ClaimNeverRunning(row, expired, due) ==
  /\ ~row.settled
  /\ \/ row.state \in {"queued", "ambiguous"}
     \/ row.state = "retryable" /\ (row.delay => due)

ClaimBlocked(row, expired, due) ==
  /\ ~row.settled
  /\ \/ row.state \in {"queued", "ambiguous", "blocked"}
     \/ row.state = "retryable" /\ (row.delay => due)
     \/ row.state = "running" /\ expired

\* claimNextOutboxCommand, the WHERE clause.  expired: now - updated_at has reached
\* the lease duration; due: now has reached retry_after_at.
Claimable(row, expired, due) ==
  /\ ~row.settled
  /\ \/ row.state \in {"queued", "ambiguous"}
     \/ row.state = "retryable" /\ (row.delay => due)
     \/ row.state = "running" /\ expired

\* Mutant of ClaimState: the attempt carries the state the row had.
ClaimKeepsState(row) == row.state

\* claimNextOutboxCommand: reclaiming an expired running command is ambiguous.
ClaimState(row) == IF row.state = "running" THEN "ambiguous" ELSE "running"

\* Mutant of ClaimRow: the attempt is not counted.
ClaimUncounted(row, token) ==
  ApplyAttempted(row, ClaimState(row), row.attempts, token, FALSE)

ClaimRow(row, token) ==
  ApplyAttempted(row, ClaimState(row), row.attempts + 1, token, FALSE)

\* Mutant of LeaseActive: any token will do.
LeaseOfAnyone(row, token) == row.state = "running" /\ ~row.settled

\* isOutboxLeaseActive: the fence the executor reads just before it writes.  It
\* compares the token, not the attempt.
LeaseActive(row, token) ==
  /\ row.state = "running"
  /\ row.lease = token
  /\ ~row.settled
=============================================================================
