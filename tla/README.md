# effect-notion in TLA+

A verification development kept beside the repository: TLA+ modules for the parts of the system
whose correctness depends on interleavings, crashes, lost answers and retries; TLC configurations
that check them on small instances; and TLAPS proofs of the results that matter most, for every
instance.

- [1. The system](#1-the-system): the inventory
- [2. The modules and the code](#2-the-modules-and-the-code)
- [3. The runs](#3-the-runs): what each shows, bounds, fairness
- [4. Where code and documents disagree](#4-where-code-and-documents-disagree)
- [5. The proofs](#5-the-proofs)
- [6. Checked only, abstracted, not modelled](#6-checked-only-abstracted-not-modelled)
- [7. Plan](#7-plan)

Paths like `store.ts:672` are under `packages/@overeng/notion-datasource-sync/src/` unless they say
otherwise (`store/store.ts`, `sync/executor.ts`, `sync/sync.ts`, `sync/observation.ts`,
`daemon/watch.ts`, `gateway/notion.ts`), or under `packages/@overeng/megarepo/src/`
(`composition/root/composition-root-publisher.ts`, `composition/apply/workspace-update-lock.ts`,
`composition/apply/composition-apply.ts`, `composition/overlays/dist-overlay-lifecycle.ts`,
`composition/mounts/member-mount-cp-a.ts`,
`store/store-deletion-lease.ts`).

## 1. The system

The repository is a collection of Effect packages. Most are libraries of pure functions, schemas,
renderers or command lines. Two carry protocols of their own. `@overeng/notion-datasource-sync` keeps
a local SQLite store and a Notion data source in step, in both directions, while people edit both,
processes crash and answers get lost. `@overeng/megarepo` composes a Buck2 workspace out of member
repositories: several processes share one directory, each step is a change of the file system, and
each process may die between two of them. `PROJECT.json` lists every package; the inventory here is of
these two systems, and of the smaller concurrent parts elsewhere.

| Component | State | Operations | Hard behaviour | What makes it correct |
|---|---|---|---|---|
| Event log and projection (`store/store.ts`) | `_nds_sync_event`, unique per idempotency key; tables that are a fold of it | append (replays the whole log in its transaction), rebuild | several processes append; a key that returns inserts nothing; a replay restamps times | the projection means what was observed; replay changes no decision |
| Outbox (`store/store.ts`, claim, attempt, settlement) | `_nds_outbox`: state, attempt number, lease token, retry time | claim, record attempt, settle, check lease | leases run out while the holder is between two awaits; late records and settlements | one executor per attempt; old records change nothing; settled is final |
| Outbox executor (`sync/executor.ts`, `gateway/notion.ts` writes) | locals of `executeOutboxOnce` | observe, decide, guard, write, verify, settle or record | a write lands and its answer is lost; crash between write and settlement | settled only if the effect was on the remote; an update lands once; every command concludes |
| Watch daemon (`daemon/watch.ts`) | state file (cycle numbers, repair mark), claimed signal, pending wake | start mark, claim, fast push, sync, settle or release, report, finish, sleep | a wake between the last look and the sleep; failures between two writes; two daemons | no signal lost or processed without a sync; failed cycles back off |
| Signal inbox (`store/store.ts`) | `_nds_signal_inbox` | enqueue, claim, settle, release | redelivery; claims taken over after their lease | a processed signal stays so; only the holder settles |
| Webhook receiver (`webhook/receiver.ts`) | none of its own | verify, enqueue, wake | enqueue and wake are two steps | every announced signal is processed |
| Pull (`sync/sync.ts`, `sync/observation.ts`) | query cursor, high watermark, events to append | scan, append, divergence check, classify absent pages, checkpoint | pages change between two responses; crash between two appends; early end of a scan | absence and tombstones only for pages that were away; checkpoints vouch for what is recorded |
| Lifecycle conflicts (`store/store.ts`, `planner/conflict-commands.ts`) | `_nds_conflict`, frozen `in_trash` | raise, keep-remote, keep-local, settle | the conflict must precede the row it freezes | `in_trash` never silently leaves the settled target |
| Planner and guards, replica CDC, bodies, local workspace | projections, replica tables, files | plan commands, capture edits, materialise files | sequential per process | planned work of section 7 |
| Composition root publisher (`composition-root-publisher.ts`) | lock file, journal record, committed marker, candidates and backups per lock token, the generated files | publish, tear down, recover by token, roll back | death between any two of a dozen file-system steps, torn writes, files replaced by hand, a race for the lock | the root changes atomically; what a death leaves is recoverable; `.buckconfig` last |
| Workspace update lock (`workspace-update-lock.ts`) | lock path, one owner file per acquisition | acquire, release, recover a dead owner's | unlinks by path some time after the look; two recoveries | one living updater; no unlink hits another's lock |
| Store deletion lease (`store-deletion-lease.ts`) | lease path, recovery lock, staging files | acquire (with recovery), release | a lease judged dead and removed by two at once; deaths in a recovery | a living holder keeps its lease |
| Dist overlays (`dist-overlay-lifecycle.ts`) | the directory in the mount, its stage, the journal, the overlay the mount's metadata records | publish, update, remove (with rollback), recover | death between copy, chmods, exchange, metadata and removal; directories replaced by hand | metadata and mount agree when the journal is gone; the recorded overlay is always whole somewhere; what a death leaves is recoverable |
| Member mounts (`member-mount-cp-a.ts`) | the mount under `repos/`, its stage, the transaction file, the owned metadata | materialize (first publication, conversion of a symlink, advance), recover, tear down | death between transaction, candidate, its record, copy, chmods, move, metadata and deletion; a recovery interrupted in turn; roots that must be writable to be moved (Darwin) | a recovery knows what to do about what a death leaves; without a transaction the mount is the one the metadata describe; readers see whole trees only |
| `megarepo` worktrees | claim file, git worktree | acquire, release | git processes | not modelled |
| `effect-distributed-lock` with the file-system backing of `utils` | permits with TTL | acquire, refresh, release | expiry, takeover, count of live permits | nothing it promises: see section 6 |
| `restate-effect` `Scheduled` | durable object: generation, next run | schedule, tick, cancel | duplicated and late ticks | one chain of ticks per generation |

How they interact. The planner turns local edits into `RemoteWritePlanned` events, which the
projection makes queued outbox rows. A one-shot sync or a daemon cycle pulls, then drains the
outbox; any number of such processes may run on one store. A webhook delivery enqueues a signal and
wakes the daemon of its process; a cycle claims one signal, runs a pass and settles or releases it.
All of them meet in one SQLite file, where each transaction is atomic, and in Notion, where nothing
is.

`megarepo`'s `compositionApply` takes the workspace update lock, acquires a worktree per member (under
its deletion lease, which `store gc` respects), mounts the members, and publishes overlays and the
root. The publisher has a lock of its own as well, whose recovery is asked for by token; those
recoveries run under the update lock.

## 2. The modules and the code

| Module | Models | State | Actions |
|---|---|---|---|
| `OutboxProjection` | one `_nds_outbox` row and what each event does to it (`#applyEvent`), the claim's WHERE clause, the lease check | none (operators) | none |
| `Outbox` | executors over the projection, time, the remote | `outbox`, `settleKey`, `age`, `worker`, `remote`, histories `landed`, `shown`, `budget` | `Plan`, `Claim`, `Observe`, `Decide`, `Guard`, `Write`, `Verify`, `Commit`, `Record`, `Start`, `Interrupt`, `Crash`, `Rebuild`, `Tick`, `ExternalEdit` |
| `CommandLifecycle` | the abstract promise: absent, pending, then settled (only once shown) or blocked, for good | `phase`, `shown` | `Accept`, `Block`, `Settle`, `Show` |
| `OutboxProofs` | theorems about `Outbox` | | |
| `WatchDaemon` | daemon loop and cycle, signal inbox, wake notifier, state file | `inbox`, `file`, `daemon`, `receiver`, `localWork`, history `synced`, `budget` | one per await of a cycle (`Begin` ... `Finish`), `Rest`, `Timer`, `Deliver`, `Wake`, `Start`, `Crash`, `Abort`, `LocalEdit`, `Tick` |
| `WatchDaemonProofs` | theorems about `WatchDaemon` | | |
| `Observation` | one data source: pull, log keys, projection of rows, shadows, tombstones, absences, lifecycle conflicts, checkpoint | `remote`, `recorded`, `db`, `landed`, `pull`, history `places`, `budget` | `Begin`, `QueryPage`, `RaiseDivergence`, `AppendNext`, `Classify`, `Verify`, `Complete`, `Interrupt`, `Edit`, `Move`, `Push`, `Settle`, `KeepRemote`, `KeepLocal` |
| `ObservationProofs` | theorems about `Observation` | | |
| `CompositionPublisher` | publication, teardown and recovery of a composition root, as steps of the file system | `live`, `cand`, `backup`, `recCand`, `pending`, `committed`, `lock`; per publisher `pc`, `tok`, `job`, `rcv`, `tx`, `todo` | one per change of the file system: 31 steps from `Start` and `Acquire` to `Release`; `Throws`, `Dies`, `Edit` |
| `CompositionRoot` | the abstract promise: whole generations, published in one step | `content` | `Publish`, `Retract`, `Edit` |
| `CompositionPublisherProofs` | theorems about `CompositionPublisher` | | |
| `WorkspaceUpdateLock` | the workspace update lock | `updateLock`, `ownerFiles`, `step`, `target`, `down` | `CreateOwner` ... `Disown`, `ReadOwner` ... `UnlinkStale`, `Die` |
| `DeletionLease` | the store deletion lease | `lease`, `recoverLock`, `staging`, `alive`, `at`, `won`, `existing` | `WriteStaging` ... `RemoveLease`, `Exit` |
| `DistOverlay` | publication, update, removal and recovery of one dist overlay, as steps of the file system | `destination`, `stage`, `parentOpen`, `metadata`, `journal`, `made`; of the call at work `phase`, `tx`, `undoing`, `moved` | `Request`, `WriteIntent`, `MakeStage`, `IdentifyStage`, `Copy`, `Protect`, `Check`; the move `OpenRoots` ... `CloseRoots`; `Verify`, `Record`, `InspectOld`, `Retire`, `Discard`, `Finish`; `RecoverOverlay`; `Ends`, `Meddle` |
| `MemberMount` | publication, advance, recovery and teardown of one member mount, as steps of the file system | `mount`, `staged`, `recorded`, `intent`, `inodes`; of the call at work `point`, `plan`, `rest`, `recovering` | `PlanMount`, `WriteTransaction`, `MakeCandidate`, `RecordCandidate`, `Materialize`; the move `CheckVacant`, `OpenRoot`, `MoveMount`, `CloseRoot`, `VerifyMove`; `WriteMetadata`, `DeleteOld`, `DiscardCandidate`, `RemoveTransaction`; recovery `Reprotect`, `RollBack`, `MoveAgain`, `RollForward`; `PlanTeardown`, `Unmount`, `Forget`; `MountEnds`, `Intrude` |
| `LockProofs`, `DistOverlayProofs`, `MemberMountProofs` | theorems about the four | | |
| `WorkspaceProofs` | theorems about the four side by side | | |
| `MCOutbox`, `MCWatchDaemon`, `MCObservation`, `MCCompositionPublisher`, `MCWorkspace` | instances for TLC | | |

Definitions keep the source's names where TLA+ allows it; the `map` of `PROJECT.json` gives the
lines of each. An operator whose comment begins "Mutant of" is a plausible bug of the operator that
follows: put in its place, TLC finds the property named in `PROJECT.json` violated.

**Atomicity.** A store transaction is one action (SQLite serialises them, `BEGIN IMMEDIATE`), and so
is the synchronous code around it in one turn of the event loop. Each `yield*` of a gateway call ends
an action. In `WatchDaemon` a whole push or sync pass is one action, as its parts are the subject of
the two other modules. `Tick` is the only action that advances time.

**File systems.** In the `megarepo` modules one action is one change of the file system (`open` with
O_EXCL, `write`, `link`, `rename`, `unlink`) together with the checks the code makes right before it
in the same turn; where the code looks, awaits, and then acts on a path, those are two actions and
others may come between. A process may die at every step, a write may stop half-way and leave a
`Torn` file, a call may fail. A file of the publisher is `Absent`, `Torn`, `Foreign` (replaced by
hand) or one of the generated contents; the manifest holds the hash of every file of its generation,
which is the assumption that two generations with one manifest are equal.

**Overlays.** A directory is its inode, the artifact it holds (`Broken`: partly copied or partly
removed) and whether some part of it is writable. The inode matters: recovery trusts the metadata of
the mount and the identities of the two directories, never the journal's `phaseHint`, which is left
out for that reason; the operation is read off the journal's other fields. Moves and their undoing
are the same five actions, `undoing` says which way they go. One call at a time works on the overlay:
`assertLock` demands the workspace update lock, whose exclusion is proved (`UpdateExclusion`). The
stage has one path in the model and a fresh one per call in the code; since no stage is left behind
without a journal (`SettledAgrees`), only a directory put there by somebody else tells the two apart.

**Mounts.** A tree is its inode, its content (a source, `Linked` for the legacy symlink, `Partial` for a
tree that is being copied, protected or deleted) and whether its root is open, that is writable for a
move. The metadata stand for the source they describe, so `Whole` is what the R6 scan of a protected
mount establishes. Recovery never reads `phaseHint` (the comment at `:1952`), so it is left out:
an `updatePhase` that records nothing but the hint is no step, and the one that records the candidate's
identity is `RecordCandidate`. `OpenRoot(s, d)` and `CloseRoot(s, d)` say which of the two roots the
call got to; after a failure or a death on the way some stay open. `Darwin` says whether roots are
opened at all. One call at a time works on the mounts, under the update lock.

**What a root means while it is being changed.** The refinement `AtomicRoot` reads the disk as a
recovery would: with a committed marker the files of the journal mean their new contents, with a
pending record their previous ones, and a foreign file means itself. Under this reading
(`Understood`) every step of a publication is a stutter but one, the creation of the marker; a
rollback is all stutters.

**Time in the outbox.** Every inserted event replays the log, and the replay stamps `updated_at` of
every row and recomputes `retry_after_at` from the time of the replay (`store.ts:2385`, `:2915`). So
one number, `age`, the time since the last inserted event, decides which rows are expired and which
delays are over. It saturates at the longer of the two durations, past which no comparison of the
code can tell two ages apart.

**The remote of the outbox.** A surface is abstracted to whether its current hash equals the
command's base and its desired hash; the four `CommandKinds` differ in which hash spaces those live
in. A create does not change the schema hash it is checked against; a patch compares its base with
the whole page, so its desired hash never matches and any change of the page verifies it; schema,
metadata and body writes have both in one space; trash and restore verify by the flag.

**Keys in Observation.** An idempotency key identifies an event up to its key fields; `Key` drops
the watermark of a checkpoint, exactly what the code's key drops. `AppendEvent` inserts once per key.
The log is kept as the set of its keys and the projection is updated incrementally: replaying gives
the same tables, as `#applyEvent` reads nothing of these tables that is not itself a fold.

**The scan.** One response carries one row, in a fixed order of pages (an assumption on Notion: the
contract has no sort, and the code assumes the cursor does not skip). A page listed is active, was
edited at or after the contract's watermark, and lies after the cursor, at the moment the response
is made. The gateway may end the stream early (`cut`) or report that rows are hidden (`capped`).

## 3. The runs

| Run | Instance | Shows |
|---|---|---|
| `OutboxOverlap` | 2 overlapping daemons with a token each, one surface command; 1 error, 1 crash, 2 stalls past a lease, 1 foreign edit, 1 other append | type invariant; `SettledWasShown`, `OneExecutorPerAttempt`, `NeverFenced`, `UpdateLandsOnce`; `StaleRecordIgnored`, `LeaseCheckMeansCurrent`; refinement of `CommandLifecycle` |
| `OutboxInTurn` | a create, a patch, a trash; 2 processes one after another; 1 error, 1 crash, 1 append; `FairSpec` | `FirstSettlementIsTerminal`; every planned command is settled or blocked in the end |
| `WatchOverlap` | 2 overlapping daemons (interchangeable: symmetry), 1 signal, delivered again at will; 1 error, 1 crash or abort | `ProcessedWasSynced`, `ClaimKept` |
| `WatchInTurn` | 2 daemons one after another, 2 signals; 1 error, 1 crash or abort; `FairSpec` | `NoSignalSleptOn`, `FailedSyncBacksOff`, every signal is processed in the end |
| `ObservationPulls` | 2 pages; 1 edit, 1 move, 2 lifecycle pushes, 1 fault | `AbsenceMeansAway`, `ClassifiedAsFound`, `CompleteMeansCovered`, `FullPullMirrors`; `FlipWasRaised`, `FrozenWhileConflicted` |
| `PublisherCrashes` | 2 publishers (symmetric), 3 calls, 2 generations of which one drops a file; one file editable by hand | `OnePublisher`, `Recoverable`; `AuthorityComesLast`; refinement of `CompositionRoot` |
| `WorkspaceFiles` | update lock: 3 updates, 2 recoveries; lease: 4 attempts, one of them on another host; overlay: 2 artifacts, 3 directories; mount: 2 sources, 4 directories, with or without a legacy symlink | `OneUpdater`, `UnlinksItsTarget`; `OneHolder`, `LiveLeaseKept`; `SettledAgrees`, `RecordedSurvives`, `OverlayRecoverable`, `StrangeRefused`; `MountSettled`, `MountRecoverable`, `MountStaysWhole` |
| `OutboxDuplicateCreate`, `OutboxLostSettlement`, `ObservationLostEdit`, `ObservationReturn`, `OverlayRepublish` | the smallest instances | one disagreement each, section 4 |

**Why the bounds are enough.** The hazards of the outbox need a claim, a stall, a reclaim and a late
step of the first holder: two workers and one stall; the second stall lets the overtaken holder
overtake in turn. `MaxAttempts` is never what stops a behaviour that has faults left. The inbox's
hazards need one signal claimed twice: two daemons and one expiry. A lost wake needs a signal that
arrives while another is being processed: two signals. The pull's hazards need one page that moves
and one that stays, and a page before and after the cursor: two pages. Two pushes are a trash and the
restore that contradicts it. The publisher's hazards need a call that dies, one that recovers it and
dies in turn, and one that recovers or publishes after it: three calls (tokens are not reused); a
third process would add nothing, as a call that has ended frees its process. Two generations are a
first publication, a change, and a change that makes a file obsolete, with an unchanged `.buckconfig`
in all. A stale unlink of the update lock needs two recoveries of one dead owner and an owner that
comes between: three updates, two recoveries. The lease needs a dead holder, two recoverers and a
holder that comes between: four attempts, the one on another host being never provably dead. An
overlay needs a first publication, an update of what an update left, and a removal: three directories,
as each publication makes one. A mount needs a legacy symlink or a first publication, an advance, and
a candidate that was discarded in between: four directories. `WorkspaceFiles` runs the four protocols
side by side without letting them interact (`subject`), as they share no file (`SideBySide` proves that each then
behaves as by itself); for the same reason they
can share the names of their directories and calls, which are interchangeable in each (symmetry).

**Deadlock** is checked except in the outbox runs and in `PublisherCrashes` and `WorkspaceFiles`, where
the bounds end every behaviour: all commands are concluded or the attempts are spent; the tokens are
used up; every call is over; and a directory somebody else put in the way stops an overlay or a mount for good.

**`PublisherCrashes` restricts the world** by two constants. `Overlap = FALSE`: no two recoveries of
the publisher at a time. The publisher itself does not exclude them; its caller does, as it holds the
update lock. With `TRUE` TLC finds two recoverers of one token, both at work. `HandlerFaults = FALSE`:
the catch block of `publishCompositionRoot` and the fsync of the marker meet no I/O error. With
`TRUE` a call rolls back under a marker that is on disk, or lets go of the lock while the journal
stays; either ends in a state every recovery refuses.

**`WorkspaceFiles` restricts the world** by `Republish = FALSE`: an overlay is not updated to an
artifact of the digest it has. With `TRUE` the other properties of the overlay hold and
`OverlayRecoverable` does not (`OverlayRepublish`); the theorem `OverlayRecovers` has the restriction
as its assumption, the others are proved for both values. `OverlayRecoverable` itself makes an
exception for a stage that is not whole, and for a torn journal: both are refused on purpose.
`Darwin = TRUE`, the platform whose moves have more steps to die between; the theorems about the mount
hold for both values, but for `MountRefusesForeign`. `MountRecoverable` makes an exception for a candidate whose identity is not in
the transaction (section 4).

**Fairness.** `Outbox`: weak fairness of each process's steps and of starting a process, and of time.
The drain loop of `pushOneShotSync` (`sync.ts:1060`) and the daemon loop call `executeOutboxOnce`
again and again while rows are claimable; a supervisor or user starts the next process. Errors and
crashes are bounded, so retries are not starved by them: with an unbounded supply of failures no
command has to conclude. `WatchDaemon`: weak fairness of the loop, of starting, and of time. It
assumes that passes return; only the sync pass has a timeout (`watch.ts:805`), so a fast push that
hangs is outside this assumption (listed as a hazard). No fairness is assumed of deliveries, wakes,
local edits, crashes or aborts. Liveness of signals is checked for daemons in turn only: with two
overlapping daemons a signal can be claimed away from each by the other for ever, if every pass
outlives its lease.

**`ObservationPulls` restricts the world** by `Returns = FALSE`: a page does not go back to a content
or place it has had, except that others may go against a settled trash or restore the first time,
while no conflict of the page is recorded; and no command is pushed over an open conflict. Without
the restriction `FullPullMirrors` is false (`ObservationReturn`). And by `Overlap = FALSE`: commands
land and settle between pulls. With `TRUE` TLC finds `FullPullMirrors` violated as well: a pull records
the tombstone it read before a restore after that restore has settled; `in_trash` is set again, and the
key of the row that would clear it is spent.

Of tombstones `FullPullMirrors` claims less than that they are as Notion is: an active page that no
conflict holds is not tombstoned as trashed, and a known page that was moved out is tombstoned
`moved_out` or, from an earlier failed retrieval, `unknown`. An unclassified, `unknown` or `moved_out`
tombstone of a page that is back may stay (section 4).

Both restrictions are hypotheses of the theorem `FullPullsMirror`; the other properties of the run are
proved for both values of both constants.

## 4. Where code and documents disagree

Each has a run of its own whose counterexample shows it; `PROJECT.json` quotes the statement.

1. `OutboxDuplicateCreate`. A create that landed without an answer is sent again: the executor leaves
   it ambiguous, the next claim turns an ambiguous row into running (`store.ts:669`), observation
   cannot find a page it has no id of, and the base is the schema hash, which a create does not move.
2. `OutboxLostSettlement`. `appendOutboxSettlement` inserts under `<key>:settled` whatever the row's
   state, and the projection rejects it unless the row is running or ambiguous. If the reclaiming
   process has just recorded retryable, the settlement is lost and its key is spent; the command is
   executed over and over and never settles.
3. `ObservationLostEdit`. The high watermark is the newest edit any response showed. An edit of a row
   already read, older than that, is below the mark and is read by no incremental pull.
4. `ObservationReturn`. The row's key is its content and flag. A page that was trashed and comes back
   unchanged is a duplicate of its first observation: the row stays in the trash for ever.
5. `OverlayRepublish`. Recovery compares the metadata of the mount with the previous one first
   (`dist-overlay-lifecycle.ts:1617`). An update to an artifact of the same digest leaves both equal,
   so an interruption after the old directory is removed is judged for a rollback, which that
   directory is needed for, and refused as `AmbiguousRecovery` from then on. Every apply re-publishes
   the overlays of a mount that is current, so equal digests are the common case.

Read in the code while modelling, without a run of their own:

- A replay of the log is not neutral: as it recomputes `updated_at` and `retry_after_at` from the time
  of the replay (`store.ts:2385`, `:2915`), it renews every running lease and every Retry-After.
- The key of a lifecycle conflict is the page and the two lifecycle hashes. After one such conflict
  has been resolved, the next divergence of the same kind raises none.
- `appendOutboxSettlement` never looks at the lease token (`store.ts:752`), which
  `watch-daemon/spec.md:143-144` asks for; the model settles without it and `SettledWasShown` holds
  all the same, because a settlement needs a remote read that showed the effect.
- No code takes the root lease `_nds_lease` of `watch-daemon/spec.md:10` and `:141-142`; this is why
  processes overlap in the models.
- `pushOneShotSync` defaults to the token `one-shot:<rootId>` (`sync.ts:1067`), the same for every
  one-shot process of a root, against `spec.md:141-143`. The attempt number, not the token, then
  tells executors apart; `LeaseCheckSound` is proved under the assumption that tokens differ.
- A patch whose answer was lost is taken for a foreign edit on the retry and ends blocked, although
  it landed (compare `property-proof.ts:132-134`).
- A wake ends a Retry-After sleep (`watch.ts:1007`), against `spec.md:114-115`.
- A failing fast push (`watch.ts:706`) is outside the handler that writes the repair mark: the next
  cycle finds no mark, or `previous-cycle-did-not-complete` with a delay of 0, and a push that keeps
  failing is retried without delay, against `watch.ts:900-901` ("a retry with backoff").
- A failed fast push leaves its signal claimed until the lease runs out; the test name at
  `e2e/daemon.e2e.test.ts:445` suggests otherwise.
- The checkpoint's key has no watermark (`observation.ts:1246`), so after the first complete scan the
  recorded mark never moves: incremental pulls keep re-reading from the first one. And as no
  scheduled full scan exists (DAEMON-R03), a daemon alone never notices that a page was trashed.
- An incomplete checkpoint recorded after a complete one of the same contract makes later pulls
  resume from its cursor, as only `complete = false` is asked (`sync.ts:468`).
- `docs/vrs/subsystems/planner-guards/spec.md:146` says `Unknown --> Active: row observed again`, and
  line 144 the same of a page moved back. No observation of a row removes a tombstone: `RowObserved`
  (`store.ts:2719-2823`) touches none, an absence found accessible only one that is unclassified
  (`store.ts:3220`), and a settled restore or an accepted remote state only `remote_trash`
  (`store.ts:3055-3061`, `3178`). So a retrieval that fails in passing leaves a page tombstoned
  `unknown` after it is back, until it is classified again or forgotten, and an absence recorded just
  before a crash leaves one unclassified. The model has it: demand of
  `Mirrors` that an active page is not tombstoned `unknown`, and TLC violates it within the bounds of
  `ObservationPulls` (a trash settles, a full pull's retrieval fails, a restore settles, the next full
  pull is clean). `FullPullMirrors` therefore claims of an active page only that it is not tombstoned
  as trashed.
- `inaccessible` is a retrieval outcome no code path produces (`sync.ts:397-412`); a page answered
  with 403 or 404 is permission-ambiguous, any other failure is recorded as a tombstone `unknown`.
- With `Overlap = TRUE` in `Observation` (another process pushes while a pull runs) a stale response
  raises a conflict against the root's own settled command. No document covers that case.
- A first publication that fails after its `.buckconfig` went live is rolled back file by file, and
  `.buckconfig` goes last (`composition-root-publisher.ts:1117`): for that window Buck sees an
  authority without its files. `context/buck2/.decisions/0020-one-writable-mount-workspaces.md:135`
  says the authority is published last and says nothing of the way back.
- Teardown writes no journal. A crash in its middle leaves a manifest whose files are missing, which
  both publish and teardown refuse.
- A torn lock, journal candidate or committed marker is refused by every recovery; an operator has to
  remove it. `Recoverable` excludes these states by `Intact`.
- `recoverStaleWorkspaceUpdateLock` is called by no production code, although the message of a held
  lock (`workspace-update-lock.ts:178-179`) tells the reader to recover it "through mr using this
  token"; `composition-runtime.ts:211-214` passes no `recoverToken` to the publisher either. A recovery
  of the update lock that dies between its two unlinks leaves a lock without owner file, which every
  later recovery refuses.
- A death between the chmods around an overlay's move and their restoration
  (`dist-overlay-lifecycle.ts:532-626`) leaves the parent or a root with mode 0755. Recovery restores
  no modes unless it moves the directories itself; the inspection of the mount then fails
  (`InPlace`), and every later apply refuses it.
- A death while the stage of an overlay is made, filled or removed, and an artifact that changes
  during the copy, leave a stage that is neither old nor new, which recovery refuses for good; so does
  a torn journal, which `writeTransactionExclusive` writes in place.
- "Transactions make every process-interruption boundary recoverable" (`member-mount-cp-a.ts:1412-1416`)
  is not so between the mkdir of the stage (`:1563`) and the record of its identity (`:1568`): recovery
  takes the empty directory for somebody else's and refuses (`AmbiguousRecovery`) until it is removed
  by hand. `MountRecoverable` makes exactly this exception.
- An old mount that is edited by hand before the exchange is preserved by the publisher
  (`assertOldAtStage` fails and the call ends), but a recovery asked for afterwards sees the recorded
  inode with another content, `OldPartial`, and deletes it (`:2162-2166`). The comment at `:1953-1955`
  says that recovery treats a failed observation as ambiguous.
- Neither publisher looks at the identity of the stage between its mkdir and the move: `cp -a`, the
  chmods and, for a mount, `rm -rf .buck2/capabilities` act on whatever is at that path
  (`dist-overlay-lifecycle.ts:1126-1139`, `member-mount-cp-a.ts:1605`, `:1039`, `:1627`). What somebody
  else put there is written into, and an empty directory passes every digest. `Copy` and `Materialize`
  have both outcomes (`Filled`, `TheirInodes`). For an overlay, the identity is compared after the move
  and in recovery, so a filled directory is never recorded (`StrangeRefused`); for a first mount as well
  (`:1706`); on Darwin it is never moved (`MountRefusesForeign`). On other platforms an advance of a mount
  compares only what came back to the stage (`assertOldAtStage`): the foreign directory is exchanged in,
  recorded, and the old mount deleted; a later advance or teardown deletes it as its own. TLC shows this
  within the bounds of `WorkspaceFiles` with `Darwin = FALSE` and `ForeignRefused` as a property.
- An explicit teardown keeps no transaction. A death in its middle leaves a mount with part of its
  files, which publication and teardown refuse from then on; this is why `MountSettled` speaks of
  trees that are whole and `MountStaysWhole` excludes the teardown.
- Two daemons of one root write the same `${statePath}.tmp` (`watch.ts:359`): one can rename the file
  the other has just truncated, and a reader that fails to parse it ends its daemon.
- `store-deletion-lease.ts:160-162` says an aborted acquire leaves "never a permanent stray"; a crash
  between writing the staging file and removing it leaves that file for good. A read that fails right
  after a successful link leaks the lease itself until its process dies.

## 5. The proofs

All theorems hold for every value of the constants that satisfies the named assumptions: any number
of commands, workers, signals and daemons, any durations and any bounds on faults.

**`OutboxProofs`.** The invariants of the outbox are not inductive: nothing in
`OneExecutorPerAttempt` says that a number just claimed is new, and nothing in `SettledWasShown` says
that a process about to settle has seen the effect. `Inv` (in `Outbox`) adds

- `RowsConsistent`: an absent row has no attempts; the settlement id goes with the state;
- `AttemptsClaimed`: a process at work carries an attempt between 1 and the row's counter, so the
  next claim's number is nobody's: `OneExecutorPerAttempt`;
- `HolderRow`: the holder of the last attempt finds the row in the state and under the token it
  claimed it with, or settled. So a failed lease check means the row has moved on;
- `FencedOutdated`: hence whoever records `fenced` is outdated, its record is dropped, and
  `NeverFenced`;
- `ShownRemotely`: a desired surface has been shown, and so has the command of everyone that verifies
  or commits: `SettledWasShown`.

From `Invariance` follow `SettledMeansShown`, `OneExecutor`, `FencedUnreachable`, the action
properties `RowsOnlyAdvance` and `StaleRecordsIgnored`, and `Implements`: the mapping of a row to its
phase takes every step to a step or a stutter of `CommandLifecycle`. Two facts carry the last: a
settled row takes no event, and no claimable row is blocked. `LeaseCheckSound` needs that processes
have tokens of their own (`Token` injective), as the check compares the token and not the attempt.

Two further invariants stand on `Inv`. `FirstSettlementSettles` holds for processes in turn
(`ASSUME ~Overlap`): `InTurnInv` says that one process at a time is alive and that whoever is at work
carries the last attempt of its row (`AllCurrent`), so the row still runs when a settlement enters the
log and takes it. With overlap the property is false (`OutboxLostSettlement`). `UpdatesLandOnce` needs
no assumption, as the property itself speaks of behaviours without stalls and foreign edits.
`LandsOnceInv` says that in those the lease of everyone at work is fresh (`HoldersFresh`), so nobody
reclaims its row and its attempt stays the last (`RunningCurrent`); that the surface is as planned until
the command lands and as written from then on (`SurfaceTracked`); hence that a process which observed
the planned surface, the only kind that writes (`WritersDecided`), is about to write for the first time
(`WritersFirst`). A retry observes the written surface and verifies instead.

**`WatchDaemonProofs`.** `Inv` adds to the type invariant that a claimed signal has arrived and that
the sync pass holding it covers it (`ClaimsCovered`), and that a failure about to be reported carries
a delay (`CauseDelays`). It gives `ProcessedMeansSynced`, `ClaimsAreKept` and `ProcessedStays` with
any overlap. Under `ASSUME ~Overlap`, `InTurnInv` says that one process at a time is alive, that
after a failed sync the file names a delay until the loop has read it, and `NoSignalSleptOn`. The
argument for the last: the delay is computed from the inbox in the same turn that begins the sleep,
and any later arrival is followed by a wake that ends it.

**`ObservationProofs`.** Any finite set of pages, both values of `Returns` and `Overlap` but for
`FullPullsMirror`. What an
append records was read some steps before, so the invariants speak of the queue as well. `Inv` (in
`Observation`) adds

- `RemoteTracked`: the clock keeps within the edits made, and a page's places include where it is;
- `QueueSound`: a queued absence or tombstone says something that has been so;
- `ScannedOrAway`: behind the cursor of a full scan from the start, a page was seen or was away, and
  so was every page to be retrieved. With the first it gives `AbsenceIsEvidence` and
  `ClassificationIsFound`;
- `RowsCovered`: a key in the log has had its effect, a scan begins where the projection is complete
  up to, and a queued checkpoint is the last event and stands for rows recorded or queued before it.
  It gives `CompleteCheckpointCovers`, wherever a pull is interrupted and wherever the next resumes;
- `ConflictsRaised`: before a row or tombstone that contradicts the target is appended, its conflict
  is in the log, unless a command settled in between: `FlipIsRaised`.

The steps of others and the loss of a pull are one lemma, `AsideKeeps`; the steps of the pull that
record nothing another, `ReadingKeeps`. `ConflictFreezes` needs types only.

`FullPullsMirror` (`ASSUME ~Returns, ~Overlap`) is about what earlier pulls have left in the log as much
as about the last one: an event whose key is taken changes nothing, so the projection must have been
brought past it before. `MirrorInv` (in `Observation`) says

- `ValuesGrow`: contents are ordered from the log over the projection and the queue to the page. A row
  or property whose key is taken has been overtaken by one at least as new, and at the end of an
  undisturbed pull that is the page's own;
- `LifecycleTracked(p)`: what `in_trash`, the settled target, recorded conflicts and tombstones say of
  each other and of where the page is. If `in_trash` is wrong and nothing freezes it, a target or a
  conflict not raised yet says why, and the tombstone that would put it right is not in the log;
- `TombstoneTracked(p)`: a page recorded as trashed that is there, with no command to settle and nothing
  frozen, was restored against the settled trash and has not been seen since; such a page is still
  flagged, so a full pull that finds it unflagged finds it without that tombstone;
- `Overtaken(p)`: the same as `LifecycleTracked` for a queued row or tombstone that the page has meanwhile left behind;
- `DivergenceRaised`: a checked event's conflict is in the log, here without exception;
- `QueuePhases`: rows before classifications, one tombstone per page;
- `ReadIsCurrent`: what an undisturbed pull has read is still so;
- `FullPullTracked`: of each page a full pull has passed, the row, property or tombstone is in the queue
  (`ActiveMirrored`, `AbsentMirrored`) or the projection, or for a moved page the log, agrees with it.

An append takes an event from the queue into the projection, or finds its key taken; `ValuesGrow`,
`LifecycleTracked` and `Overtaken` settle the second case. At the end the queue is empty and
`FullPullTracked` is the property; `TombstoneTracked` and `Overtaken` give what it says of tombstones.
One lemma per invariant and kind of step: `LifecycleStep`,
`TombstoneStep`, `OvertakenStep`, `PhasesStep`, `DivergenceStep`, `ValuesStep`, `ReadIsCurrentStep`, `FullPullStep`.

**`CompositionPublisherProofs`.** Any set of publishers, tokens, files and generations, under
`~Overlap` and `~HandlerFaults` (section 3). `Recoverable` speaks of what is on disk when nobody is at
work; it is inductive only together with what every process at work knows. `IInv` says

- `Ownership`: whoever works on the root has its token in the lock, or recovers the token in the lock;
  hence `OnePublisher`;
- `Fresh`: a token not handed out has no candidate, backup or record, so a new call finds none;
- `PendingOK`, `UndecidedOK`, `CommittedOK`: what candidates, backups and files may be while the record
  is pending, and once the marker is there, `Recoverable` without the process that is at work;
- `ManifestOK`: a manifest in place is that of one generation, which the files it names agree with or
  the journal accounts for. It carries the refinement: a new transaction starts from whole files;
- `LocalAt(p)`: at each label, which of the files of the transaction have been moved, installed,
  restored or scrapped, as the set `todo` says.

Most steps change one variable of the disk, and four frame lemmas (`DataFrame`, `FileFrame`,
`CandFrame`, `ClearFrame`) say what such a step leaves of `IInv`. `Change` gives the meaning of the
files after a step, from which both `ManifestOK'` and the refinement follow.

**`LockProofs`**. Any sets of calls. `UpdateInv`: a living
owner from link to unlink has the lock; the target of a recovery is dead, and claimed by one recovery
only, because removing the owner file succeeds once. `LeaseInv`: a living attempt that has linked has
the lease; whoever recovers holds the recovery lock; and the lease it is about to remove is a dead
process's, which nobody else can have replaced meanwhile.

**`DistOverlayProofs`**. Any sets of artifacts and directories. `JournalInv`: the journal and the
transaction of the call at work are one, but for the step before it is written and the step before it
names the candidate; a candidate is never the old directory. `PhaseInv`, as long as nobody meddles:
the two directories are in one of three arrangements of the transaction, `Begun` (nothing moved),
`Swapped` (moved, not recorded) and `Written` (recorded), and the phase says in which, with the old or
new directory whole where the next step relies on it. `SeenMeans` relates what `observedTree` reports
to these arrangements; so `RecoverOverlay` starts each of its three ways in the right one, whatever
was interrupted, and `Accepted` misses none of them. It gives `OverlaySettles`, `OverlaySurvives` and
`OverlayRecovers`. `FilledInv` follows a directory of somebody else that the copy filled: it is at the
stage until the move and in place after it, the transaction is not undone meanwhile, and neither the
check after the move nor a recovery goes on; with `TheirsStep` (every removal compares an identity,
every move exchanges or goes to an empty place) it gives `OverlayRefusesStrange`.

**`MemberMountProofs`**. Any sets of sources and directories, both values of `Darwin`. The argument is
the overlays', with two differences. The transaction file may lack the candidate the call at work
knows (`Unrecorded`), so a step that ends between the two must not leave a tree behind, except as an
unrecorded candidate (`Unfinished`). And the two trees may be open: `BothShut` holds but between the
move and the closing of the roots, or until a recovery has closed them, and `SameTreeKeeps` says that
opening and closing changes none of the arrangements `MountBegun`, `MountSwapped`, `MountWritten`. `MountIInv` gives
`MountSettles`, `MountRecovers` (every arrangement, once the roots are shut, is one of the cases of
`recoverCpAMemberMount`) and `MountKeepsWhole`. `MountRefusesForeign` (`ASSUME Darwin`; no run checks
its property) rests on `TakenInv`: a directory of somebody else that was filled gets no further than the
stage, because `withDarwinMovableProtectedRoots` opens the stage by the candidate's identity, and its
transaction stays. Without the assumption it is false (section 4).

**`WorkspaceProofs`**. `SideBySide`: a behaviour of the four protocols in one workspace is one of each of
them, so their theorems carry over, and with them `FileTypes`.

## 6. Checked only, abstracted, not modelled

**Checked by TLC only.** Liveness (`EveryCommandConcludes`, `EverySignalProcessed`), as the proof
system has no rule for it here. Every invariant and every other action property of a passing run is the
statement of a theorem.

**Abstracted.** Outbox: hashes to equalities; the order of the claim among rows of equal stamp; which
error gives which verdict. WatchDaemon: a pass to one step and its outcome; clocks to ticks that only
go forward; accesses to the state file to atomic steps. Observation: trash, restore and moves leave
`last_edited_time` alone; every row carries its property values inline (else each row would be
retrieved by itself); a push, from plan to landing, is one step, as is a settlement.

Publisher: directories, modes and inode checks; the capability assertions and what
`prepareComposition` computes (the constant `Output`); the read-only plan; path validation. A foreign
edit never hits the gap between the last look and a `rename` of a backup (guard of `Edit`), which no
file system call the code has could close. Locks: path normalisation, one lock path and one owner path
at a time; a process is dead for good (no reuse of pids). Overlays: checks of paths, commands and of
the repository's identity; fsyncs, but for their failing; no one meddles between the two looks and the
`rm` of `teardownDirectory`. Mounts: the R6 scan and the hashes of the source (`Whole`); a tree is not
edited in place, only replaced; one stage path, as no stage is left without a transaction
(`MountSettled`); fsyncs, but for their failing; no one intrudes between the two looks and the `rm` of
`teardownBoundDirectory`.

**Not modelled.** In the outbox: relation patches, dry runs; the transitions Fenced to Queued and
Blocked to Queued of the documents, which no code performs. In the daemon: dry runs, mirror mode, the
two processes that write one temporary file of the state. In the observation: bodies, paginated
properties, schema, metadata and view events, `--limit` (a dry-run option), filtered contracts,
`RowForgotten`, guard diagnostics, property and body conflicts. Planner, replica, workspace, bodies,
command line and the other packages: see `PROJECT.json`, each with its reason. In `megarepo`: the
pipeline of `compositionApply`, worktree acquisition, the R6 scan, the capability resolver, garbage collection and the command line.

`effect-distributed-lock` with its file-system backing was next in the plan and is left out: the code
says that its permit count "across holders is still eventually consistent"
(`packages/@overeng/utils/src/node/file-system-backing.ts:262`), so the bound one would check is one it
disclaims, and what is left, a permit file per holder with a time to live, has no further property.

## 7. Plan

In order of importance; what is done is marked.

1. *Done.* `OutboxProjection`, `Outbox`, `CommandLifecycle` with refinement; runs; `OutboxProofs`.
2. *Done.* `WatchDaemon`; runs; `WatchDaemonProofs`.
3. *Done.* `Observation`; runs.
4. *Done.* `ObservationProofs`, `FullPullsMirror` included.
5. *Done.* `megarepo`: `CompositionPublisher` with refinement of `CompositionRoot`,
   `WorkspaceUpdateLock`, `DeletionLease`, `DistOverlay`, `MemberMount`; runs; theorems about all five.
6. `megarepo`: the composition of mounts and overlays under the update lock. An
   overlay is recorded in the metadata of its mount.
7. The state file of the daemon as write and rename steps of two processes.
8. The planner's guards as operators, checked against the rule they document; their composition with
   the outbox (which commands can be queued for one surface at once).
9. `restate-effect`: generations of `Scheduled`.
10. *Done.* `UpdatesLandOnce`, `FirstSettlementSettles`, `FullPullsMirror`, `SideBySide`.
11. Further theorems: `UpdatesLandOnce` counted from the last stall or foreign edit of a command, and a
    `FullPullsMirror` that lets pages return and names what is lost then.
