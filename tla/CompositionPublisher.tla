----------------------- MODULE CompositionPublisher ------------------------
(***************************************************************************)
(* The publisher of a Buck2 composition root (megarepo,                    *)
(* composition-root-publisher.ts): a lock file, a journal of the previous  *)
(* files, candidates and backups kept per lock token, a committed marker,  *)
(* rollback, and recovery of what a dead publisher left behind.            *)
(*                                                                         *)
(* One action is one change of the file system with the checks the code    *)
(* makes right before it; a publisher may die between any two of them or   *)
(* in the middle of a write.  A file is Absent, Torn, Foreign or one of    *)
(* the generated contents.                                                 *)
(***************************************************************************)
EXTENDS Naturals

CONSTANTS
  Publishers,  \* processes that publish or tear down one workspace
  Tokens,      \* bound: lock tokens (nonces), one for each call
  Gens, Paths, Config, Manifest, Output, Absent, Foreign,  \* see CompositionRoot
  Contents,    \* the contents of generated files
  Canonical,   \* the files teardown expects beside the manifest
  Rank,        \* Rank[f]: the byte order of the paths
  Torn,        \* a file whose writer died before the bytes were complete
  Teardown,    \* the job of teardownCompositionRoot
  Editable,    \* bound: the files somebody else may replace
  Overlap,     \* TRUE: two publishers may recover one dead lock at a time
  HandlerFaults \* TRUE: an I/O error can also hit the marker's fsync or the catch block

Owned(g) == {f \in Paths : Output[g][f] # Absent}

ASSUME PublisherAssumption ==
  /\ Absent \notin Contents /\ Torn \notin Contents /\ Foreign \notin Contents
  /\ Absent # Torn /\ Absent # Foreign /\ Torn # Foreign
  /\ Absent \notin Tokens /\ Torn \notin Tokens
  /\ Teardown \notin Gens
  /\ Config \in Paths /\ Manifest \in Paths /\ Config # Manifest
  /\ Output \in [Gens -> [Paths -> Contents \cup {Absent}]]
  /\ \A g \in Gens : {Config, Manifest} \subseteq Owned(g)
  \* the manifest holds the hash of every file, so it tells generations apart
  /\ \A g, h \in Gens : Output[g][Manifest] = Output[h][Manifest] => Output[g] = Output[h]
  /\ Rank \in [Paths -> Nat] /\ \A f, g \in Paths : Rank[f] = Rank[g] => f = g
  /\ Canonical \subseteq Paths /\ Editable \subseteq Paths
  /\ Overlap \in BOOLEAN /\ HandlerFaults \in BOOLEAN

File == Contents \cup {Absent, Foreign}

\* The journal: what is to be published and what was there before.  A record and
\* its AuthorityCommitted copy differ in the phase only, which their path tells.
Transaction == [token : Tokens, gen : Gens, files : SUBSET Paths,
                obsolete : SUBSET Paths, prev : [Paths -> File]]

ASSUME JournalAssumption == Absent \notin Transaction /\ Torn \notin Transaction

VARIABLES
  live,       \* live[f]: the generated file at its final path
  cand,       \* cand[t][f]: its candidate under the directory of token t
  backup,     \* backup[t][f]: its backup there
  recCand,    \* recCand[t]: the candidate of the journal record of t
  pending,    \* composition-publication.json
  committed,  \* composition-publication.committed.json
  lock,       \* composition-publisher.lock.json: the token in it
  used,       \* tokens handed out so far
  pc,         \* pc[p]: where publisher p is
  tok,        \* tok[p]: the token of its call
  job,        \* job[p]: the generation it publishes, or Teardown
  rcv,        \* rcv[p]: the dead token it is recovering, else Absent
  tx,         \* tx[p]: the transaction it works on
  todo        \* todo[p]: the files the current loop has left

disk == <<live, cand, backup, recCand, pending, committed, lock>>
vars == <<live, cand, backup, recCand, pending, committed, lock,
          used, pc, tok, job, rcv, tx, todo>>

Publishing == {"writeRecord", "linkRecord", "dropRecord", "stage", "withdraw", "backup",
               "install", "drop", "publish", "unconfig", "commit"}
Undoing    == {"rollback", "putBack", "scrap", "unpend"}
Clearing   == {"forward", "forwardPending", "forwardCommitted"}
Labels     == {"idle", "acquire", "takeLock", "validate", "recover", "dropStale", "abort",
               "reread", "remove", "release"} \cup Publishing \cup Undoing \cup Clearing

Init ==
  /\ live = [f \in Paths |-> Absent]
  /\ cand = [t \in Tokens |-> [f \in Paths |-> Absent]]
  /\ backup = [t \in Tokens |-> [f \in Paths |-> Absent]]
  /\ recCand = [t \in Tokens |-> Absent]
  /\ pending = Absent /\ committed = Absent /\ lock = Absent
  /\ used = {}
  /\ pc = [p \in Publishers |-> "idle"]
  /\ tok = [p \in Publishers |-> Absent]
  /\ job = [p \in Publishers |-> Teardown]
  /\ rcv = [p \in Publishers |-> Absent]
  /\ tx = [p \in Publishers |-> Absent]
  /\ todo = [p \in Publishers |-> {}]

-----------------------------------------------------------------------------
\* Helpers.

At(p, l) == pc[p] = l
Goto(p, l) == pc' = [pc EXCEPT ![p] = l]
Left(p, S) == todo' = [todo EXCEPT ![p] = S]

IsFirst(f, S) == f \in S /\ \A g \in S : Rank[f] <= Rank[g]
IsLast(f, S) == f \in S /\ \A g \in S : Rank[g] <= Rank[f]

Touched(r) == r.files \cup r.obsolete
New(r, f) == Output[r.gen][f]
Cand(r, f) == cand[r.token][f]
Backup(r, f) == backup[r.token][f]

SetLive(f, c) == live' = [live EXCEPT ![f] = c]
SetCand(r, f, c) == cand' = [cand EXCEPT ![r.token][f] = c]
SetBackup(r, f, c) == backup' = [backup EXCEPT ![r.token][f] = c]

\* A call that failed or whose process died, so that recovery may be authorised.
Dead(t) == ~ \E p \in Publishers : tok[p] = t /\ pc[p] # "idle"

-----------------------------------------------------------------------------
\* The lock and the recovery of a dead one.

Start(p) ==
  /\ At(p, "idle")
  /\ \E t \in Tokens \ used, j \in Gens \cup {Teardown} :
       /\ used' = used \cup {t}
       /\ tok' = [tok EXCEPT ![p] = t]
       /\ job' = [job EXCEPT ![p] = j]
  /\ Goto(p, "acquire")
  /\ rcv' = [rcv EXCEPT ![p] = Absent]
  /\ tx' = [tx EXCEPT ![p] = Absent]
  /\ Left(p, {})
  /\ UNCHANGED disk

\* acquireLock up to its first write: a held lock, or a journal without a lock,
\* refuses the call; recoverToken names the dead lock to recover.
Acquire(p) ==
  /\ At(p, "acquire")
  /\ \/ /\ lock = Absent /\ pending = Absent /\ committed = Absent
        /\ Goto(p, "takeLock")
        /\ UNCHANGED rcv
     \/ /\ lock # Absent \/ pending # Absent \/ committed # Absent
        /\ Goto(p, "idle")
        /\ UNCHANGED rcv
     \/ /\ lock \in Tokens /\ Dead(lock)
        /\ Overlap \/ \A q \in Publishers : pc[q] # "idle" => rcv[q] = Absent
        /\ rcv' = [rcv EXCEPT ![p] = lock]
        /\ Goto(p, "recover")
  /\ UNCHANGED <<disk, used, tok, job, tx, todo>>

FinalMatches(r) ==
  /\ \A f \in Owned(r.gen) : live[f] = New(r, f)
  /\ \A f \in r.obsolete : live[f] = Absent

\* recoverTransaction reads both records: a committed publication is finished,
\* a pending one is undone, a lone record candidate is dropped.
Recover(p) ==
  /\ At(p, "recover")
  /\ \/ /\ committed \in Transaction /\ committed.token = rcv[p]
        /\ pending \in {Absent, committed} /\ FinalMatches(committed)
        /\ tx' = [tx EXCEPT ![p] = committed]
        /\ Left(p, Touched(committed)) /\ Goto(p, "forward")
        /\ UNCHANGED recCand
     \/ /\ committed = Absent /\ pending \in Transaction /\ pending.token = rcv[p]
        /\ tx' = [tx EXCEPT ![p] = pending]
        /\ Left(p, Touched(pending)) /\ Goto(p, "rollback")
        /\ UNCHANGED recCand
     \/ /\ committed = Absent /\ pending = Absent /\ recCand[rcv[p]] # Torn
        /\ recCand' = [recCand EXCEPT ![rcv[p]] = Absent]
        /\ Goto(p, "dropStale")
        /\ UNCHANGED <<tx, todo>>
     \/ \* the record is torn, another call's, or no longer what the disk holds
        /\ \/ committed = Torn
           \/ committed \in Transaction /\ ~ /\ committed.token = rcv[p]
                                             /\ pending \in {Absent, committed}
                                             /\ FinalMatches(committed)
           \/ committed = Absent /\ pending \in Transaction /\ pending.token # rcv[p]
           \/ committed = Absent /\ pending = Absent /\ recCand[rcv[p]] = Torn
        /\ Goto(p, "idle")
        /\ UNCHANGED <<recCand, tx, todo>>
  /\ UNCHANGED <<live, cand, backup, pending, committed, lock, used, tok, job, rcv>>

\* removeExact of the recovered lock, by identity.
DropStale(p) ==
  /\ At(p, "dropStale")
  /\ \/ /\ lock = rcv[p]
        /\ lock' = Absent
        /\ rcv' = [rcv EXCEPT ![p] = Absent]
        /\ tx' = [tx EXCEPT ![p] = Absent]
        /\ Goto(p, "takeLock")
     \/ /\ lock # rcv[p]
        /\ Goto(p, "idle")
        /\ UNCHANGED <<lock, rcv, tx>>
  /\ UNCHANGED <<live, cand, backup, recCand, pending, committed, used, tok, job, todo>>

\* Mutant of TakeLock: no O_EXCL.
TakeAnyLock(p) ==
  /\ At(p, "takeLock")
  /\ lock' = tok[p] /\ Goto(p, "validate")
  /\ UNCHANGED <<live, cand, backup, recCand, pending, committed, used, tok, job, rcv, tx, todo>>

\* writeExclusive of the lock: O_EXCL decides a race.
TakeLock(p) ==
  /\ At(p, "takeLock")
  /\ \/ /\ lock = Absent
        /\ lock' = tok[p] /\ Goto(p, "validate")
     \/ /\ lock = Absent
        /\ lock' = Torn /\ Goto(p, "idle")
     \/ /\ lock # Absent
        /\ Goto(p, "idle") /\ UNCHANGED lock
  /\ UNCHANGED <<live, cand, backup, recCand, pending, committed, used, tok, job, rcv, tx, todo>>

Release(p) ==
  /\ At(p, "release")
  /\ lock' = IF lock = tok[p] THEN Absent ELSE lock
  /\ Goto(p, "idle")
  /\ UNCHANGED <<live, cand, backup, recCand, pending, committed, used, tok, job, rcv, tx, todo>>

-----------------------------------------------------------------------------
\* Validation: which files change, which become obsolete, what is refused.

\* A first publication adopts files that already hold the wanted bytes.
Adoptable(g) ==
  /\ live[Manifest] = Absent /\ live[Config] = Absent
  /\ \A f \in Owned(g) : live[f] \in {Absent, Output[g][f]}

\* The manifest on disk is that of h and every file it names is untouched.
OnDisk(h) == \A f \in Owned(h) : live[f] = Output[h][f]

MakeTransaction(t, g, obsolete) ==
  LET files == {f \in Owned(g) : live[f] # Output[g][f]} \cup {Config}
  IN [token |-> t, gen |-> g, files |-> files, obsolete |-> obsolete,
      prev |-> [f \in Paths |-> IF f \in files \cup obsolete THEN live[f] ELSE Absent]]

\* validatePublicationState and makeTransaction; failed capability assertions and
\* every other refusal leave the workspace alone.
Validate(p) ==
  /\ At(p, "validate") /\ job[p] \in Gens
  /\ \/ Goto(p, "release") /\ UNCHANGED tx
     \/ \E obsolete \in SUBSET Paths :
          /\ \/ Adoptable(job[p]) /\ obsolete = {}
             \/ \E h \in Gens : /\ OnDisk(h) /\ Owned(job[p]) \subseteq Owned(h)
                                /\ obsolete = Owned(h) \ Owned(job[p])
          /\ ~ (OnDisk(job[p]) /\ obsolete = {})
          /\ tx' = [tx EXCEPT ![p] = MakeTransaction(tok[p], job[p], obsolete)]
          /\ Goto(p, "writeRecord")
  /\ UNCHANGED <<disk, used, tok, job, rcv, todo>>

-----------------------------------------------------------------------------
\* The journal record and the candidates.

\* A write that breaks off leaves a torn file, and its publisher dead or in the
\* failure handler.
BreaksOff(p) == \E l \in {"idle", "abort"} : Goto(p, l)

WriteRecord(p) ==
  /\ At(p, "writeRecord")
  /\ \/ /\ recCand' = [recCand EXCEPT ![tok[p]] = tx[p]]
        /\ Goto(p, "linkRecord")
     \/ /\ recCand' = [recCand EXCEPT ![tok[p]] = Torn]
        /\ BreaksOff(p)
  /\ UNCHANGED <<live, cand, backup, pending, committed, lock, used, tok, job, rcv, tx, todo>>

\* Mutant of LinkRecord: the record is written in place.
WriteInPlace(p) ==
  /\ At(p, "linkRecord") /\ pending = Absent
  /\ \/ pending' = tx[p] /\ Goto(p, "dropRecord")
     \/ pending' = Torn /\ BreaksOff(p)
  /\ UNCHANGED <<live, cand, backup, recCand, committed, lock, used, tok, job, rcv, tx, todo>>

LinkRecord(p) ==
  /\ At(p, "linkRecord")
  /\ \/ /\ pending = Absent
        /\ pending' = tx[p] /\ Goto(p, "dropRecord")
     \/ /\ pending # Absent
        /\ Goto(p, "abort") /\ UNCHANGED pending
  /\ UNCHANGED <<live, cand, backup, recCand, committed, lock, used, tok, job, rcv, tx, todo>>

DropRecord(p) ==
  /\ At(p, "dropRecord")
  /\ recCand' = [recCand EXCEPT ![tok[p]] = Absent]
  /\ Left(p, tx[p].files) /\ Goto(p, "stage")
  /\ UNCHANGED <<live, cand, backup, pending, committed, lock, used, tok, job, rcv, tx>>

Stage(p, f) ==
  /\ At(p, "stage") /\ IsFirst(f, todo[p])
  /\ \/ /\ SetCand(tx[p], f, New(tx[p], f))
        /\ Left(p, todo[p] \ {f})
        /\ Goto(p, IF todo[p] = {f} THEN "withdraw" ELSE "stage")
     \/ /\ SetCand(tx[p], f, Torn)
        /\ BreaksOff(p) /\ UNCHANGED todo
  /\ UNCHANGED <<live, backup, recCand, pending, committed, lock, used, tok, job, rcv, tx>>

-----------------------------------------------------------------------------
\* commitTransaction: .buckconfig goes first and comes back last.

\* Mutant of MovePrevious: the old file is deleted.
DeletePrevious(p, f) ==
  /\ live[f] = tx[p].prev[f]
  /\ SetLive(f, Absent)
  /\ UNCHANGED backup

\* movePreviousToBackup: the file must still be the one that was validated.
MovePrevious(p, f) ==
  /\ live[f] = tx[p].prev[f]
  /\ \/ tx[p].prev[f] = Absent /\ UNCHANGED <<live, backup>>
     \/ /\ tx[p].prev[f] # Absent /\ Backup(tx[p], f) = Absent
        /\ SetBackup(tx[p], f, live[f]) /\ SetLive(f, Absent)

\* The check finds something else: nothing moves and the handler takes over.
MoveRefused(p, f) ==
  /\ live[f] # tx[p].prev[f] \/ (tx[p].prev[f] # Absent /\ Backup(tx[p], f) # Absent)
  /\ Goto(p, "abort") /\ UNCHANGED <<live, backup, todo>>

Withdraw(p) ==
  /\ At(p, "withdraw")
  /\ \/ /\ MovePrevious(p, Config)
        /\ Left(p, Touched(tx[p]) \ {Config}) /\ Goto(p, "backup")
     \/ MoveRefused(p, Config)
  /\ UNCHANGED <<cand, recCand, pending, committed, lock, used, tok, job, rcv, tx>>

\* The changed files in order, then the obsolete ones.
NextMoved(p, f) ==
  IF todo[p] \cap tx[p].files # {} THEN IsFirst(f, todo[p] \cap tx[p].files)
                                   ELSE IsFirst(f, todo[p])

MoveAway(p, f) ==
  /\ At(p, "backup") /\ NextMoved(p, f)
  /\ \/ /\ MovePrevious(p, f)
        /\ IF f \in tx[p].files THEN Goto(p, "install") /\ UNCHANGED todo
                                ELSE UNCHANGED pc /\ Left(p, todo[p] \ {f})
     \/ MoveRefused(p, f)
  /\ UNCHANGED <<cand, recCand, pending, committed, lock, used, tok, job, rcv, tx>>

\* link(2) of the candidate onto the final path never replaces a file.
LinkCandidate(p, f, next) ==
  /\ \/ /\ Cand(tx[p], f) = New(tx[p], f) /\ live[f] = Absent
        /\ SetLive(f, New(tx[p], f)) /\ Goto(p, next)
     \/ /\ Cand(tx[p], f) # New(tx[p], f) \/ live[f] # Absent
        /\ Goto(p, "abort") /\ UNCHANGED live
  /\ UNCHANGED <<cand, backup, recCand, pending, committed, lock, used, tok, job, rcv, tx, todo>>

Install(p, f) == At(p, "install") /\ NextMoved(p, f) /\ LinkCandidate(p, f, "drop")

Drop(p, f) ==
  /\ At(p, "drop") /\ NextMoved(p, f)
  /\ SetCand(tx[p], f, Absent)
  /\ Left(p, todo[p] \ {f}) /\ Goto(p, "backup")
  /\ UNCHANGED <<live, backup, recCand, pending, committed, lock, used, tok, job, rcv, tx>>

DesiredRoot(r) ==
  /\ \A f \in Owned(r.gen) \ {Config} : live[f] = New(r, f)
  /\ \A f \in r.obsolete : live[f] = Absent

AssertDesiredRoot(p) ==
  /\ At(p, "backup") /\ todo[p] = {}
  /\ Goto(p, IF DesiredRoot(tx[p]) THEN "publish" ELSE "abort")
  /\ UNCHANGED <<disk, used, tok, job, rcv, tx, todo>>

PublishConfig(p) == At(p, "publish") /\ LinkCandidate(p, Config, "unconfig")

DropConfig(p) ==
  /\ At(p, "unconfig")
  /\ SetCand(tx[p], Config, Absent)
  /\ Goto(p, "commit")
  /\ UNCHANGED <<live, backup, recCand, pending, committed, lock, used, tok, job, rcv, tx, todo>>

\* writeCommittedTransaction: the point of no return.  With HandlerFaults the
\* record can be complete and its fsync still report an error.
Commit(p) ==
  /\ At(p, "commit")
  /\ \/ /\ committed = Absent
        /\ committed' = tx[p]
        /\ Goto(p, "reread") \/ (HandlerFaults /\ Goto(p, "abort"))
     \/ committed = Absent /\ committed' = Torn /\ BreaksOff(p)
     \/ committed # Absent /\ Goto(p, "abort") /\ UNCHANGED committed
  /\ UNCHANGED <<live, cand, backup, recCand, pending, lock, used, tok, job, rcv, tx, todo>>

Reread(p) ==
  /\ At(p, "reread")
  /\ Goto(p, IF pending = Absent THEN "idle" ELSE "forward")
  /\ Left(p, Touched(tx[p]))
  /\ UNCHANGED <<disk, used, tok, job, rcv, tx>>

-----------------------------------------------------------------------------
\* cleanupTransactionForward: by the publisher itself or by a recovery.

Done(p) == Goto(p, IF rcv[p] = Absent THEN "release" ELSE "dropStale")

\* An artifact must be what the journal says before it is removed.
Forward(p, f) ==
  LET r == tx[p] IN
  /\ At(p, "forward") /\ f \in todo[p]
  /\ IF todo[p] \cap r.files # {} THEN IsFirst(f, todo[p] \cap r.files)
                                  ELSE IsFirst(f, todo[p])
  /\ \/ /\ f \in r.files /\ Cand(r, f) = New(r, f)
        /\ SetCand(r, f, Absent)
        /\ UNCHANGED <<backup, todo, pc>>
     \/ /\ f \in r.files => Cand(r, f) = Absent
        /\ Backup(r, f) \in {Absent, r.prev[f]}
        /\ SetBackup(r, f, Absent)
        /\ Left(p, todo[p] \ {f})
        /\ UNCHANGED <<cand, pc>>
     \/ /\ \/ f \in r.files /\ Cand(r, f) \notin {Absent, New(r, f)}
           \/ (f \in r.files => Cand(r, f) = Absent) /\ Backup(r, f) \notin {Absent, r.prev[f]}
        /\ Goto(p, "idle")
        /\ UNCHANGED <<cand, backup, todo>>
  /\ UNCHANGED <<live, recCand, pending, committed, lock, used, tok, job, rcv, tx>>

ForwardPending(p) ==
  /\ At(p, "forward") /\ todo[p] = {}
  /\ \/ /\ pending \in {Absent, tx[p]}
        /\ pending' = Absent /\ Goto(p, "forwardCommitted")
     \/ /\ pending \notin {Absent, tx[p]}
        /\ Goto(p, "idle") /\ UNCHANGED pending
  /\ UNCHANGED <<live, cand, backup, recCand, committed, lock, used, tok, job, rcv, tx, todo>>

ForwardCommitted(p) ==
  /\ At(p, "forwardCommitted")
  /\ \/ /\ committed = tx[p]
        /\ committed' = Absent /\ Done(p)
     \/ /\ committed # tx[p]
        /\ Goto(p, "idle") /\ UNCHANGED committed
  /\ UNCHANGED <<live, cand, backup, recCand, pending, lock, used, tok, job, rcv, tx, todo>>

-----------------------------------------------------------------------------
\* rollbackTransaction: obsolete files, then the others, then .buckconfig.

\* The catch block of publishCompositionRoot.
Abort(p) ==
  /\ At(p, "abort")
  /\ \/ /\ pending \in Transaction
        /\ tx' = [tx EXCEPT ![p] = pending]
        /\ Left(p, Touched(pending)) /\ Goto(p, "rollback")
        /\ UNCHANGED recCand
     \/ /\ pending = Absent
        /\ recCand' = [recCand EXCEPT ![tok[p]] = IF @ = tx[p] THEN Absent ELSE @]
        /\ Goto(p, "release")
        /\ UNCHANGED <<tx, todo>>
     \/ \* reading the record fails inside the handler: the lock goes, the journal stays
        /\ HandlerFaults
        /\ Goto(p, "release")
        /\ UNCHANGED <<recCand, tx, todo>>
  /\ UNCHANGED <<live, cand, backup, pending, committed, lock, used, tok, job, rcv>>

\* Mutant of NextRestored: the order of the commit, not its reverse.
NextCommitted(p, f) == IsFirst(f, todo[p])

NextRestored(p, f) ==
  LET r == tx[p] IN
  IF todo[p] \cap r.obsolete # {} THEN IsLast(f, todo[p] \cap r.obsolete)
  ELSE IF todo[p] # {Config} THEN IsLast(f, todo[p] \ {Config})
  ELSE f = Config

\* Already as before: never moved, or a file that was missing and still is.
Untouched(r, f) == Backup(r, f) = Absent /\ live[f] = r.prev[f]
\* The new file stands where there was none.
Added(r, f) ==
  /\ f \in r.files /\ r.prev[f] = Absent
  /\ Backup(r, f) = Absent /\ live[f] = New(r, f)
\* The backup can be renamed straight back, or after the new file is removed.
Vacated(r, f) == r.prev[f] # Absent /\ Backup(r, f) = r.prev[f] /\ live[f] = Absent
\* Mutant of Replaced: whatever stands there is removed.
Occupied(r, f) ==
  /\ f \in r.files /\ r.prev[f] # Absent
  /\ Backup(r, f) = r.prev[f] /\ live[f] # Absent
Replaced(r, f) ==
  /\ f \in r.files /\ r.prev[f] # Absent
  /\ Backup(r, f) = r.prev[f] /\ live[f] = New(r, f)

Restorable(r, f) == Untouched(r, f) \/ Added(r, f) \/ Vacated(r, f) \/ Replaced(r, f)

\* restoreTransactionFile and restoreObsoleteTransactionFile.
Restore(p, f) ==
  LET r == tx[p] IN
  /\ At(p, "rollback") /\ todo[p] # {} /\ NextRestored(p, f)
  /\ \/ /\ Untouched(r, f)
        /\ Left(p, todo[p] \ {f})
        /\ UNCHANGED <<live, backup, pc>>
     \/ /\ Added(r, f)
        /\ SetLive(f, Absent) /\ Left(p, todo[p] \ {f})
        /\ UNCHANGED <<backup, pc>>
     \/ /\ Vacated(r, f)
        /\ SetLive(f, Backup(r, f)) /\ SetBackup(r, f, Absent)
        /\ Left(p, todo[p] \ {f})
        /\ UNCHANGED pc
     \/ /\ Replaced(r, f)
        /\ SetLive(f, Absent) /\ Goto(p, "putBack")
        /\ UNCHANGED <<backup, todo>>
     \/ /\ ~ Restorable(r, f)
        /\ Goto(p, "idle")
        /\ UNCHANGED <<live, backup, todo>>
  /\ UNCHANGED <<cand, recCand, pending, committed, lock, used, tok, job, rcv, tx>>

\* rename(backup, final) after the new file was removed, without another look.
PutBack(p, f) ==
  /\ At(p, "putBack") /\ NextRestored(p, f)
  /\ SetLive(f, Backup(tx[p], f)) /\ SetBackup(tx[p], f, Absent)
  /\ Left(p, todo[p] \ {f}) /\ Goto(p, "rollback")
  /\ UNCHANGED <<cand, recCand, pending, committed, lock, used, tok, job, rcv, tx>>

Restored(p) ==
  /\ At(p, "rollback") /\ todo[p] = {}
  /\ Left(p, tx[p].files) /\ Goto(p, "scrap")
  /\ UNCHANGED <<disk, used, tok, job, rcv, tx>>

Scrap(p, f) ==
  /\ At(p, "scrap") /\ IsFirst(f, todo[p])
  /\ \/ /\ Cand(tx[p], f) \in {Absent, New(tx[p], f)}
        /\ SetCand(tx[p], f, Absent)
        /\ Left(p, todo[p] \ {f})
        /\ Goto(p, IF todo[p] = {f} THEN "unpend" ELSE "scrap")
     \/ /\ Cand(tx[p], f) \notin {Absent, New(tx[p], f)}
        /\ Goto(p, "idle") /\ UNCHANGED <<cand, todo>>
  /\ UNCHANGED <<live, backup, recCand, pending, committed, lock, used, tok, job, rcv, tx>>

\* The record that is on disk by now goes, whosever it is.
Unpend(p) ==
  /\ At(p, "unpend")
  /\ \/ /\ pending # Absent
        /\ pending' = Absent /\ Done(p)
     \/ /\ pending = Absent
        /\ Goto(p, "idle") /\ UNCHANGED pending
  /\ UNCHANGED <<live, cand, backup, recCand, committed, lock, used, tok, job, rcv, tx, todo>>

-----------------------------------------------------------------------------
\* teardownCompositionRoot: no journal; .buckconfig first, the manifest last.

ValidateTeardown(p) ==
  /\ At(p, "validate") /\ job[p] = Teardown
  /\ \/ \E h \in Gens :
          /\ OnDisk(h) /\ Owned(h) = Canonical \cup {Manifest}
          /\ tx' = [tx EXCEPT ![p] = [MakeTransaction(tok[p], h, {}) EXCEPT !.files = Owned(h)]]
          /\ Left(p, Owned(h)) /\ Goto(p, "remove")
     \/ Goto(p, "release") /\ UNCHANGED <<tx, todo>>
  /\ UNCHANGED <<disk, used, tok, job, rcv>>

NextRemoved(p, f) ==
  IF Config \in todo[p] THEN f = Config
  ELSE IF todo[p] # {Manifest} THEN IsFirst(f, todo[p] \ {Manifest})
  ELSE f = Manifest

\* A file that changed, or any error, ends the call: its lock goes, the rest stays.
RemoveFile(p, f) ==
  /\ At(p, "remove") /\ NextRemoved(p, f)
  /\ \/ /\ live[f] = New(tx[p], f)
        /\ SetLive(f, Absent) /\ Left(p, todo[p] \ {f})
        /\ Goto(p, IF todo[p] = {f} THEN "release" ELSE "remove")
     \/ Goto(p, "release") /\ UNCHANGED <<live, todo>>
  /\ UNCHANGED <<cand, backup, recCand, pending, committed, lock, used, tok, job, rcv, tx>>

-----------------------------------------------------------------------------
\* Failures and the rest of the world.

\* An I/O error or a callback that throws, before the committed marker.
Throws(p) ==
  /\ pc[p] \in Publishing
  /\ Goto(p, "abort")
  /\ UNCHANGED <<disk, used, tok, job, rcv, tx, todo>>

\* The process dies, or the call ends with everything left for recovery.
Dies(p) ==
  /\ pc[p] # "idle"
  /\ Goto(p, "idle")
  /\ UNCHANGED <<disk, used, tok, job, rcv, tx, todo>>

\* Somebody else replaces or creates a file, never in the gap before a rename.
Edit(f) ==
  /\ f \in Editable /\ live[f] # Foreign
  /\ \A p \in Publishers : ~ At(p, "putBack")
  /\ SetLive(f, Foreign)
  /\ UNCHANGED <<cand, backup, recCand, pending, committed, lock, used, pc, tok, job, rcv, tx, todo>>

Step(p) ==
  \/ Start(p) \/ Acquire(p) \/ Recover(p) \/ DropStale(p) \/ TakeLock(p) \/ Release(p)
  \/ Validate(p) \/ WriteRecord(p) \/ LinkRecord(p) \/ DropRecord(p)
  \/ Withdraw(p) \/ AssertDesiredRoot(p) \/ PublishConfig(p) \/ DropConfig(p)
  \/ Commit(p) \/ Reread(p) \/ ForwardPending(p) \/ ForwardCommitted(p)
  \/ Abort(p) \/ Restored(p) \/ Unpend(p) \/ ValidateTeardown(p) \/ Throws(p) \/ Dies(p)

FileStep(p, f) ==
  \/ Stage(p, f) \/ MoveAway(p, f) \/ Install(p, f) \/ Drop(p, f) \/ Forward(p, f)
  \/ Restore(p, f) \/ PutBack(p, f) \/ Scrap(p, f) \/ RemoveFile(p, f)

Next ==
  \/ \E p \in Publishers : Step(p) \/ \E f \in Paths : FileStep(p, f)
  \/ \E f \in Paths : Edit(f)

Spec == Init /\ [][Next]_vars

-----------------------------------------------------------------------------
\* The types of the variables: files hold generated, foreign or torn bytes, and a
\* publisher has a transaction exactly where the code has one.
TypeOK ==
  /\ live \in [Paths -> File]
  /\ cand \in [Tokens -> [Paths -> Contents \cup {Absent, Torn}]]
  /\ backup \in [Tokens -> [Paths -> File]]
  /\ recCand \in [Tokens -> Transaction \cup {Absent, Torn}]
  /\ pending \in Transaction \cup {Absent}
  /\ committed \in Transaction \cup {Absent, Torn}
  /\ lock \in Tokens \cup {Absent, Torn}
  /\ used \subseteq Tokens
  /\ pc \in [Publishers -> Labels]
  /\ tok \in [Publishers -> Tokens \cup {Absent}]
  /\ job \in [Publishers -> Gens \cup {Teardown}]
  /\ rcv \in [Publishers -> Tokens \cup {Absent}]
  /\ tx \in [Publishers -> Transaction \cup {Absent}]
  /\ todo \in [Publishers -> SUBSET Paths]

\* Between taking a lock, or starting to recover one, and letting go of it.
Working(p) == pc[p] \notin {"idle", "acquire", "takeLock"}

\* At most one publisher works on the root at a time (the exclusive lock, and the
\* workspace update lock under which recoveries run).
OnePublisher == \A p, q \in Publishers : Working(p) /\ Working(q) => p = q

\* No file was replaced by hand and no record or candidate of the lock is torn.
Intact ==
  /\ \A f \in Paths : live[f] # Foreign
  /\ lock # Torn /\ committed # Torn
  /\ lock \in Tokens => recCand[lock] # Torn /\ \A f \in Paths : cand[lock][f] # Torn

\* Whatever a dead publisher or recovery left behind, the checks of a recovery
\* pass: each journal has its lock, a committed root is in place with cleanable
\* artifacts, and every file of a pending one can be put back.
Recoverable ==
  Intact =>
    /\ committed \in Transaction =>
         /\ lock = committed.token /\ pending \in {Absent, committed}
         /\ FinalMatches(committed)
         /\ \A f \in Touched(committed) :
              /\ Cand(committed, f) \in {Absent, New(committed, f)}
              /\ Backup(committed, f) \in {Absent, committed.prev[f]}
    /\ committed = Absent /\ pending \in Transaction =>
         /\ lock = pending.token
         /\ \A f \in Touched(pending) :
              /\ Restorable(pending, f)
              /\ Cand(pending, f) \in {Absent, New(pending, f)}

\* Whenever .buckconfig appears, every other file of the generation it belongs to
\* is in place and no file of another one is, by hand-made replacements only
\* excepted: authority comes last, in a publication and in a rollback.
AuthorityAppears == live[Config] = Absent /\ live'[Config] \in Contents

AuthorityComesLast ==
  [][AuthorityAppears =>
       \E g \in Gens : \A f \in Paths : live'[f] \in {Output[g][f], Foreign}]_vars

-----------------------------------------------------------------------------
\* The file f as the journal says it is to be understood: a foreign file is
\* itself, a committed record means the new file, a pending one the previous.
Understood(f) ==
  IF live[f] = Foreign THEN Foreign
  ELSE IF committed \in Transaction
       THEN IF f \in Touched(committed) THEN New(committed, f) ELSE live[f]
  ELSE IF pending \in Transaction
       THEN IF f \in Touched(pending) THEN pending.prev[f] ELSE live[f]
  ELSE live[f]

Root == INSTANCE CompositionRoot WITH content <- [f \in Paths |-> Understood(f)]

\* The journal, its recovery and every crash implement the atomic change of root.
AtomicRoot == Root!Spec
=============================================================================
