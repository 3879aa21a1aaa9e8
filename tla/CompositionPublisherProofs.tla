-------------------- MODULE CompositionPublisherProofs ---------------------
(***************************************************************************)
(* Proofs about CompositionPublisher for any number of publishers, tokens, *)
(* files and generations: types, exclusion, recoverability of everything a *)
(* crash leaves behind, the order of authority, and that the journal and   *)
(* its recovery implement the atomic change of CompositionRoot.            *)
(***************************************************************************)
EXTENDS CompositionPublisher, TLAPS

-----------------------------------------------------------------------------
\* The inductive invariant: who holds the lock.

Busy(p) == pc[p] # "idle"

\* The token a publisher works under: its own, or the dead one it recovers.
Holds(p) == IF rcv[p] = Absent THEN tok[p] ELSE rcv[p]

Recovering(p) == Busy(p) /\ rcv[p] # Absent

\* Tokens name calls; a recovery is alone, of a dead call; a working publisher
\* works under the token in the lock.
Ownership ==
  /\ lock \in used \cup {Absent, Torn}
  /\ \A p \in Publishers : tok[p] \in used \cup {Absent}
  /\ \A p \in Publishers : Busy(p) => tok[p] # Absent
  /\ \A p, q \in Publishers : tok[p] = tok[q] /\ tok[p] # Absent => p = q
  /\ \A p \in Publishers : Recovering(p) =>
        pc[p] \in {"recover", "dropStale"} \cup Undoing \cup Clearing
  /\ \A p, q \in Publishers : Recovering(p) /\ Busy(q) => tok[q] # rcv[p]
  /\ \A p, q \in Publishers : Recovering(p) /\ Recovering(q) => p = q
  /\ \A p \in Publishers : pc[p] \in {"recover", "dropStale"} => rcv[p] # Absent
  /\ \A p \in Publishers : Working(p) => lock = Holds(p)

-----------------------------------------------------------------------------
\* What the files are under a journal.

\* What makeTransaction writes into a record.
Sound(r) ==
  /\ Config \in r.files /\ r.files \subseteq Owned(r.gen)
  /\ r.obsolete \cap Owned(r.gen) = {}
  /\ \A f \in Paths : r.prev[f] # Foreign

\* The files r leaves alone are those of its generation already.
Around(r) == \A f \in Paths \ Touched(r) : live[f] \in {New(r, f), Foreign}

\* If r replaces a .buckconfig, the files before r were one whole generation.
Origin(r) ==
  r.prev[Config] # Absent =>
    \E h \in Gens : \A f \in Paths :
      IF f \in Touched(r) THEN r.prev[f] = Output[h][f]
                          ELSE live[f] \in {Output[h][f], Foreign}

Before(r, f) == live[f] \in {r.prev[f], Foreign}
Written(r, f) == live[f] \in {New(r, f), Foreign}
Landed(r, f) ==
  live[f] = Foreign \/ (live[f] = New(r, f) /\ Backup(r, f) \in {Absent, r.prev[f]})
Undoable(r, f) == live[f] = Foreign \/ Restorable(r, f)

Clean(t) == \A f \in Paths : cand[t][f] = Absent /\ backup[t][f] = Absent

\* No candidates yet: a recovery has not begun its own publication either.
Early(p) ==
  Busy(p) /\ \/ rcv[p] # Absent
             \/ pc[p] \in {"acquire", "takeLock", "validate", "writeRecord", "linkRecord"}

NoJournal == pending = Absent /\ committed \notin Transaction

Undecided == pending \in Transaction /\ committed \notin Transaction

Fresh ==
  /\ \A t \in Tokens \ used : Clean(t)
  /\ \A p \in Publishers : Early(p) => Clean(tok[p])

PendingOK == pending \in Transaction => lock = pending.token /\ Sound(pending)

UndecidedOK == Undecided =>
  /\ Around(pending) /\ Origin(pending)
  /\ \A f \in Touched(pending) :
       Undoable(pending, f) /\ Cand(pending, f) \in {Absent, New(pending, f), Torn}

CommittedOK == committed \in Transaction =>
  /\ lock = committed.token /\ pending \in {Absent, committed}
  /\ Sound(committed) /\ Around(committed)
  /\ \A f \in Touched(committed) :
       Landed(committed, f) /\ Cand(committed, f) \in {Absent, New(committed, f)}

\* The manifest tells what the other files can be.
Told(h) == \A f \in Paths : Understood(f) \in {Output[h][f], Absent, Foreign}

ManifestOK ==
  /\ Understood(Manifest) = Absent => \A f \in Paths : Understood(f) \in {Absent, Foreign}
  /\ \A h \in Gens : Understood(Manifest) = Output[h][Manifest] => Told(h)

-----------------------------------------------------------------------------
\* What a publisher knows where it is.

Quiet == {"validate", "writeRecord", "linkRecord", "remove", "release", "dropStale"}
Journaled == Publishing \ {"writeRecord", "linkRecord"}

LocalAt(p) ==
  LET r == tx[p] IN
  /\ pc[p] \in Quiet => NoJournal
  /\ pc[p] \in Publishing \cup {"abort"} =>
       r \in Transaction /\ r.token = tok[p] /\ committed \notin Transaction
  /\ pc[p] \in {"writeRecord", "linkRecord"} =>
       Sound(r) /\ Around(r) /\ Origin(r) /\ \A f \in Touched(r) : Before(r, f)
  /\ pc[p] \in Journaled => pending = r
  /\ pc[p] = "abort" => pending \in {Absent, r}
  /\ pc[p] \in Publishing => \A f \in Paths : Cand(r, f) # Torn
  /\ pc[p] \in {"publish", "unconfig", "commit"} =>
       \A f \in Touched(r) \ {Config} : Written(r, f)
  /\ pc[p] \in {"unconfig", "commit"} => Written(r, Config)
  /\ pc[p] \in Clearing \cup {"reread"} => r \in Transaction /\ committed = r
  /\ pc[p] = "forwardCommitted" => pending = Absent
  /\ pc[p] \in Undoing => r \in Transaction /\ pending = r /\ committed \notin Transaction
  /\ pc[p] \in {"backup", "install", "drop"} => todo[p] \subseteq Touched(r) \ {Config}
  /\ pc[p] \in {"rollback", "putBack"} => todo[p] \subseteq Touched(r)
  /\ pc[p] \in {"rollback", "putBack"} => \A f \in Touched(r) \ todo[p] : Before(r, f)
  /\ pc[p] = "putBack" => \A f \in Paths : NextRestored(p, f) => Vacated(r, f)
  /\ pc[p] \in {"scrap", "unpend"} => \A f \in Touched(r) : Before(r, f)
  /\ pc[p] = "remove" =>
       /\ r \in Transaction /\ todo[p] \subseteq Owned(r.gen)
       /\ \A f \in Owned(r.gen) \ todo[p] : live[f] \in {Absent, Foreign}

IInv ==
  /\ TypeOK /\ Ownership
  /\ Fresh /\ PendingOK /\ UndecidedOK /\ CommittedOK /\ ManifestOK
  /\ \A p \in Publishers : LocalAt(p)

-----------------------------------------------------------------------------
\* Types of records and files.

LEMMA RecordType ==
  ASSUME NEW r \in Transaction
  PROVE  /\ r.token \in Tokens /\ r.gen \in Gens
         /\ r.files \subseteq Paths /\ r.obsolete \subseteq Paths
         /\ r.prev \in [Paths -> File] /\ Touched(r) \subseteq Paths
         /\ r # Absent /\ r # Torn
BY JournalAssumption DEF Transaction, Touched

LEMMA OutputType ==
  ASSUME NEW g \in Gens, NEW f \in Paths
  PROVE  /\ Output[g][f] \in Contents \cup {Absent}
         /\ Output[g][f] # Foreign /\ Output[g][f] # Torn
         /\ f \in Owned(g) <=> Output[g][f] # Absent
         /\ Config \in Owned(g) /\ Manifest \in Owned(g)
BY PublisherAssumption DEF Owned

LEMMA NewType ==
  ASSUME NEW r \in Transaction, NEW f \in Paths
  PROVE  New(r, f) \in Contents \cup {Absent} /\ New(r, f) # Foreign /\ New(r, f) # Torn
BY RecordType, OutputType DEF New

LEMMA MakeType ==
  ASSUME TypeOK, NEW t \in Tokens, NEW g \in Gens, NEW o \in SUBSET Paths
  PROVE  MakeTransaction(t, g, o) \in Transaction
<1> DEFINE files == {f \in Owned(g) : live[f] # Output[g][f]} \cup {Config}
<1> DEFINE prev == [f \in Paths |-> IF f \in files \cup o THEN live[f] ELSE Absent]
<1>1. files \in SUBSET Paths
  BY PublisherAssumption DEF Owned
<1>2. prev \in [Paths -> File]
  BY DEF TypeOK, File
<1>3. MakeTransaction(t, g, o) =
        [token |-> t, gen |-> g, files |-> files, obsolete |-> o, prev |-> prev]
  BY DEF MakeTransaction
<1> HIDE DEF files, prev
<1> QED BY <1>1, <1>2, <1>3 DEF Transaction

\* A publisher has its transaction wherever a step uses it.
Armed == Publishing \cup Undoing \cup Clearing \cup {"abort", "reread", "remove"}

LEMMA HasRecord ==
  ASSUME IInv, NEW p \in Publishers, pc[p] \in Armed
  PROVE  tx[p] \in Transaction
BY DEF IInv, LocalAt, Armed, Publishing, Undoing, Clearing

LEMMA Working0 ==
  ASSUME IInv, NEW p \in Publishers, Working(p)
  PROVE  /\ lock = Holds(p) /\ lock \in Tokens /\ lock \in used
         /\ \A q \in Publishers : q # p => ~ Working(q)
<1>1. \A q \in Publishers : Working(q) => lock = Holds(q) /\ lock \in used
  BY PublisherAssumption DEF IInv, TypeOK, Ownership, Working, Busy, Holds
<1>2. \A q \in Publishers : Working(q) => Busy(q)
  BY DEF Working, Busy
<1>3. ASSUME NEW q \in Publishers, Working(q) PROVE q = p
  BY <1>1, <1>2, <1>3 DEF IInv, Ownership, Holds, Recovering
<1> QED BY <1>1, <1>3 DEF IInv, TypeOK

\* At most one publisher works at a time, as the invariant says it.
LEMMA Exclusion == IInv => OnePublisher
BY Working0 DEF OnePublisher

LEMMA InitInv == Init => IInv
<1> SUFFICES ASSUME Init PROVE IInv
  OBVIOUS
<1>1. TypeOK
  BY DEF Init, TypeOK, File, Labels
<1>2. Ownership
  BY DEF Init, Ownership, Busy, Recovering, Working
<1>3. Fresh
  BY DEF Init, Fresh, Clean, Early, Busy
<1>4. PendingOK /\ UndecidedOK /\ CommittedOK
  BY JournalAssumption DEF Init, PendingOK, UndecidedOK, CommittedOK, Undecided
<1>5. ManifestOK
  BY JournalAssumption, OutputType, PublisherAssumption DEF Init, ManifestOK, Understood, Told
<1>6. \A p \in Publishers : LocalAt(p)
  BY DEF Init, LocalAt, Publishing, Undoing, Clearing, Quiet, Journaled
<1> QED BY <1>1, <1>2, <1>3, <1>4, <1>5, <1>6 DEF IInv

-----------------------------------------------------------------------------
\* Types are preserved.

LEMMA SetLiveType ==
  ASSUME TypeOK, NEW f \in Paths, NEW c \in File, SetLive(f, c)
  PROVE  live' \in [Paths -> File]
BY DEF TypeOK, SetLive

LEMMA SetCandType ==
  ASSUME TypeOK, NEW r \in Transaction, NEW f \in Paths,
         NEW c \in Contents \cup {Absent, Torn}, SetCand(r, f, c)
  PROVE  cand' \in [Tokens -> [Paths -> Contents \cup {Absent, Torn}]]
BY RecordType DEF TypeOK, SetCand

LEMMA SetBackupType ==
  ASSUME TypeOK, NEW r \in Transaction, NEW f \in Paths, NEW c \in File, SetBackup(r, f, c)
  PROVE  backup' \in [Tokens -> [Paths -> File]]
BY RecordType DEF TypeOK, SetBackup

LEMMA PcType ==
  ASSUME TypeOK, NEW p \in Publishers, NEW l \in Labels, Goto(p, l)
  PROVE  pc' \in [Publishers -> Labels]
BY DEF TypeOK, Goto

LEMMA LeftType ==
  ASSUME TypeOK, NEW p \in Publishers, NEW S \in SUBSET Paths, Left(p, S)
  PROVE  todo' \in [Publishers -> SUBSET Paths]
BY DEF TypeOK, Left

LEMMA BackupType ==
  ASSUME TypeOK, NEW r \in Transaction, NEW f \in Paths
  PROVE  Backup(r, f) \in File
BY RecordType DEF TypeOK, Backup

LEMMA TypeOfLockSteps ==
  ASSUME IInv, NEW p \in Publishers,
         \/ Start(p) \/ Acquire(p) \/ DropStale(p) \/ TakeLock(p) \/ Release(p)
         \/ WriteRecord(p) \/ LinkRecord(p) \/ Throws(p) \/ Dies(p)
  PROVE  TypeOK'
<1> USE DEF TypeOK, Labels, Publishing, Undoing, Clearing, Goto, At, disk
<1>1. CASE Start(p)
  BY <1>1 DEF Start, Left, IInv
<1>2. CASE Acquire(p)
  BY <1>2 DEF Acquire, IInv
<1>3. CASE DropStale(p)
  BY <1>3 DEF DropStale, IInv
<1>4. CASE TakeLock(p)
  <2>1. tok[p] \in Tokens
    BY <1>4 DEF TakeLock, IInv, Ownership, Busy
  <2> QED BY <1>4, <2>1 DEF TakeLock, IInv
<1>5. CASE Release(p)
  BY <1>5 DEF Release, IInv
<1>6. CASE WriteRecord(p)
  <2>1. tx[p] \in Transaction
    BY <1>6, HasRecord DEF WriteRecord, Armed
  <2> QED BY <1>6, <2>1 DEF WriteRecord, BreaksOff, IInv
<1>7. CASE LinkRecord(p)
  <2>1. tx[p] \in Transaction
    BY <1>7, HasRecord DEF LinkRecord, Armed
  <2> QED BY <1>7, <2>1 DEF LinkRecord, IInv
<1>8. CASE Throws(p)
  BY <1>8 DEF Throws, IInv
<1>9. CASE Dies(p)
  BY <1>9 DEF Dies, IInv
<1> QED BY <1>1, <1>2, <1>3, <1>4, <1>5, <1>6, <1>7, <1>8, <1>9

LEMMA TypeOfRecordSteps ==
  ASSUME IInv, NEW p \in Publishers,
         \/ DropRecord(p) \/ Withdraw(p) \/ AssertDesiredRoot(p) \/ PublishConfig(p)
         \/ DropConfig(p) \/ Commit(p) \/ Reread(p) \/ ForwardPending(p) \/ ForwardCommitted(p)
         \/ Restored(p) \/ Unpend(p)
  PROVE  TypeOK'
<1> USE DEF Labels, Publishing, Undoing, Clearing, Goto, At, disk
<1>0. pc[p] \in Armed /\ TypeOK /\ Config \in Paths
  BY PublisherAssumption
  DEF IInv, Armed, DropRecord, Withdraw, AssertDesiredRoot, PublishConfig, LinkCandidate, DropConfig,
      Commit, Reread, ForwardPending, ForwardCommitted, Restored, Unpend
<1>1. tx[p] \in Transaction
  BY <1>0, HasRecord
<1>2. /\ Touched(tx[p]) \in SUBSET Paths /\ tx[p].files \in SUBSET Paths
      /\ New(tx[p], Config) \in Contents \cup {Absent}
      /\ New(tx[p], Config) \in File
  BY <1>0, <1>1, RecordType, NewType DEF File
<1>3. CASE DropRecord(p)
  BY <1>0, <1>2, <1>3 DEF DropRecord, Left, TypeOK
<1>4. CASE Withdraw(p)
  <2>1. ASSUME MovePrevious(p, Config)
        PROVE  live' \in [Paths -> File] /\ backup' \in [Tokens -> [Paths -> File]]
    <3>1. live[Config] \in File /\ Absent \in File
      BY <1>0 DEF TypeOK, File
    <3>2. CASE tx[p].prev[Config] = Absent
      BY <1>0, <2>1, <3>2 DEF MovePrevious, TypeOK
    <3>3. CASE tx[p].prev[Config] # Absent
      BY <1>0, <1>1, <2>1, <3>1, <3>3, SetLiveType, SetBackupType DEF MovePrevious
    <3> QED BY <3>2, <3>3
  <2>2. CASE MoveRefused(p, Config)
    BY <1>0, <1>4, <2>2 DEF Withdraw, MoveRefused, TypeOK
  <2>3. CASE MovePrevious(p, Config) /\ Left(p, Touched(tx[p]) \ {Config}) /\ Goto(p, "backup")
    BY <1>0, <1>2, <1>4, <2>1, <2>3 DEF Withdraw, Left, TypeOK
  <2> QED BY <1>4, <2>2, <2>3 DEF Withdraw
<1>5. CASE AssertDesiredRoot(p)
  BY <1>0, <1>5 DEF AssertDesiredRoot, TypeOK
<1>6. CASE PublishConfig(p)
  <2>1. live' \in [Paths -> File]
    BY <1>0, <1>2, <1>6, SetLiveType DEF PublishConfig, LinkCandidate, TypeOK
  <2> QED BY <1>0, <1>6, <2>1 DEF PublishConfig, LinkCandidate, TypeOK
<1>7. CASE DropConfig(p)
  <2>1. cand' \in [Tokens -> [Paths -> Contents \cup {Absent, Torn}]]
    BY <1>0, <1>1, <1>7, SetCandType DEF DropConfig
  <2> QED BY <1>0, <1>7, <2>1 DEF DropConfig, TypeOK
<1>8. CASE Commit(p)
  BY <1>0, <1>1, <1>8 DEF Commit, BreaksOff, TypeOK
<1>9. CASE Reread(p)
  BY <1>0, <1>2, <1>9 DEF Reread, Left, TypeOK
<1>10. CASE ForwardPending(p)
  BY <1>0, <1>10 DEF ForwardPending, TypeOK
<1>11. CASE ForwardCommitted(p)
  BY <1>0, <1>11 DEF ForwardCommitted, Done, TypeOK
<1>12. CASE Restored(p)
  BY <1>0, <1>2, <1>12 DEF Restored, Left, TypeOK
<1>13. CASE Unpend(p)
  BY <1>0, <1>13 DEF Unpend, Done, TypeOK
<1> QED
  BY <1>3, <1>4, <1>5, <1>6, <1>7, <1>8, <1>9, <1>10, <1>11, <1>12, <1>13

LEMMA TypeOfRecordReads ==
  ASSUME IInv, NEW p \in Publishers,
         Recover(p) \/ Validate(p) \/ Abort(p) \/ ValidateTeardown(p)
  PROVE  TypeOK'
<1> USE DEF IInv, Labels, Publishing, Undoing, Clearing, Goto, At, disk, Left
<1>1. CASE Recover(p)
  <2>1. \A r \in Transaction : Touched(r) \in SUBSET Paths
    BY RecordType
  <2>2. pc' \in [Publishers -> Labels]
    BY <1>1 DEF Recover, TypeOK
  <2>3. tx' \in [Publishers -> Transaction \cup {Absent}]
    BY <1>1 DEF Recover, TypeOK
  <2>4. todo' \in [Publishers -> SUBSET Paths]
    <3> HIDE DEF Left
    <3>1. UNCHANGED todo \/ \E S \in SUBSET Paths : Left(p, S)
      BY <1>1, <2>1 DEF Recover, TypeOK
    <3> QED BY <3>1, LeftType DEF TypeOK
  <2>5. recCand' \in [Tokens -> Transaction \cup {Absent, Torn}]
    BY <1>1 DEF Recover, TypeOK
  <2> HIDE DEF Labels, Goto, Left
  <2> QED BY <1>1, <2>2, <2>3, <2>4, <2>5 DEF Recover, TypeOK
<1>2. CASE Validate(p)
  <2>1. tok[p] \in Tokens /\ job[p] \in Gens
    BY <1>2 DEF Validate, Ownership, Busy, TypeOK
  <2>2. pc' \in [Publishers -> Labels]
    BY <1>2 DEF Validate, TypeOK
  <2>3. \A o \in SUBSET Paths : MakeTransaction(tok[p], job[p], o) \in Transaction
    BY <2>1, MakeType
  <2>4. tx' \in [Publishers -> Transaction \cup {Absent}]
    <3>1. tx' = tx \/ \E r \in Transaction : tx' = [tx EXCEPT ![p] = r]
      BY <1>2, <2>3 DEF Validate
    <3>2. tx \in [Publishers -> Transaction \cup {Absent}]
      BY DEF TypeOK
    <3> QED BY <3>1, <3>2
  <2> HIDE DEF Labels, Goto
  <2> QED BY <1>2, <2>2, <2>4 DEF Validate, TypeOK
<1>3. CASE Abort(p)
  <2>1. \A r \in Transaction : Touched(r) \in SUBSET Paths
    BY RecordType
  <2>2. recCand' \in [Tokens -> Transaction \cup {Absent, Torn}]
    BY <1>3 DEF Abort, TypeOK
  <2>3. pc' \in [Publishers -> Labels]
    BY <1>3 DEF Abort, TypeOK
  <2>4. tx' \in [Publishers -> Transaction \cup {Absent}]
    BY <1>3 DEF Abort, TypeOK
  <2>5. todo' \in [Publishers -> SUBSET Paths]
    <3> HIDE DEF Left
    <3>1. UNCHANGED todo \/ \E S \in SUBSET Paths : Left(p, S)
      BY <1>3, <2>1 DEF Abort, TypeOK
    <3> QED BY <3>1, LeftType DEF TypeOK
  <2> HIDE DEF Labels, Goto, Left
  <2> QED BY <1>3, <2>2, <2>3, <2>4, <2>5 DEF Abort, TypeOK
<1>4. CASE ValidateTeardown(p)
  <2>1. tok[p] \in Tokens /\ \A h \in Gens : Owned(h) \in SUBSET Paths
    BY <1>4 DEF ValidateTeardown, Ownership, Busy, TypeOK, Owned
  <2>2. ASSUME NEW h \in Gens
        PROVE  [MakeTransaction(tok[p], h, {}) EXCEPT !.files = Owned(h)] \in Transaction
    <3>1. MakeTransaction(tok[p], h, {}) \in Transaction
      BY <2>1, MakeType
    <3> QED BY <2>1, <3>1 DEF Transaction
  <2>3. tx' \in [Publishers -> Transaction \cup {Absent}]
    BY <1>4, <2>2 DEF ValidateTeardown, TypeOK
  <2>4. pc' \in [Publishers -> Labels]
    BY <1>4 DEF ValidateTeardown, TypeOK
  <2>5. todo' \in [Publishers -> SUBSET Paths]
    <3> HIDE DEF Left
    <3>1. UNCHANGED todo \/ \E S \in SUBSET Paths : Left(p, S)
      BY <1>4, <2>1 DEF ValidateTeardown, TypeOK
    <3> QED BY <3>1, LeftType DEF TypeOK
  <2> HIDE DEF Labels, Goto, Left
  <2> QED BY <1>4, <2>3, <2>4, <2>5 DEF ValidateTeardown, TypeOK
<1> QED BY <1>1, <1>2, <1>3, <1>4

LEMMA TypeOfFileSteps ==
  ASSUME IInv, NEW p \in Publishers, NEW f \in Paths, FileStep(p, f)
  PROVE  TypeOK'
<1> USE DEF Labels, Publishing, Undoing, Clearing, Goto, At, disk
<1>0. pc[p] \in Armed /\ TypeOK
  BY DEF IInv, Armed, FileStep, Stage, MoveAway, Install, Drop, Forward, Restore, PutBack, Scrap,
         RemoveFile
<1>1. tx[p] \in Transaction
  BY <1>0, HasRecord
<1>2. /\ New(tx[p], f) \in Contents \cup {Absent} /\ New(tx[p], f) \in File
      /\ Absent \in File /\ Backup(tx[p], f) \in File /\ live[f] \in File
      /\ todo[p] \ {f} \in SUBSET Paths
  BY <1>0, <1>1, NewType, BackupType DEF File, TypeOK
<1>3. CASE Stage(p, f)
  <2>1. cand' \in [Tokens -> [Paths -> Contents \cup {Absent, Torn}]]
    BY <1>0, <1>1, <1>2, <1>3, SetCandType DEF Stage
  <2>2. pc' \in [Publishers -> Labels]
    BY <1>0, <1>3 DEF Stage, BreaksOff, TypeOK
  <2>3. todo' \in [Publishers -> SUBSET Paths]
    BY <1>0, <1>2, <1>3 DEF Stage, Left, TypeOK
  <2> HIDE DEF Labels, Goto
  <2> QED BY <1>0, <1>3, <2>1, <2>2, <2>3 DEF Stage, TypeOK
<1>4. CASE MoveAway(p, f)
  <2>1. live' \in [Paths -> File] /\ backup' \in [Tokens -> [Paths -> File]]
    BY <1>0, <1>1, <1>2, <1>4, SetLiveType, SetBackupType
    DEF MoveAway, MovePrevious, MoveRefused, TypeOK
  <2> QED BY <1>0, <1>2, <1>4, <2>1 DEF MoveAway, MoveRefused, Left, TypeOK
<1>5. CASE Install(p, f)
  <2>1. live' \in [Paths -> File]
    BY <1>0, <1>2, <1>5, SetLiveType DEF Install, LinkCandidate, TypeOK
  <2> QED BY <1>0, <1>5, <2>1 DEF Install, LinkCandidate, TypeOK
<1>6. CASE Drop(p, f)
  <2>1. cand' \in [Tokens -> [Paths -> Contents \cup {Absent, Torn}]]
    BY <1>0, <1>1, <1>6, SetCandType DEF Drop
  <2> QED BY <1>0, <1>2, <1>6, <2>1 DEF Drop, Left, TypeOK
<1>7. CASE Forward(p, f)
  <2>1. /\ cand' \in [Tokens -> [Paths -> Contents \cup {Absent, Torn}]]
        /\ backup' \in [Tokens -> [Paths -> File]]
    BY <1>0, <1>1, <1>2, <1>7, SetCandType, SetBackupType DEF Forward, TypeOK
  <2> QED BY <1>0, <1>2, <1>7, <2>1 DEF Forward, Left, TypeOK
<1>8. CASE Restore(p, f)
  <2>1. live' \in [Paths -> File] /\ backup' \in [Tokens -> [Paths -> File]]
    BY <1>0, <1>1, <1>2, <1>8, SetLiveType, SetBackupType DEF Restore, TypeOK
  <2> QED BY <1>0, <1>2, <1>8, <2>1 DEF Restore, Left, TypeOK
<1>9. CASE PutBack(p, f)
  <2>1. live' \in [Paths -> File] /\ backup' \in [Tokens -> [Paths -> File]]
    BY <1>0, <1>1, <1>2, <1>9, SetLiveType, SetBackupType DEF PutBack
  <2> QED BY <1>0, <1>2, <1>9, <2>1 DEF PutBack, Left, TypeOK
<1>10. CASE Scrap(p, f)
  <2>1. cand' \in [Tokens -> [Paths -> Contents \cup {Absent, Torn}]]
    BY <1>0, <1>1, <1>10, SetCandType DEF Scrap, TypeOK
  <2>2. pc' \in [Publishers -> Labels]
    BY <1>0, <1>10 DEF Scrap, BreaksOff, TypeOK
  <2>3. todo' \in [Publishers -> SUBSET Paths]
    BY <1>0, <1>2, <1>10 DEF Scrap, Left, TypeOK
  <2> HIDE DEF Labels, Goto
  <2> QED BY <1>0, <1>10, <2>1, <2>2, <2>3 DEF Scrap, TypeOK
<1>11. CASE RemoveFile(p, f)
  <2>1. live' \in [Paths -> File]
    BY <1>0, <1>2, <1>11, SetLiveType DEF RemoveFile, TypeOK
  <2>2. pc' \in [Publishers -> Labels]
    BY <1>0, <1>11 DEF RemoveFile, BreaksOff, TypeOK
  <2>3. todo' \in [Publishers -> SUBSET Paths]
    BY <1>0, <1>2, <1>11 DEF RemoveFile, Left, TypeOK
  <2> HIDE DEF Labels, Goto
  <2> QED BY <1>0, <1>11, <2>1, <2>2, <2>3 DEF RemoveFile, TypeOK
<1> QED BY <1>3, <1>4, <1>5, <1>6, <1>7, <1>8, <1>9, <1>10, <1>11 DEF FileStep

LEMMA TypeOfEdit ==
  ASSUME IInv, NEW f \in Paths, Edit(f)
  PROVE  TypeOK'
BY SetLiveType DEF IInv, Edit, TypeOK, File, SetLive

LEMMA TypeStep ==
  ASSUME IInv, [Next]_vars
  PROVE  TypeOK'
<1>1. ASSUME NEW p \in Publishers, Step(p) PROVE TypeOK'
  BY <1>1, TypeOfLockSteps, TypeOfRecordSteps, TypeOfRecordReads DEF Step
<1>2. ASSUME NEW p \in Publishers, NEW f \in Paths, FileStep(p, f) PROVE TypeOK'
  BY <1>2, TypeOfFileSteps
<1>3. CASE UNCHANGED vars
  BY <1>3 DEF vars, IInv, TypeOK
<1> QED BY <1>1, <1>2, <1>3, TypeOfEdit DEF Next

-----------------------------------------------------------------------------
\* Ownership is preserved.

\* A step inside a call or a recovery, or the end of one, that leaves the lock alone.
Inner(p, l) ==
  /\ Goto(p, l) /\ UNCHANGED <<lock, used, tok, rcv>>
  /\ Busy(p) /\ l \in Labels
  /\ l # "idle" =>
       /\ Working(p) /\ l \notin {"acquire", "takeLock", "recover", "validate"}
       /\ l \in {"writeRecord", "linkRecord"} => pc[p] \in {"validate", "writeRecord"}
       /\ rcv[p] # Absent => l \in {"dropStale"} \cup Undoing \cup Clearing
       /\ l = "dropStale" => rcv[p] # Absent

LEMMA InnerOwnership ==
  ASSUME IInv, NEW p \in Publishers, NEW l, Inner(p, l)
  PROVE  Ownership'
<1>1. /\ \A q \in Publishers : pc'[q] = IF q = p THEN l ELSE pc[q]
      /\ lock' = lock /\ used' = used /\ tok' = tok /\ rcv' = rcv
  BY DEF Inner, Goto, IInv, TypeOK
<1>2. /\ \A q \in Publishers : Busy(q)' => Busy(q)
      /\ \A q \in Publishers : Working(q)' => Working(q)
      /\ \A q \in Publishers : Recovering(q)' => Recovering(q)
  BY <1>1 DEF Inner, Busy, Working, Recovering
<1>3. \A q \in Publishers : Recovering(q)' =>
        pc'[q] \in {"recover", "dropStale"} \cup Undoing \cup Clearing
  BY <1>1, <1>2 DEF Inner, IInv, Ownership, Recovering, Busy
<1>4. \A q \in Publishers : pc'[q] \in {"recover", "dropStale"} => rcv'[q] # Absent
  BY <1>1 DEF Inner, IInv, Ownership
<1>5. \A q \in Publishers : Working(q)' => lock' = Holds(q)'
  BY <1>1, <1>2 DEF IInv, Ownership, Holds
<1>6. /\ \A q, o \in Publishers : Recovering(q)' /\ Busy(o)' => tok'[o] # rcv'[q]
      /\ \A q, o \in Publishers : Recovering(q)' /\ Recovering(o)' => q = o
      /\ \A q \in Publishers : Busy(q)' => tok'[q] # Absent
  BY <1>1, <1>2 DEF IInv, Ownership
<1>7. /\ lock' \in used' \cup {Absent, Torn}
      /\ \A q \in Publishers : tok'[q] \in used' \cup {Absent}
      /\ \A q, o \in Publishers : tok'[q] = tok'[o] /\ tok'[q] # Absent => q = o
  BY <1>1 DEF IInv, Ownership
<1> QED BY <1>3, <1>4, <1>5, <1>6, <1>7 DEF Ownership

\* The steps that hand out a token, take the lock or let it go.
Locking(p) == Start(p) \/ Acquire(p) \/ DropStale(p) \/ TakeLock(p) \/ Release(p)

LEMMA StepsAreInner ==
  ASSUME IInv, NEW p \in Publishers, ~ Locking(p),
         Step(p) \/ \E f \in Paths : FileStep(p, f)
  PROVE  \E l \in Labels : Inner(p, l)
<1> USE DEF Goto, At, Labels, Publishing, Undoing, Clearing, Inner, Busy, Working, Recovering
<1>0. pc[p] \in {"abort", "reread", "remove", "validate"} \cup Publishing => rcv[p] = Absent
  BY DEF IInv, Ownership
<1>1. CASE Recover(p)
  BY <1>1 DEF Recover, IInv, Ownership
<1>2. CASE Validate(p) \/ ValidateTeardown(p)
  BY <1>0, <1>2 DEF Validate, ValidateTeardown, disk
<1>3. CASE WriteRecord(p) \/ LinkRecord(p) \/ DropRecord(p)
  BY <1>0, <1>3 DEF WriteRecord, LinkRecord, DropRecord, BreaksOff
<1>4. CASE Withdraw(p) \/ AssertDesiredRoot(p)
  BY <1>0, <1>4 DEF Withdraw, MoveRefused, AssertDesiredRoot, disk
<1>5. CASE PublishConfig(p) \/ DropConfig(p)
  BY <1>0, <1>5 DEF PublishConfig, LinkCandidate, DropConfig
<1>6. CASE Commit(p) \/ Reread(p)
  BY <1>0, <1>6 DEF Commit, BreaksOff, Reread, disk
<1>7. CASE ForwardPending(p) \/ ForwardCommitted(p) \/ Unpend(p)
  BY <1>7 DEF ForwardPending, ForwardCommitted, Unpend, Done
<1>8. CASE Abort(p) \/ Restored(p)
  BY <1>0, <1>8 DEF Abort, Restored, disk
<1>9. CASE Throws(p)
  BY <1>0, <1>9 DEF Throws, disk
<1>10. CASE Dies(p)
  BY <1>10 DEF Dies, disk
<1>11. ASSUME NEW f \in Paths, FileStep(p, f)
       PROVE  \E l \in Labels : Inner(p, l)
  <2>1. CASE Stage(p, f)
    BY <1>0, <2>1 DEF Stage, BreaksOff
  <2>2. CASE MoveAway(p, f)
    <3>1. Inner(p, pc[p]) \/ Inner(p, "install") \/ Inner(p, "abort")
      BY <1>0, <2>2 DEF MoveAway, MoveRefused, IInv, TypeOK
    <3> QED BY <3>1
  <2>3. CASE Install(p, f) \/ Drop(p, f)
    BY <1>0, <2>3 DEF Install, LinkCandidate, Drop
  <2>4. CASE Forward(p, f)
    <3>1. Inner(p, pc[p]) \/ Inner(p, "idle")
      BY <2>4 DEF Forward, IInv, TypeOK
    <3> QED BY <3>1
  <2>5. CASE Restore(p, f)
    <3>1. Inner(p, pc[p]) \/ Inner(p, "putBack") \/ Inner(p, "idle")
      BY <2>5 DEF Restore, IInv, TypeOK
    <3> QED BY <3>1
  <2>6. CASE PutBack(p, f)
    BY <2>6 DEF PutBack
  <2>7. CASE Scrap(p, f)
    BY <2>7 DEF Scrap
  <2>8. CASE RemoveFile(p, f)
    BY <1>0, <2>8 DEF RemoveFile
  <2> QED BY <1>11, <2>1, <2>2, <2>3, <2>4, <2>5, <2>6, <2>7, <2>8 DEF FileStep
<1> QED
  BY <1>1, <1>2, <1>3, <1>4, <1>5, <1>6, <1>7, <1>8, <1>9, <1>10, <1>11 DEF Step, Locking

LEMMA LockingOwnership ==
  ASSUME IInv, ~ Overlap, NEW p \in Publishers, Locking(p)
  PROVE  Ownership'
<1> USE DEF Goto, At, Busy, Working, Recovering, Holds
<1>0. Ownership /\ TypeOK
  BY DEF IInv
<1>1. CASE Start(p)
  <2>1. PICK t \in Tokens \ used : used' = used \cup {t} /\ tok' = [tok EXCEPT ![p] = t]
    BY <1>1 DEF Start
  <2>2. /\ \A q \in Publishers : /\ tok'[q] = IF q = p THEN t ELSE tok[q]
                                 /\ pc'[q] = IF q = p THEN "acquire" ELSE pc[q]
                                 /\ rcv'[q] = IF q = p THEN Absent ELSE rcv[q]
        /\ lock' = lock /\ t # Absent
    BY <1>0, <1>1, <2>1, PublisherAssumption DEF Start, disk, TypeOK
  <2>7. \A q \in Publishers : Recovering(q) => rcv[q] \in used
    <3>1. ASSUME NEW q \in Publishers, Recovering(q) PROVE Working(q)
      BY <1>0, <3>1 DEF Ownership, Undoing, Clearing
    <3>2. ASSUME NEW q \in Publishers, Recovering(q) PROVE lock = rcv[q] /\ rcv[q] \in Tokens
      BY <1>0, <3>1, <3>2 DEF Ownership, TypeOK
    <3> QED BY <1>0, <3>2, PublisherAssumption DEF Ownership
  <2>3. /\ lock' \in used' \cup {Absent, Torn}
        /\ \A q \in Publishers : tok'[q] \in used' \cup {Absent}
        /\ \A q \in Publishers : Busy(q)' => tok'[q] # Absent
    BY <1>0, <2>1, <2>2, <2>7 DEF Ownership
  <2>4. /\ \A q, o \in Publishers : tok'[q] = tok'[o] /\ tok'[q] # Absent => q = o
        /\ \A q \in Publishers : pc'[q] \in {"recover", "dropStale"} => rcv'[q] # Absent
    BY <1>0, <2>1, <2>2, <2>7 DEF Ownership
  <2>5. /\ \A q \in Publishers : Recovering(q)' =>
              pc'[q] \in {"recover", "dropStale"} \cup Undoing \cup Clearing
        /\ \A q, o \in Publishers : Recovering(q)' /\ Busy(o)' => tok'[o] # rcv'[q]
        /\ \A q, o \in Publishers : Recovering(q)' /\ Recovering(o)' => q = o
    BY <1>0, <2>1, <2>2, <2>7 DEF Ownership
  <2>6. \A q \in Publishers : Working(q)' => lock' = Holds(q)'
    BY <1>0, <2>1, <2>2, <2>7 DEF Ownership
  <2> QED BY <2>3, <2>4, <2>5, <2>6 DEF Ownership
<1>2. CASE Acquire(p)
  <2>1. rcv[p] = Absent /\ tok[p] # Absent
    BY <1>0, <1>2 DEF Acquire, Ownership, Undoing, Clearing
  <2>2. CASE Goto(p, "takeLock") /\ UNCHANGED <<rcv, lock, used, tok>> /\ Acquire(p)
    BY <1>0, <2>1, <2>2 DEF Acquire, Ownership, TypeOK
  <2>3. CASE Goto(p, "idle") /\ UNCHANGED <<rcv, lock, used, tok>>
    BY <1>0, <2>1, <2>3 DEF Ownership, TypeOK
  <2>4. CASE /\ lock \in Tokens /\ Dead(lock)
             /\ \A q \in Publishers : pc[q] # "idle" => rcv[q] = Absent
             /\ rcv' = [rcv EXCEPT ![p] = lock] /\ Goto(p, "recover")
             /\ UNCHANGED <<lock, used, tok>> /\ pc[p] = "acquire"
    BY <1>0, <2>1, <2>4, PublisherAssumption DEF Ownership, TypeOK, Dead
  <2> QED BY <1>2, <2>2, <2>3, <2>4 DEF Acquire, disk
<1>3. CASE DropStale(p)
  <2>1. \A q \in Publishers : q # p => ~ Working(q)
    BY <1>3, Working0 DEF DropStale
  <2>2. PICK l \in {"takeLock", "idle"} :
          /\ \A q \in Publishers : /\ pc'[q] = IF q = p THEN l ELSE pc[q]
                                   /\ rcv'[q] = IF q = p /\ l = "takeLock" THEN Absent ELSE rcv[q]
          /\ tok' = tok /\ used' = used /\ lock' \in {lock, Absent}
          /\ pc[p] # "idle"
    BY <1>0, <1>3 DEF DropStale, TypeOK
  <2>3. /\ lock' \in used' \cup {Absent, Torn}
        /\ \A q \in Publishers : tok'[q] \in used' \cup {Absent}
        /\ \A q \in Publishers : Busy(q)' => tok'[q] # Absent
    BY <1>0, <2>1, <2>2 DEF Ownership
  <2>4. /\ \A q, o \in Publishers : tok'[q] = tok'[o] /\ tok'[q] # Absent => q = o
        /\ \A q \in Publishers : pc'[q] \in {"recover", "dropStale"} => rcv'[q] # Absent
    BY <1>0, <2>1, <2>2 DEF Ownership
  <2>5. /\ \A q \in Publishers : Recovering(q)' =>
              pc'[q] \in {"recover", "dropStale"} \cup Undoing \cup Clearing
        /\ \A q, o \in Publishers : Recovering(q)' /\ Busy(o)' => tok'[o] # rcv'[q]
        /\ \A q, o \in Publishers : Recovering(q)' /\ Recovering(o)' => q = o
    BY <1>0, <2>1, <2>2 DEF Ownership
  <2>6. \A q \in Publishers : Working(q)' => lock' = Holds(q)'
    BY <1>0, <2>1, <2>2 DEF Ownership
  <2> QED BY <2>3, <2>4, <2>5, <2>6 DEF Ownership
<1>4. CASE TakeLock(p)
  <2>1. rcv[p] = Absent /\ tok[p] # Absent
    BY <1>0, <1>4 DEF TakeLock, Ownership, Undoing, Clearing
  <2>2. lock = Absent => \A q \in Publishers : ~ Working(q)
    BY PublisherAssumption, Working0
  <2>3. PICK l \in {"validate", "idle"} :
          /\ \A q \in Publishers : pc'[q] = IF q = p THEN l ELSE pc[q]
          /\ tok' = tok /\ used' = used /\ rcv' = rcv /\ pc[p] = "takeLock"
          /\ \/ l = "validate" /\ lock = Absent /\ lock' = tok[p]
             \/ l = "idle" /\ lock = Absent /\ lock' = Torn
             \/ l = "idle" /\ lock' = lock
    BY <1>0, <1>4 DEF TakeLock, TypeOK
  <2>4. /\ lock' \in used' \cup {Absent, Torn}
        /\ \A q \in Publishers : tok'[q] \in used' \cup {Absent}
        /\ \A q \in Publishers : Busy(q)' => tok'[q] # Absent
    BY <1>0, <2>1, <2>2, <2>3 DEF Ownership
  <2>5. /\ \A q, o \in Publishers : tok'[q] = tok'[o] /\ tok'[q] # Absent => q = o
        /\ \A q \in Publishers : pc'[q] \in {"recover", "dropStale"} => rcv'[q] # Absent
    BY <1>0, <2>1, <2>2, <2>3 DEF Ownership
  <2>6. /\ \A q \in Publishers : Recovering(q)' =>
              pc'[q] \in {"recover", "dropStale"} \cup Undoing \cup Clearing
        /\ \A q, o \in Publishers : Recovering(q)' /\ Busy(o)' => tok'[o] # rcv'[q]
        /\ \A q, o \in Publishers : Recovering(q)' /\ Recovering(o)' => q = o
    BY <1>0, <2>1, <2>2, <2>3 DEF Ownership
  <2>7. \A q \in Publishers : Working(q)' => lock' = Holds(q)'
    BY <1>0, <2>1, <2>2, <2>3 DEF Ownership
  <2> QED BY <2>4, <2>5, <2>6, <2>7 DEF Ownership
<1>5. CASE Release(p)
  <2>1. \A q \in Publishers : q # p => ~ Working(q)
    BY <1>5, Working0 DEF Release
  <2> QED BY <1>0, <1>5, <2>1 DEF Release, Ownership, TypeOK
<1> QED BY <1>1, <1>2, <1>3, <1>4, <1>5 DEF Locking

LEMMA OwnershipStep ==
  ASSUME IInv, ~ Overlap, [Next]_vars
  PROVE  Ownership'
<1>1. ASSUME NEW p \in Publishers, Step(p) \/ \E f \in Paths : FileStep(p, f)
      PROVE  Ownership'
  BY <1>1, StepsAreInner, InnerOwnership, LockingOwnership
<1>2. CASE UNCHANGED <<lock, used, tok, rcv, pc>>
  BY <1>2 DEF IInv, Ownership, Working, Busy, Recovering, Holds
<1> QED BY <1>1, <1>2 DEF Next, Edit, vars

-----------------------------------------------------------------------------
\* Frames: what a step has to show when it changes little.

\* The files are understood as before.
Kept == \A f \in Paths : Understood(f)' = Understood(f)

JournalOK == PendingOK /\ UndecidedOK /\ CommittedOK

LEMMA DataFrame ==
  ASSUME IInv, UNCHANGED <<live, cand, backup, pending, committed>>, lock' = lock \/ NoJournal
  PROVE  JournalOK' /\ Kept
<1>1. Kept
  BY DEF Kept, Understood
<1>2. PendingOK'
  BY JournalAssumption DEF IInv, PendingOK, NoJournal, Sound
<1>3. ASSUME NEW r, NEW f
      PROVE  /\ Around(r)' <=> Around(r)
             /\ Origin(r)' <=> Origin(r)
             /\ Undoable(r, f)' <=> Undoable(r, f)
             /\ Landed(r, f)' <=> Landed(r, f)
             /\ Cand(r, f)' = Cand(r, f)
  BY DEF Around, Origin, Undoable, Restorable, Untouched, Added, Vacated, Replaced,
         Backup, Landed, Cand
<1>4. UndecidedOK'
  BY <1>3 DEF IInv, UndecidedOK, Undecided
<1>5. CommittedOK'
  BY <1>3 DEF IInv, CommittedOK, NoJournal
<1> QED BY <1>1, <1>2, <1>4, <1>5 DEF JournalOK

\* Under a pending record, one touched file moves, with its backup.
LEMMA FileFrame ==
  ASSUME IInv, NEW r \in Transaction, NEW f \in Touched(r),
         pending = r, committed \notin Transaction,
         UNCHANGED <<cand, pending, committed, lock>>,
         \A g \in Paths \ {f} : live'[g] = live[g] /\ Backup(r, g)' = Backup(r, g),
         live[f] # Foreign, live'[f] # Foreign, Undoable(r, f)'
  PROVE  JournalOK' /\ Kept
<1>0. Touched(r) \subseteq Paths /\ \A g \in Touched(r) : Touched(r) = Touched(pending)
  BY RecordType
<1>1. Kept
  BY <1>0 DEF Kept, Understood
<1>2. PendingOK' /\ CommittedOK'
  BY DEF IInv, PendingOK, CommittedOK, Sound
<1>3. Around(r)' /\ Origin(r)'
  <2>1. Around(r) /\ Origin(r)
    BY DEF IInv, UndecidedOK, Undecided
  <2>2. \A g \in Paths \ Touched(r) : live'[g] = live[g]
    OBVIOUS
  <2>3. Around(r)'
    BY <2>1, <2>2 DEF Around, New
  <2>4. Origin(r)'
    <3>1. SUFFICES ASSUME r.prev[Config] # Absent
                   PROVE  \E h \in Gens : \A g \in Paths :
                            IF g \in Touched(r) THEN r.prev[g] = Output[h][g]
                                                ELSE live'[g] \in {Output[h][g], Foreign}
      BY DEF Origin
    <3>2. PICK h \in Gens : \A g \in Paths :
            IF g \in Touched(r) THEN r.prev[g] = Output[h][g]
                                ELSE live[g] \in {Output[h][g], Foreign}
      BY <2>1, <3>1 DEF Origin
    <3> QED BY <2>2, <3>2
  <2> QED BY <2>3, <2>4
<1>4. ASSUME NEW g \in Touched(r)
      PROVE  Undoable(r, g)' /\ Cand(r, g)' \in {Absent, New(r, g), Torn}
  <2>1. Undoable(r, g) /\ Cand(r, g) \in {Absent, New(r, g), Torn}
    BY DEF IInv, UndecidedOK, Undecided
  <2>2. CASE g = f
    BY <2>1, <2>2 DEF Cand
  <2>3. CASE g # f
    BY <1>0, <2>1, <2>3 DEF Cand, Undoable, Restorable, Untouched, Added, Vacated, Replaced
  <2> QED BY <2>2, <2>3
<1>5. UndecidedOK'
  BY <1>3, <1>4 DEF UndecidedOK, Undecided, Cand, New
<1> QED BY <1>1, <1>2, <1>5 DEF JournalOK

\* Under a pending record, only its candidates change.
LEMMA CandFrame ==
  ASSUME IInv, NEW r \in Transaction, pending = r, committed \notin Transaction,
         UNCHANGED <<live, backup, pending, committed, lock>>,
         \A g \in Touched(r) : Cand(r, g)' \in {Cand(r, g), Absent, New(r, g), Torn}
  PROVE  JournalOK' /\ Kept
<1>1. Kept
  BY DEF Kept, Understood
<1>2. PendingOK' /\ CommittedOK'
  BY DEF IInv, PendingOK, CommittedOK, Sound
<1>3. \A g : Around(r)' = Around(r) /\ Origin(r)' = Origin(r) /\ Undoable(r, g)' = Undoable(r, g)
  BY DEF Around, Origin, Undoable, Restorable, Untouched, Added, Vacated, Replaced, Backup
<1>4. UndecidedOK'
  BY <1>3 DEF IInv, UndecidedOK, Undecided, New
<1> QED BY <1>1, <1>2, <1>4 DEF JournalOK

\* Under a committed record, only candidates, backups and the pending record go.
LEMMA ClearFrame ==
  ASSUME IInv, NEW r \in Transaction, committed = r,
         UNCHANGED <<live, committed, lock>>, pending' \in {Absent, pending},
         \A g \in Touched(r) : /\ Cand(r, g)' \in {Cand(r, g), Absent}
                               /\ Backup(r, g)' \in {Backup(r, g), Absent}
  PROVE  JournalOK' /\ Kept
<1>1. Kept
  BY DEF Kept, Understood
<1>2. PendingOK'
  BY JournalAssumption DEF IInv, PendingOK, Sound
<1>3. UndecidedOK'
  BY DEF UndecidedOK, Undecided
<1>4. Around(r)' = Around(r)
  BY DEF Around
<1>5. \A g \in Touched(r) : Landed(r, g) => Landed(r, g)'
  BY DEF Landed, New
<1>6. CommittedOK'
  BY <1>4, <1>5 DEF IInv, CommittedOK, New, Sound
<1> QED BY <1>1, <1>2, <1>3, <1>6 DEF JournalOK

-----------------------------------------------------------------------------
\* A working publisher touches nothing but the directory of its lock, and nobody
\* else works.

LEMMA TokenIsLock ==
  ASSUME IInv, NEW p \in Publishers, pc[p] \in Publishing \cup Undoing \cup Clearing
  PROVE  tx[p] \in Transaction /\ tx[p].token = lock /\ lock \in Tokens
<1>1. tx[p] \in Transaction
  BY HasRecord DEF Armed
<1>2. Working(p)
  BY DEF Working, Publishing, Undoing, Clearing
<1>3. lock = Holds(p) /\ lock \in Tokens
  BY <1>2, Working0
<1>4. CASE pc[p] \in Publishing
  <2>1. rcv[p] = Absent
    BY <1>2, <1>4 DEF IInv, Ownership, Recovering, Busy, Publishing, Undoing, Clearing
  <2>2. tx[p].token = tok[p]
    BY <1>4 DEF IInv, LocalAt
  <2> QED BY <1>1, <1>3, <2>1, <2>2 DEF Holds
<1>5. CASE pc[p] \in Undoing
  <2>1. pending = tx[p]
    BY <1>5 DEF IInv, LocalAt
  <2> QED BY <1>1, <1>3, <2>1 DEF IInv, PendingOK
<1>6. CASE pc[p] \in Clearing
  <2>1. committed = tx[p]
    BY <1>6 DEF IInv, LocalAt
  <2> QED BY <1>1, <1>3, <2>1 DEF IInv, CommittedOK
<1> QED BY <1>4, <1>5, <1>6

\* The steps of p that write candidates or backups.
Writing(p) == pc[p] \in {"stage", "withdraw", "backup", "drop", "unconfig", "forward",
                         "rollback", "putBack", "scrap"}

LEMMA OnlyWriting ==
  ASSUME NEW p \in Publishers, ~ Writing(p), Step(p) \/ \E f \in Paths : FileStep(p, f)
  PROVE  UNCHANGED <<cand, backup>>
<1> USE DEF Writing, At
<1>1. CASE Step(p)
  BY <1>1
  DEF Step, Start, Acquire, Recover, DropStale, TakeLock, Release, Validate, WriteRecord,
      LinkRecord, DropRecord, Withdraw, AssertDesiredRoot, PublishConfig, LinkCandidate, DropConfig,
      Commit, Reread, ForwardPending, ForwardCommitted, Abort, Restored, Unpend, ValidateTeardown,
      Throws, Dies, disk
<1>2. ASSUME NEW f \in Paths, FileStep(p, f) PROVE UNCHANGED <<cand, backup>>
  BY <1>2
  DEF FileStep, Stage, MoveAway, Install, Drop, Forward, Restore, PutBack, Scrap, RemoveFile,
      LinkCandidate
<1> QED BY <1>1, <1>2

LEMMA OneDirectory ==
  ASSUME IInv, NEW p \in Publishers, Writing(p), Step(p) \/ \E f \in Paths : FileStep(p, f)
  PROVE  \A t \in Tokens \ {lock} : cand'[t] = cand[t] /\ backup'[t] = backup[t]
<1>1. tx[p] \in Transaction /\ tx[p].token = lock
  BY TokenIsLock DEF Writing, Publishing, Undoing, Clearing
<1> USE <1>1 DEF Writing, At, SetCand, SetBackup, IInv, TypeOK
<1>2. CASE Step(p)
  BY <1>2
  DEF Step, Start, Acquire, Recover, DropStale, TakeLock, Release, Validate, WriteRecord,
      LinkRecord, DropRecord, Withdraw, MovePrevious, MoveRefused, AssertDesiredRoot, PublishConfig,
      DropConfig, Commit, Reread, ForwardPending, ForwardCommitted, Abort, Restored, Unpend,
      ValidateTeardown, Throws, Dies, disk
<1>3. ASSUME NEW f \in Paths, FileStep(p, f)
      PROVE  \A t \in Tokens \ {lock} : cand'[t] = cand[t] /\ backup'[t] = backup[t]
  BY <1>3
  DEF FileStep, Stage, MoveAway, MovePrevious, MoveRefused, Install, Drop, Forward, Restore, PutBack,
      Scrap, RemoveFile
<1> QED BY <1>2, <1>3

\* Where p can be early after a step: it was before, or its token is new.
LEMMA EarlyStep ==
  ASSUME IInv, NEW p \in Publishers, Step(p) \/ \E f \in Paths : FileStep(p, f)
  PROVE  /\ \A q \in Publishers : Early(q)' => \/ Early(q) /\ tok'[q] = tok[q]
                                               \/ tok'[q] \in Tokens \ used
         /\ used \subseteq used'
         /\ Writing(p) => used' = used /\ (rcv[p] = Absent => ~ Early(p)')
<1> USE DEF Goto, At, Early, Busy, Writing
<1>0. TypeOK /\ Ownership
  BY DEF IInv
<1>1. CASE Locking(p)
  <2>1. CASE Start(p)
    BY <1>0, <2>1 DEF Start, disk, TypeOK
  <2>2. CASE Acquire(p)
    BY <1>0, <2>2 DEF Acquire, disk, TypeOK
  <2>3. CASE DropStale(p)
    BY <1>0, <2>3 DEF DropStale, TypeOK, Ownership
  <2>4. CASE TakeLock(p) \/ Release(p)
    BY <1>0, <2>4 DEF TakeLock, Release, TypeOK
  <2> QED BY <1>1, <2>1, <2>2, <2>3, <2>4 DEF Locking
<1>2. CASE ~ Locking(p)
  <2>1. PICK l \in Labels : Inner(p, l)
    BY <1>2, StepsAreInner
  <2>2. /\ \A q \in Publishers : pc'[q] = IF q = p THEN l ELSE pc[q]
        /\ tok' = tok /\ rcv' = rcv /\ used' = used
        /\ l \notin {"acquire", "takeLock"} /\ pc[p] # "idle"
    BY <1>0, <2>1 DEF Inner, TypeOK
  <2>3. /\ l \in {"writeRecord", "linkRecord"} => pc[p] \in {"validate", "writeRecord"}
        /\ l # "validate"
    BY <2>1 DEF Inner
  <2> QED BY <2>2, <2>3
<1> QED BY <1>1, <1>2

LEMMA FreshStep ==
  ASSUME IInv, NEW p \in Publishers, Step(p) \/ \E f \in Paths : FileStep(p, f)
  PROVE  Fresh'
<1>0. /\ \A t \in Tokens \ used : Clean(t)
      /\ \A q \in Publishers : Early(q) => Clean(tok[q])
  BY DEF IInv, Fresh
<1>1. /\ \A t \in Tokens \ used : Clean(t)'
      /\ \A q \in Publishers : Early(q) /\ Early(q)' => \E t \in Tokens : t = tok[q] /\ Clean(t)'
  <2>0. ASSUME NEW q \in Publishers, Early(q)
        PROVE  tok[q] \in Tokens /\ Busy(q)
    BY <2>0 DEF IInv, TypeOK, Ownership, Early, Busy
  <2>1. CASE ~ Writing(p)
    <3>1. \A t : Clean(t) => Clean(t)'
      BY <2>1, OnlyWriting DEF Clean
    <3> QED BY <1>0, <2>0, <3>1
  <2>2. CASE Writing(p)
    <3>1. Working(p)
      BY <2>2 DEF Writing, Working
    <3>2. lock = Holds(p) /\ lock \in used /\ lock \in Tokens
      BY <3>1, Working0
    <3>3. \A t \in Tokens \ {lock} : Clean(t) => Clean(t)'
      BY <2>2, OneDirectory DEF Clean
    <3>4. rcv[p] = Absent => ~ Early(p)'
      BY <2>2, EarlyStep
    <3>5. ASSUME NEW q \in Publishers, Early(q), Early(q)' PROVE tok[q] # lock
      <4>1. CASE rcv[p] = Absent
        BY <2>0, <3>2, <3>4, <3>5, <4>1, PublisherAssumption DEF Holds, IInv, Ownership
      <4>2. CASE rcv[p] # Absent
        BY <2>0, <2>2, <3>2, <3>5, <4>2 DEF Holds, IInv, Ownership, Recovering, Busy, Writing
      <4> QED BY <4>1, <4>2
    <3> QED BY <1>0, <2>0, <3>2, <3>3, <3>5
  <2> QED BY <2>1, <2>2
<1>2. \A t \in Tokens \ used' : Clean(t)'
  BY <1>1, EarlyStep
<1>3. ASSUME NEW q \in Publishers, Early(q)'
      PROVE  \E t \in Tokens : t = tok'[q] /\ Clean(t)'
  BY <1>1, <1>3, EarlyStep
<1> QED BY <1>2, <1>3 DEF Fresh, Clean

\* Whoever is not working knows nothing that could become wrong.
LEMMA OthersStep ==
  ASSUME IInv, NEW p \in Publishers, Step(p) \/ \E f \in Paths : FileStep(p, f),
         NEW q \in Publishers, q # p
  PROVE  LocalAt(q)'
<1>1. pc'[q] = pc[q]
  <2>1. CASE Locking(p)
    BY <2>1
    DEF Locking, Start, Acquire, DropStale, TakeLock, Release, Goto, IInv, TypeOK
  <2>2. CASE ~ Locking(p)
    BY <2>2, StepsAreInner DEF Inner, Goto, IInv, TypeOK
  <2> QED BY <2>1, <2>2
<1>2. CASE ~ Working(q)
  BY <1>1, <1>2
  DEF LocalAt, Working, Quiet, Journaled, Publishing, Undoing, Clearing
<1>3. CASE Working(q)
  <2>1. ~ Working(p)
    BY <1>3, Working0
  <2>2. Start(p) \/ Acquire(p) \/ TakeLock(p) \/ Dies(p)
    BY <2>1
    DEF Working, At, Step, FileStep, Recover, DropStale, Release, Validate, WriteRecord, LinkRecord,
        DropRecord, Withdraw, AssertDesiredRoot, PublishConfig, DropConfig, Commit, Reread,
        ForwardPending, ForwardCommitted, Abort, Restored, Unpend, ValidateTeardown, Throws,
        Publishing, Stage, MoveAway, Install, Drop, Forward, Restore, PutBack, Scrap, RemoveFile
  <2>3. /\ UNCHANGED <<live, cand, backup, pending, committed>>
        /\ tx'[q] = tx[q] /\ tok'[q] = tok[q] /\ todo'[q] = todo[q]
    BY <2>2 DEF Start, Acquire, TakeLock, Dies, disk, Left, IInv, TypeOK
  <2>4. LocalAt(q)
    BY DEF IInv
  <2>5. /\ NoJournal' = NoJournal
        /\ \A r : Around(r)' = Around(r) /\ Origin(r)' = Origin(r)
        /\ \A r, f : /\ Before(r, f)' = Before(r, f) /\ Written(r, f)' = Written(r, f)
                     /\ Vacated(r, f)' = Vacated(r, f) /\ Cand(r, f)' = Cand(r, f)
        /\ \A f : NextRestored(q, f)' = NextRestored(q, f)
    BY <2>3
    DEF NoJournal, Around, Origin, Before, Written, Vacated, NextRestored, Cand, Backup
  <2> QED BY <1>1, <2>3, <2>4, <2>5 DEF LocalAt
<1> QED BY <1>2, <1>3

-----------------------------------------------------------------------------
\* Steps that read the files and the journal and decide.

LEMMA SameView ==
  ASSUME UNCHANGED <<live, cand, backup, pending, committed>>
  PROVE  /\ NoJournal' = NoJournal
         /\ \A r : Around(r)' = Around(r) /\ Origin(r)' = Origin(r)
         /\ \A r, f : /\ Before(r, f)' = Before(r, f) /\ Written(r, f)' = Written(r, f)
                      /\ Vacated(r, f)' = Vacated(r, f) /\ Cand(r, f)' = Cand(r, f)
BY DEF NoJournal, Around, Origin, Before, Written, Vacated, Cand, Backup

LEMMA Resting ==
  ASSUME NEW p \in Publishers, pc'[p] \in {"idle", "acquire", "takeLock", "recover"}
  PROVE  LocalAt(p)'
BY DEF LocalAt, Quiet, Journaled, Publishing, Undoing, Clearing

\* Without a journal the files are what they seem.
LEMMA PlainFiles ==
  ASSUME IInv, NoJournal
  PROVE  /\ live[Manifest] = Absent => \A f \in Paths : live[f] \in {Absent, Foreign}
         /\ \A h \in Gens : live[Manifest] = Output[h][Manifest] =>
              \A f \in Paths : live[f] \in {Output[h][f], Absent, Foreign}
<1>1. \A f : Understood(f) = live[f]
  BY JournalAssumption DEF NoJournal, Understood
<1> QED BY <1>1 DEF IInv, ManifestOK, Told

LEMMA MakeSound ==
  ASSUME IInv, NoJournal, NEW t \in Tokens, NEW g \in Gens, NEW o \in SUBSET Paths,
         \/ Adoptable(g) /\ o = {}
         \/ \E h \in Gens : OnDisk(h) /\ Owned(g) \subseteq Owned(h) /\ o = Owned(h) \ Owned(g),
         NEW r \in Transaction, r = MakeTransaction(t, g, o)
  PROVE  /\ r.token = t /\ Sound(r) /\ Around(r) /\ Origin(r)
         /\ \A f \in Touched(r) : Before(r, f)
<1>1. /\ r.token = t /\ r.gen = g /\ r.obsolete = o
      /\ r.files = {f \in Owned(g) : live[f] # Output[g][f]} \cup {Config}
      /\ \A f \in Paths : r.prev[f] = IF f \in Touched(r) THEN live[f] ELSE Absent
  BY DEF MakeTransaction, Touched
<1>2. Config \in Paths /\ Manifest \in Paths /\ Absent # Foreign /\ Config \in Owned(g)
  BY PublisherAssumption
<1>3. \A f \in Touched(r) : Before(r, f) /\ f \in Paths
  BY <1>1, RecordType DEF Before
<1>4. CASE Adoptable(g) /\ o = {}
  <2>1. Sound(r)
    BY <1>1, <1>2, <1>4, OutputType, RecordType DEF Sound, Adoptable, Touched
  <2>2. r.prev[Config] = Absent
    BY <1>1, <1>2, <1>4 DEF Adoptable
  <2>3. \A f \in Paths : live[f] \in {Absent, Foreign}
    BY <1>4, PlainFiles DEF Adoptable
  <2>4. Around(r)
    BY <1>1, <2>3, OutputType DEF Around, Touched, New
  <2> QED BY <1>1, <1>3, <2>1, <2>2, <2>4 DEF Origin
<1>5. CASE \E h \in Gens : OnDisk(h) /\ Owned(g) \subseteq Owned(h) /\ o = Owned(h) \ Owned(g)
  <2>1. PICK h \in Gens : OnDisk(h) /\ Owned(g) \subseteq Owned(h) /\ o = Owned(h) \ Owned(g)
    BY <1>5
  <2>2. Touched(r) \subseteq Owned(h) /\ \A f \in Owned(h) : live[f] = Output[h][f] /\ f \in Paths
    BY <1>1, <1>2, <2>1 DEF Touched, OnDisk, Owned
  <2>3. live[Manifest] = Output[h][Manifest]
    BY <1>2, <2>2, OutputType
  <2>4. \A f \in Paths \ Owned(h) : live[f] \in {Absent, Foreign} /\ Output[h][f] = Absent
    BY <2>3, PlainFiles, OutputType
  <2>5. Sound(r)
    BY <1>1, <1>2, <2>1, <2>2, OutputType DEF Sound
  <2>6. Around(r)
    BY <1>1, <2>1, <2>2, <2>4, OutputType DEF Around, Touched, New
  <2>7. \A f \in Paths : IF f \in Touched(r) THEN r.prev[f] = Output[h][f]
                                             ELSE live[f] \in {Output[h][f], Foreign}
    BY <1>1, <2>2, <2>4
  <2>8. Origin(r)
    BY <2>7 DEF Origin
  <2> QED BY <1>1, <1>3, <2>5, <2>6, <2>8
<1> QED BY <1>4, <1>5

LEMMA LockingStep ==
  ASSUME IInv, NEW p \in Publishers, Locking(p)
  PROVE  JournalOK' /\ Kept /\ LocalAt(p)'
<1> USE DEF Goto, At, disk
<1>0. UNCHANGED <<live, cand, backup, pending, committed>>
  BY DEF Locking, Start, Acquire, DropStale, TakeLock, Release
<1>1. lock' = lock \/ NoJournal
  <2>1. CASE DropStale(p) \/ Release(p)
    BY <2>1 DEF DropStale, Release, IInv, LocalAt, Quiet
  <2>2. CASE TakeLock(p)
    <3>1. lock = Absent => NoJournal
      BY PublisherAssumption, RecordType DEF IInv, PendingOK, CommittedOK, NoJournal, TypeOK
    <3> QED BY <2>2, <3>1 DEF TakeLock
  <2> QED BY <2>1, <2>2 DEF Locking, Start, Acquire
<1>2. pc'[p] = "validate" => NoJournal'
  <2>1. pc'[p] = "validate" => lock = Absent
    BY DEF Locking, Start, Acquire, DropStale, TakeLock, Release, IInv, TypeOK
  <2>2. lock = Absent => NoJournal
    BY PublisherAssumption, RecordType DEF IInv, PendingOK, CommittedOK, NoJournal, TypeOK
  <2> QED BY <1>0, <2>1, <2>2, SameView
<1>3. pc'[p] \in {"idle", "acquire", "takeLock", "recover", "validate"}
  BY DEF Locking, Start, Acquire, DropStale, TakeLock, Release, IInv, TypeOK
<1>4. LocalAt(p)'
  BY <1>2, <1>3 DEF LocalAt, Quiet, Journaled, Publishing, Undoing, Clearing
<1> QED BY <1>0, <1>1, <1>4, DataFrame

\* The steps of a working publisher that leave the files and the journal alone.
Deciding(p) ==
  \/ Recover(p) \/ Validate(p) \/ WriteRecord(p) \/ DropRecord(p) \/ AssertDesiredRoot(p)
  \/ Reread(p) \/ Abort(p) \/ Restored(p) \/ ValidateTeardown(p) \/ Throws(p) \/ Dies(p)

LEMMA DecidingStep ==
  ASSUME IInv, ~ HandlerFaults, NEW p \in Publishers, Deciding(p)
  PROVE  JournalOK' /\ Kept /\ LocalAt(p)'
<1> USE DEF Goto, At, disk, Left
<1>0. UNCHANGED <<live, cand, backup, pending, committed, lock, tok>>
  BY DEF Deciding, Recover, Validate, WriteRecord, DropRecord, AssertDesiredRoot, Reread, Abort,
         Restored, ValidateTeardown, Throws, Dies
<1>1. JournalOK' /\ Kept
  BY <1>0, DataFrame
<1>2. LocalAt(p) /\ TypeOK
  BY DEF IInv
<1> SUFFICES LocalAt(p)'
  BY <1>1
<1> HIDE DEF disk
<1>3. CASE Recover(p)
  <2>1. CASE pc'[p] = "forward"
    BY <1>0, <1>2, <1>3, <2>1 DEF Recover, TypeOK, LocalAt, Quiet, Journaled, Publishing, Undoing, Clearing
  <2>2. CASE pc'[p] = "rollback"
    BY <1>0, <1>2, <1>3, <2>2, JournalAssumption
    DEF Recover, TypeOK, LocalAt, Quiet, Journaled, Publishing, Undoing, Clearing
  <2>3. CASE pc'[p] = "dropStale"
    <3>1. NoJournal'
      BY <1>0, <1>2, <1>3, <2>3, JournalAssumption DEF Recover, TypeOK, NoJournal
    <3> QED BY <2>3, <3>1 DEF LocalAt, Quiet, Journaled, Publishing, Undoing, Clearing
  <2>4. pc'[p] \in {"forward", "rollback", "dropStale", "idle"}
    BY <1>2, <1>3 DEF Recover, TypeOK
  <2> QED BY <2>1, <2>2, <2>3, <2>4, Resting
<1>4. CASE Validate(p)
  <2>1. NoJournal /\ NoJournal'
    BY <1>0, <1>2, <1>4, SameView DEF Validate, LocalAt, Quiet
  <2>2. pc'[p] \in {"release", "writeRecord"}
    BY <1>2, <1>4 DEF Validate, TypeOK
  <2>3. CASE pc'[p] = "release"
    BY <2>1, <2>3 DEF LocalAt, Quiet, Journaled, Publishing, Undoing, Clearing
  <2>4. CASE pc'[p] = "writeRecord"
    <3>1. PICK o \in SUBSET Paths :
            /\ \/ Adoptable(job[p]) /\ o = {}
               \/ \E h \in Gens : /\ OnDisk(h) /\ Owned(job[p]) \subseteq Owned(h)
                                  /\ o = Owned(h) \ Owned(job[p])
            /\ tx' = [tx EXCEPT ![p] = MakeTransaction(tok[p], job[p], o)]
      BY <1>2, <1>4, <2>4 DEF Validate, TypeOK
    <3>2. tok[p] \in Tokens /\ job[p] \in Gens
      BY <1>2, <1>4 DEF Validate, IInv, Ownership, Busy, TypeOK
    <3>3. PICK r \in Transaction : r = MakeTransaction(tok[p], job[p], o)
      BY <1>2, <3>2, MakeType
    <3>4. tx'[p] = r
      BY <1>2, <3>1, <3>3 DEF TypeOK
    <3>5. /\ r.token = tok[p] /\ Sound(r) /\ Around(r) /\ Origin(r)
          /\ \A f \in Touched(r) : Before(r, f)
      BY <2>1, <3>1, <3>2, <3>3, MakeSound
    <3>6. \A f \in Paths : Cand(r, f) # Torn
      <4>1. Clean(tok[p])
        BY <1>4 DEF Validate, IInv, Fresh, Early, Busy
      <4> QED BY <3>5, <4>1, PublisherAssumption DEF Clean, Cand
    <3>7. /\ Around(r)' /\ Origin(r)' /\ \A f \in Touched(r) : Before(r, f)'
          /\ \A f \in Paths : Cand(r, f)' # Torn
      BY <1>0, <3>5, <3>6, SameView
    <3> QED
      BY <1>0, <2>1, <2>4, <3>4, <3>5, <3>7
      DEF LocalAt, Quiet, Journaled, Publishing, Undoing, Clearing, NoJournal
  <2> QED BY <2>2, <2>3, <2>4
<1>5. CASE WriteRecord(p)
  <2>1. tx' = tx /\ pc[p] = "writeRecord" /\ pc'[p] \in {"linkRecord", "idle", "abort"}
    BY <1>2, <1>5 DEF WriteRecord, BreaksOff, TypeOK
  <2> QED BY <1>0, <1>2, <2>1, SameView
          DEF LocalAt, Quiet, Journaled, Publishing, Undoing, Clearing, NoJournal
<1>6. CASE DropRecord(p)
  <2>1. tx' = tx /\ pc[p] = "dropRecord" /\ pc'[p] = "stage"
    BY <1>2, <1>6 DEF DropRecord, TypeOK
  <2> QED BY <1>0, <1>2, <2>1, SameView
          DEF LocalAt, Quiet, Journaled, Publishing, Undoing, Clearing
<1>7. CASE AssertDesiredRoot(p)
  <2>1. /\ tx' = tx /\ pc[p] = "backup"
        /\ \/ pc'[p] = "publish" /\ DesiredRoot(tx[p])
           \/ pc'[p] = "abort"
    BY <1>2, <1>7 DEF AssertDesiredRoot, TypeOK
  <2>2. tx[p] \in Transaction /\ pending = tx[p] /\ Sound(tx[p])
    BY <1>2, <2>1 DEF LocalAt, Publishing, Journaled, IInv, PendingOK
  <2>3. DesiredRoot(tx[p]) => \A f \in Touched(tx[p]) \ {Config} : Written(tx[p], f)
    BY <2>2, RecordType, OutputType DEF DesiredRoot, Sound, Touched, Written, New
  <2> QED BY <1>0, <1>2, <2>1, <2>3, SameView
          DEF LocalAt, Quiet, Journaled, Publishing, Undoing, Clearing
<1>8. CASE Reread(p)
  <2>1. tx' = tx /\ pc[p] = "reread" /\ pc'[p] \in {"idle", "forward"}
    BY <1>2, <1>8 DEF Reread, TypeOK
  <2> QED BY <1>0, <1>2, <2>1, SameView
          DEF LocalAt, Quiet, Journaled, Publishing, Undoing, Clearing
<1>9. CASE Abort(p)
  <2>1. committed \notin Transaction /\ pc[p] = "abort"
    BY <1>2, <1>9 DEF Abort, LocalAt
  <2>2. CASE pending \in Transaction /\ tx'[p] = pending /\ todo'[p] = Touched(pending)
             /\ pc'[p] = "rollback"
    BY <1>0, <2>1, <2>2 DEF LocalAt, Quiet, Journaled, Publishing, Undoing, Clearing
  <2>3. CASE pending = Absent /\ pc'[p] = "release"
    BY <1>0, <2>1, <2>3 DEF LocalAt, Quiet, Journaled, Publishing, Undoing, Clearing, NoJournal
  <2> QED BY <1>2, <1>9, <2>2, <2>3 DEF Abort, TypeOK
<1>10. CASE Restored(p)
  <2>1. /\ tx' = tx /\ pc[p] = "rollback" /\ pc'[p] = "scrap" /\ todo[p] = {}
    BY <1>2, <1>10 DEF Restored, TypeOK
  <2> QED BY <1>0, <1>2, <2>1, SameView
          DEF LocalAt, Quiet, Journaled, Publishing, Undoing, Clearing
<1>11. CASE ValidateTeardown(p)
  <2>1. NoJournal'
    BY <1>0, <1>2, <1>11, SameView DEF ValidateTeardown, LocalAt, Quiet
  <2>2. CASE pc'[p] = "release"
    BY <2>1, <2>2 DEF LocalAt, Quiet, Journaled, Publishing, Undoing, Clearing
  <2>3. CASE pc'[p] = "remove"
    <3>1. PICK h \in Gens :
            /\ tx' = [tx EXCEPT ![p] = [MakeTransaction(tok[p], h, {}) EXCEPT !.files = Owned(h)]]
            /\ todo' = [todo EXCEPT ![p] = Owned(h)]
      BY <1>2, <1>11, <2>3 DEF ValidateTeardown, TypeOK
    <3>2. TypeOK'
      BY <1>11, TypeOfRecordReads
    <3>3. tx'[p].gen = h /\ todo'[p] = Owned(h) /\ tx'[p] # Absent
      <4>1. tx'[p] = [MakeTransaction(tok[p], h, {}) EXCEPT !.files = Owned(h)]
        BY <1>2, <3>1 DEF TypeOK
      <4>2. MakeTransaction(tok[p], h, {}) \in Transaction
        BY <1>2, <1>11, MakeType DEF ValidateTeardown, IInv, Ownership, Busy, TypeOK
      <4>3. tx'[p] \in Transaction
        BY <4>1, <4>2 DEF Transaction, Owned
      <4> QED BY <1>2, <3>1, <4>1, <4>3, RecordType DEF MakeTransaction, TypeOK
    <3>4. tx'[p] \in Transaction
      BY <3>2, <3>3 DEF TypeOK
    <3> QED BY <2>1, <2>3, <3>3, <3>4
            DEF LocalAt, Quiet, Journaled, Publishing, Undoing, Clearing
  <2> QED BY <1>2, <1>11, <2>2, <2>3 DEF ValidateTeardown, TypeOK
<1>12. CASE Throws(p)
  <2>1. tx' = tx /\ pc[p] \in Publishing /\ pc'[p] = "abort"
    BY <1>2, <1>12 DEF Throws, TypeOK
  <2>2. pending \in {Absent, tx[p]}
    BY <1>2, <2>1 DEF LocalAt, Quiet, Journaled, NoJournal
  <2> QED BY <1>0, <1>2, <2>1, <2>2
          DEF LocalAt, Quiet, Journaled, Publishing, Undoing, Clearing
<1>13. CASE Dies(p)
  <2>1. pc'[p] = "idle"
    BY <1>2, <1>13 DEF Dies, TypeOK
  <2> QED BY <2>1, Resting
<1> QED
  BY <1>3, <1>4, <1>5, <1>6, <1>7, <1>8, <1>9, <1>10, <1>11, <1>12, <1>13 DEF Deciding

-----------------------------------------------------------------------------
\* Steps of a publication and of a rollback under a pending record.

LEMMA Journaling ==
  ASSUME IInv, NEW p \in Publishers, NEW r, r = tx[p], pc[p] \in Journaled \cup Undoing
  PROVE  /\ r \in Transaction /\ pending = r /\ committed \notin Transaction
         /\ r.token \in Tokens /\ Sound(r) /\ Around(r) /\ Origin(r)
         /\ Touched(r) \subseteq Paths /\ Config \in Touched(r)
         /\ \A f \in Touched(r) :
              Undoable(r, f) /\ Cand(r, f) \in {Absent, New(r, f), Torn}
<1>1. r \in Transaction /\ pending = r /\ committed \notin Transaction
  BY DEF IInv, LocalAt, Journaled
<1>2. Sound(r)
  BY <1>1 DEF IInv, PendingOK
<1>3. /\ Around(r) /\ Origin(r)
      /\ \A f \in Touched(r) :
           Undoable(r, f) /\ Cand(r, f) \in {Absent, New(r, f), Torn}
  BY <1>1 DEF IInv, UndecidedOK, Undecided
<1> QED BY <1>1, <1>2, <1>3, RecordType DEF Sound, Touched

LEMMA PublishingLocal ==
  ASSUME IInv, NEW p \in Publishers, NEW r, r = tx[p], pc[p] \in Journaled,
         UNCHANGED <<tx, tok, pending, committed>>,
         pc'[p] \in {"stage", "withdraw", "backup", "install", "drop", "abort", "idle"},
         pc'[p] \in {"backup", "install", "drop"} => todo'[p] \subseteq Touched(r) \ {Config},
         pc'[p] \in Publishing => \A f \in Paths : Cand(r, f)' # Torn
  PROVE  LocalAt(p)'
<1>1. /\ r \in Transaction /\ r.token = tok[p] /\ committed \notin Transaction /\ pending = r
  BY DEF IInv, LocalAt, Journaled
<1> QED BY <1>1 DEF LocalAt, Quiet, Journaled, Publishing, Undoing, Clearing

LEMMA UndoingLocal ==
  ASSUME IInv, NEW p \in Publishers, NEW r, r = tx[p], pc[p] \in Undoing,
         UNCHANGED <<tx, tok, pending, committed>>,
         pc'[p] \in Undoing \cup {"idle"},
         pc'[p] \in {"rollback", "putBack"} =>
           todo'[p] \subseteq Touched(r) /\ \A f \in Touched(r) \ todo'[p] : Before(r, f)',
         pc'[p] = "putBack" => \A f \in Paths : NextRestored(p, f)' => Vacated(r, f)',
         pc'[p] \in {"scrap", "unpend"} => \A f \in Touched(r) : Before(r, f)'
  PROVE  LocalAt(p)'
<1>1. r \in Transaction /\ committed \notin Transaction /\ pending = r
  BY DEF IInv, LocalAt
<1> QED BY <1>1 DEF LocalAt, Quiet, Journaled, Publishing, Undoing, Clearing

\* What a step under a record that stays pending has to do.
Steady(p) == JournalOK' /\ Kept /\ LocalAt(p)'

\* Moving the old file away, with its check.
LEMMA MoveStep ==
  ASSUME IInv, NEW p \in Publishers, pc[p] \in {"withdraw", "backup"},
         NEW r, r = tx[p], NEW f \in Touched(r), MovePrevious(p, f),
         UNCHANGED <<cand, pending, committed, lock>>
  PROVE  JournalOK' /\ Kept
<1>1. /\ r \in Transaction /\ pending = r /\ committed \notin Transaction
      /\ Sound(r) /\ f \in Paths /\ r.token \in Tokens
  BY Journaling DEF Journaled, Publishing
<1>2. CASE UNCHANGED <<live, backup>>
  BY <1>2, DataFrame
<1>3. CASE /\ live[f] = r.prev[f] /\ r.prev[f] # Absent /\ Backup(r, f) = Absent
           /\ SetBackup(r, f, live[f]) /\ SetLive(f, Absent)
  <2>1. live'[f] = Absent /\ \A g \in Paths \ {f} : live'[g] = live[g]
    BY <1>1, <1>3 DEF SetLive, IInv, TypeOK
  <2>2. Backup(r, f)' = r.prev[f] /\ \A g \in Paths \ {f} : Backup(r, g)' = Backup(r, g)
    BY <1>1, <1>3 DEF SetBackup, Backup, IInv, TypeOK
  <2>3. live[f] # Foreign /\ live'[f] # Foreign
    BY <1>1, <1>3, <2>1, PublisherAssumption DEF Sound
  <2>4. Undoable(r, f)'
    BY <1>3, <2>1, <2>2 DEF Undoable, Restorable, Vacated
  <2> QED BY <1>1, <2>1, <2>2, <2>3, <2>4, FileFrame
<1> QED BY <1>2, <1>3 DEF MovePrevious

\* Linking the new file, with its check.
LEMMA LinkStep ==
  ASSUME IInv, NEW p \in Publishers, pc[p] \in Journaled,
         NEW r, r = tx[p], NEW f \in Touched(r), NEW next, LinkCandidate(p, f, next)
  PROVE  JournalOK' /\ Kept
<1>1. /\ r \in Transaction /\ pending = r /\ committed \notin Transaction
      /\ Sound(r) /\ f \in Paths /\ Undoable(r, f)
  BY Journaling
<1>2. UNCHANGED <<cand, backup, pending, committed, lock>>
  BY DEF LinkCandidate
<1>3. CASE UNCHANGED live
  BY <1>2, <1>3, DataFrame
<1>4. CASE live[f] = Absent /\ SetLive(f, New(r, f))
  <2>1. live'[f] = New(r, f) /\ \A g \in Paths \ {f} : live'[g] = live[g]
    BY <1>1, <1>4 DEF SetLive, IInv, TypeOK
  <2>2. \A g \in Paths : Backup(r, g)' = Backup(r, g)
    BY <1>2 DEF Backup
  <2>3. live[f] # Foreign /\ live'[f] # Foreign
    BY <1>1, <1>4, <2>1, NewType, PublisherAssumption
  <2>4. f \notin r.files => New(r, f) = Absent
    BY <1>1, OutputType, RecordType DEF Sound, Touched, New
  <2>5. Undoable(r, f)'
    BY <1>1, <1>4, <2>1, <2>2, <2>3, <2>4
    DEF Undoable, Restorable, Untouched, Added, Vacated, Replaced, New
  <2> QED BY <1>1, <1>2, <2>1, <2>2, <2>3, <2>5, FileFrame
<1> QED BY <1>3, <1>4 DEF LinkCandidate

\* The steps of a publication between its record and the .buckconfig.
LEMMA PublishingStep ==
  ASSUME IInv, NEW p \in Publishers,
         \/ Withdraw(p)
         \/ \E f \in Paths : Stage(p, f) \/ MoveAway(p, f) \/ Install(p, f) \/ Drop(p, f)
  PROVE  Steady(p)
<1>0. TypeOK /\ LocalAt(p) /\ pc[p] \in Journaled
  BY DEF IInv, Withdraw, Stage, MoveAway, Install, Drop, Journaled, Publishing, At
<1>1. PICK t : t = tx[p]
  OBVIOUS
<1>2. /\ t \in Transaction /\ pending = t /\ committed \notin Transaction
      /\ t.token \in Tokens /\ Touched(t) \subseteq Paths /\ Config \in Touched(t)
  BY <1>0, <1>1, Journaling
<1>3. \A f \in Paths : Cand(t, f) # Torn
  BY <1>0, <1>1 DEF LocalAt, Journaled
<1>4. CASE Withdraw(p)
  <2>1. UNCHANGED <<cand, pending, committed, lock, tx, tok>> /\ pc[p] = "withdraw"
    BY <1>4 DEF Withdraw, At
  <2>2. \A f : Cand(t, f)' = Cand(t, f)
    BY <2>1 DEF Cand
  <2>3. CASE MoveRefused(p, Config)
    <3>1. pc'[p] = "abort" /\ UNCHANGED <<live, backup>>
      BY <1>0, <2>3 DEF MoveRefused, Goto, TypeOK
    <3>2. JournalOK' /\ Kept
      BY <2>1, <3>1, DataFrame
    <3>3. LocalAt(p)'
      BY <1>0, <1>1, <2>1, <3>1, PublishingLocal DEF Publishing
    <3> QED BY <3>2, <3>3 DEF Steady
  <2>4. CASE MovePrevious(p, Config) /\ Left(p, Touched(tx[p]) \ {Config}) /\ Goto(p, "backup")
    <3>1. JournalOK' /\ Kept
      BY <1>1, <1>2, <2>1, <2>4, MoveStep
    <3>2. pc'[p] = "backup" /\ todo'[p] = Touched(t) \ {Config}
      BY <1>0, <1>1, <2>4 DEF Left, Goto, TypeOK
    <3>3. LocalAt(p)'
      BY <1>0, <1>1, <1>3, <2>1, <2>2, <3>2, PublishingLocal
    <3> QED BY <3>1, <3>3 DEF Steady
  <2> QED BY <1>4, <2>3, <2>4 DEF Withdraw
<1>5. ASSUME NEW f \in Paths, Stage(p, f) PROVE Steady(p)
  <2>1. UNCHANGED <<live, backup, pending, committed, lock, tx, tok>>
    BY <1>5 DEF Stage
  <2>2. PICK c \in {New(t, f), Torn} :
          /\ \A g \in Paths : Cand(t, g)' = IF g = f THEN c ELSE Cand(t, g)
          /\ pc'[p] \in {"stage", "withdraw"} => c = New(t, f)
          /\ pc'[p] \in {"stage", "withdraw", "idle", "abort"}
    <3>1. \A c : SetCand(t, f, c) =>
            \A g \in Paths : Cand(t, g)' = IF g = f THEN c ELSE Cand(t, g)
      BY <1>0, <1>2, <1>5 DEF SetCand, Cand, TypeOK
    <3>2. CASE SetCand(t, f, New(t, f)) /\ Goto(p, IF todo[p] = {f} THEN "withdraw" ELSE "stage")
      BY <1>0, <3>1, <3>2 DEF Goto, TypeOK
    <3>3. CASE SetCand(t, f, Torn) /\ BreaksOff(p)
      BY <1>0, <3>1, <3>3 DEF BreaksOff, Goto, TypeOK
    <3> QED BY <1>1, <1>5, <3>2, <3>3 DEF Stage
  <2>3. JournalOK' /\ Kept
    BY <1>2, <2>1, <2>2, CandFrame
  <2>4. LocalAt(p)'
    BY <1>0, <1>1, <1>2, <1>3, <2>1, <2>2, NewType, PublishingLocal DEF Publishing
  <2> QED BY <2>3, <2>4 DEF Steady
<1>6. ASSUME NEW f \in Paths, MoveAway(p, f) PROVE Steady(p)
  <2>1. UNCHANGED <<cand, pending, committed, lock, tx, tok>> /\ pc[p] = "backup"
    BY <1>6 DEF MoveAway, At
  <2>2. \A g : Cand(t, g)' = Cand(t, g)
    BY <2>1 DEF Cand
  <2>3. f \in todo[p] /\ todo[p] \subseteq Touched(t) \ {Config}
    BY <1>0, <1>1, <1>6, <2>1 DEF MoveAway, NextMoved, IsFirst, LocalAt
  <2>4. CASE MoveRefused(p, f)
    <3>1. pc'[p] = "abort" /\ UNCHANGED <<live, backup>>
      BY <1>0, <2>4 DEF MoveRefused, Goto, TypeOK
    <3>2. JournalOK' /\ Kept
      BY <2>1, <3>1, DataFrame
    <3>3. LocalAt(p)'
      BY <1>0, <1>1, <2>1, <3>1, PublishingLocal DEF Publishing
    <3> QED BY <3>2, <3>3 DEF Steady
  <2>5. CASE MovePrevious(p, f) /\ IF f \in tx[p].files THEN Goto(p, "install") /\ UNCHANGED todo
                                     ELSE UNCHANGED pc /\ Left(p, todo[p] \ {f})
    <3>1. JournalOK' /\ Kept
      BY <1>1, <2>1, <2>3, <2>5, MoveStep
    <3>2. pc'[p] \in {"backup", "install"} /\ todo'[p] \subseteq Touched(t) \ {Config}
      BY <1>0, <2>1, <2>3, <2>5 DEF Left, Goto, TypeOK
    <3>3. LocalAt(p)'
      BY <1>0, <1>1, <1>3, <2>1, <2>2, <3>2, PublishingLocal
    <3> QED BY <3>1, <3>3 DEF Steady
  <2> QED BY <1>6, <2>4, <2>5 DEF MoveAway
<1>7. ASSUME NEW f \in Paths, Install(p, f) PROVE Steady(p)
  <2>1. UNCHANGED <<cand, backup, pending, committed, lock, tx, tok, todo>> /\ pc[p] = "install"
    BY <1>7 DEF Install, LinkCandidate, At
  <2>2. f \in todo[p] /\ todo[p] \subseteq Touched(t) \ {Config}
    BY <1>0, <1>1, <1>7, <2>1 DEF Install, NextMoved, IsFirst, LocalAt
  <2>3. JournalOK' /\ Kept
    BY <1>0, <1>1, <1>7, <2>2, LinkStep DEF Install
  <2>4. pc'[p] \in {"drop", "abort"} /\ \A g : Cand(t, g)' = Cand(t, g)
    BY <1>0, <1>7, <2>1 DEF Install, LinkCandidate, Goto, TypeOK, Cand
  <2>5. LocalAt(p)'
    BY <1>0, <1>1, <1>3, <2>1, <2>2, <2>4, PublishingLocal
  <2> QED BY <2>3, <2>5 DEF Steady
<1>8. ASSUME NEW f \in Paths, Drop(p, f) PROVE Steady(p)
  <2>1. UNCHANGED <<live, backup, pending, committed, lock, tx, tok>> /\ pc[p] = "drop"
    BY <1>8 DEF Drop, At
  <2>2. /\ \A g \in Paths : Cand(t, g)' = IF g = f THEN Absent ELSE Cand(t, g)
        /\ pc'[p] = "backup" /\ todo'[p] = todo[p] \ {f}
    BY <1>0, <1>1, <1>2, <1>8 DEF Drop, SetCand, Cand, Left, Goto, TypeOK
  <2>3. JournalOK' /\ Kept
    BY <1>2, <2>1, <2>2, CandFrame
  <2>4. todo[p] \subseteq Touched(t) \ {Config}
    BY <1>0, <1>1, <2>1 DEF LocalAt
  <2>5. LocalAt(p)'
    BY <1>0, <1>1, <1>3, <2>1, <2>2, <2>4, PublisherAssumption, PublishingLocal
  <2> QED BY <2>3, <2>5 DEF Steady
<1> QED BY <1>4, <1>5, <1>6, <1>7, <1>8

\* The record becomes the journal.
LEMMA LinkRecordStep ==
  ASSUME IInv, NEW p \in Publishers, LinkRecord(p)
  PROVE  Steady(p)
<1>0. TypeOK /\ LocalAt(p) /\ pc[p] = "linkRecord"
  BY DEF IInv, LinkRecord, At
<1>1. PICK r : r = tx[p]
  OBVIOUS
<1>2. /\ NoJournal /\ r \in Transaction /\ r.token = tok[p] /\ committed \notin Transaction
      /\ Sound(r) /\ Around(r) /\ Origin(r) /\ \A f \in Touched(r) : Before(r, f)
      /\ \A f \in Paths : Cand(r, f) # Torn
  BY <1>0, <1>1 DEF LocalAt, Quiet, Publishing
<1>3. UNCHANGED <<live, cand, backup, committed, lock, tx, tok>>
  BY DEF LinkRecord
<1>4. CASE pending = Absent /\ pending' = r /\ pc'[p] = "dropRecord"
  <2>1. Clean(r.token) /\ lock = r.token
    <3>1. Working(p) /\ rcv[p] = Absent /\ Early(p)
      BY <1>0 DEF Working, Early, Busy, IInv, Ownership, Recovering, Undoing, Clearing
    <3> QED BY <1>2, <3>1, Working0 DEF Holds, IInv, Fresh
  <2>2. Touched(r) \subseteq Paths /\ r.prev \in [Paths -> File]
    BY <1>2, RecordType
  <2>3. Kept
    BY <1>2, <1>3, <1>4, <2>2, JournalAssumption DEF Kept, Understood, Before, NoJournal, Sound
  <2>4. \A f \in Touched(r) : Undoable(r, f)' /\ Cand(r, f)' \in {Absent, New(r, f), Torn}
    BY <1>2, <1>3, <2>1, <2>2
    DEF Before, Undoable, Restorable, Untouched, Clean, Backup, Cand
  <2>5. Around(r)' /\ Origin(r)'
    BY <1>2, <1>3 DEF Around, Origin
  <2>6. UndecidedOK'
    BY <1>2, <1>3, <1>4, <2>4, <2>5 DEF UndecidedOK, Undecided, Cand, New
  <2>7. PendingOK' /\ CommittedOK'
    BY <1>2, <1>3, <1>4, <2>1 DEF PendingOK, CommittedOK, Sound
  <2>8. \A f : Cand(r, f)' = Cand(r, f)
    BY <1>3 DEF Cand
  <2>9. LocalAt(p)'
    BY <1>1, <1>2, <1>3, <1>4, <2>8 DEF LocalAt, Quiet, Journaled, Publishing, Undoing, Clearing
  <2> QED BY <2>3, <2>6, <2>7, <2>9 DEF Steady, JournalOK
<1>5. CASE pending # Absent
  BY <1>2, <1>5 DEF NoJournal
<1> QED BY <1>0, <1>1, <1>4, <1>5 DEF LinkRecord, Goto, TypeOK

\* .buckconfig appears, its candidate goes.
LEMMA ConfigStep ==
  ASSUME IInv, NEW p \in Publishers, PublishConfig(p) \/ DropConfig(p)
  PROVE  Steady(p)
<1>0. TypeOK /\ LocalAt(p) /\ pc[p] \in {"publish", "unconfig"}
  BY DEF IInv, PublishConfig, DropConfig, At
<1>1. PICK r : r = tx[p]
  OBVIOUS
<1>2. /\ r \in Transaction /\ pending = r /\ committed \notin Transaction /\ r.token = tok[p]
      /\ r.token \in Tokens /\ Touched(r) \subseteq Paths /\ Config \in Touched(r)
  BY <1>0, <1>1, Journaling DEF LocalAt, Journaled, Publishing
<1>3. /\ \A f \in Paths : Cand(r, f) # Torn
      /\ \A f \in Touched(r) \ {Config} : Written(r, f)
  BY <1>0, <1>1 DEF LocalAt, Publishing
<1>4. UNCHANGED <<pending, committed, lock, tx, tok, backup>>
  BY DEF PublishConfig, LinkCandidate, DropConfig
<1>5. CASE PublishConfig(p)
  <2>1. JournalOK' /\ Kept
    BY <1>0, <1>1, <1>2, <1>5, LinkStep DEF PublishConfig, Journaled, Publishing
  <2>2. \A f : Cand(r, f)' = Cand(r, f)
    BY <1>5 DEF PublishConfig, LinkCandidate, Cand
  <2>3. CASE SetLive(Config, New(r, Config)) /\ pc'[p] = "unconfig"
    <3>1. live'[Config] = New(r, Config) /\ \A f \in Paths \ {Config} : live'[f] = live[f]
      BY <1>0, <1>2, <2>3 DEF SetLive, TypeOK
    <3>2. \A f \in Touched(r) : Written(r, f)'
      BY <1>2, <1>3, <3>1 DEF Written, New
    <3>3. LocalAt(p)'
      BY <1>1, <1>2, <1>3, <1>4, <2>2, <2>3, <3>2
      DEF LocalAt, Quiet, Journaled, Publishing, Undoing, Clearing
    <3> QED BY <2>1, <3>3 DEF Steady
  <2>4. CASE pc'[p] = "abort"
    <3>1. LocalAt(p)'
      BY <1>0, <1>1, <1>4, <2>4, PublishingLocal DEF Publishing, Journaled
    <3> QED BY <2>1, <3>1 DEF Steady
  <2> QED BY <1>0, <1>1, <1>5, <2>3, <2>4 DEF PublishConfig, LinkCandidate, Goto, TypeOK
<1>6. CASE DropConfig(p)
  <2>1. /\ \A g \in Paths : Cand(r, g)' = IF g = Config THEN Absent ELSE Cand(r, g)
        /\ pc[p] = "unconfig" /\ pc'[p] = "commit" /\ live' = live
    BY <1>0, <1>1, <1>2, <1>6 DEF DropConfig, SetCand, Cand, Goto, TypeOK, At
  <2>2. JournalOK' /\ Kept
    BY <1>2, <1>4, <2>1, CandFrame
  <2>3. \A f \in Touched(r) : Written(r, f)'
    BY <1>0, <1>1, <1>2, <2>1 DEF Written, LocalAt
  <2>4. \A f \in Paths : Cand(r, f)' # Torn
    BY <1>3, <2>1, PublisherAssumption
  <2>5. LocalAt(p)'
    BY <1>1, <1>2, <1>4, <2>1, <2>3, <2>4
    DEF LocalAt, Quiet, Journaled, Publishing, Undoing, Clearing
  <2> QED BY <2>2, <2>5 DEF Steady
<1> QED BY <1>5, <1>6

-----------------------------------------------------------------------------
\* The rollback.

\* The file to restore next is the only one.
LEMMA NextIsOne ==
  ASSUME IInv, NEW p \in Publishers, NEW f \in Paths, NEW g \in Paths,
         NextRestored(p, f), NextRestored(p, g)
  PROVE  f = g
<1>1. \A S \in SUBSET Paths : IsLast(f, S) /\ IsLast(g, S) => f = g
  BY PublisherAssumption DEF IsLast
<1>2. todo[p] \in SUBSET Paths
  BY DEF IInv, TypeOK
<1> QED BY <1>1, <1>2 DEF NextRestored

LEMMA RestoreStep ==
  ASSUME IInv, NEW p \in Publishers, NEW f \in Paths, Restore(p, f)
  PROVE  Steady(p)
<1>0. TypeOK /\ LocalAt(p) /\ pc[p] = "rollback"
  BY DEF IInv, Restore, At
<1>1. PICK r : r = tx[p]
  OBVIOUS
<1>2. /\ r \in Transaction /\ pending = r /\ committed \notin Transaction
      /\ r.token \in Tokens /\ Touched(r) \subseteq Paths /\ Config \in Touched(r) /\ Sound(r)
  BY <1>0, <1>1, Journaling DEF Undoing
<1>3. UNCHANGED <<cand, pending, committed, lock, tx, tok>>
  BY DEF Restore
<1>4. /\ todo[p] \subseteq Touched(r) /\ \A g \in Touched(r) \ todo[p] : Before(r, g)
  BY <1>0, <1>1 DEF LocalAt
<1>5. f \in todo[p] /\ f \in Touched(r)
  <2>1. f \in todo[p]
    BY DEF Restore, NextRestored, IsLast
  <2> QED BY <1>4, <2>1
<1>6. r.prev[f] # Foreign /\ New(r, f) # Foreign /\ Absent # Foreign
  BY <1>2, <1>5, NewType, PublisherAssumption DEF Sound
<1>7. CASE Untouched(r, f) /\ UNCHANGED <<live, backup, pc>> /\ Left(p, todo[p] \ {f})
  <2>1. JournalOK' /\ Kept
    BY <1>3, <1>7, DataFrame
  <2>2. \A g \in Touched(r) \ todo'[p] : Before(r, g)'
    BY <1>0, <1>4, <1>7 DEF Before, Untouched, Left, TypeOK
  <2>3. todo'[p] \subseteq Touched(r) /\ pc'[p] = "rollback"
    BY <1>0, <1>4, <1>7 DEF Left, TypeOK
  <2>4. LocalAt(p)'
    BY <1>0, <1>1, <1>3, <2>2, <2>3, UndoingLocal DEF Undoing
  <2> QED BY <2>1, <2>4 DEF Steady
<1>8. CASE Added(r, f) /\ SetLive(f, Absent) /\ Left(p, todo[p] \ {f}) /\ UNCHANGED <<backup, pc>>
  <2>1. live'[f] = Absent /\ \A g \in Paths \ {f} : live'[g] = live[g]
    BY <1>0, <1>8 DEF SetLive, TypeOK
  <2>2. \A g \in Paths : Backup(r, g)' = Backup(r, g)
    BY <1>8 DEF Backup
  <2>3. Undoable(r, f)'
    BY <1>8, <2>1, <2>2 DEF Added, Undoable, Restorable, Untouched
  <2>4. JournalOK' /\ Kept
    BY <1>2, <1>3, <1>5, <1>6, <1>8, <2>1, <2>2, <2>3, FileFrame DEF Added
  <2>5. todo'[p] = todo[p] \ {f} /\ pc'[p] = "rollback"
    BY <1>0, <1>8 DEF Left, TypeOK
  <2>6. \A g \in Touched(r) \ todo'[p] : Before(r, g)'
    BY <1>2, <1>4, <1>8, <2>1, <2>5 DEF Before, Added
  <2>7. LocalAt(p)'
    BY <1>0, <1>1, <1>3, <1>4, <2>5, <2>6, UndoingLocal DEF Undoing
  <2> QED BY <2>4, <2>7 DEF Steady
<1>9. CASE /\ Vacated(r, f) /\ SetLive(f, Backup(r, f)) /\ SetBackup(r, f, Absent)
           /\ Left(p, todo[p] \ {f}) /\ UNCHANGED pc
  <2>1. live'[f] = r.prev[f] /\ \A g \in Paths \ {f} : live'[g] = live[g]
    BY <1>0, <1>9 DEF SetLive, Vacated, TypeOK
  <2>2. Backup(r, f)' = Absent /\ \A g \in Paths \ {f} : Backup(r, g)' = Backup(r, g)
    BY <1>0, <1>2, <1>9 DEF SetBackup, Backup, TypeOK
  <2>3. Undoable(r, f)'
    BY <2>1, <2>2 DEF Undoable, Restorable, Untouched
  <2>4. JournalOK' /\ Kept
    BY <1>2, <1>3, <1>5, <1>6, <1>9, <2>1, <2>2, <2>3, FileFrame DEF Vacated
  <2>5. todo'[p] = todo[p] \ {f} /\ pc'[p] = "rollback"
    BY <1>0, <1>9 DEF Left, TypeOK
  <2>6. \A g \in Touched(r) \ todo'[p] : Before(r, g)'
    BY <1>2, <1>4, <2>1, <2>5 DEF Before
  <2>7. LocalAt(p)'
    BY <1>0, <1>1, <1>3, <1>4, <2>5, <2>6, UndoingLocal DEF Undoing
  <2> QED BY <2>4, <2>7 DEF Steady
<1>10. CASE Replaced(r, f) /\ SetLive(f, Absent) /\ Goto(p, "putBack") /\ UNCHANGED <<backup, todo>>
  <2>1. live'[f] = Absent /\ \A g \in Paths \ {f} : live'[g] = live[g]
    BY <1>0, <1>10 DEF SetLive, TypeOK
  <2>2. \A g \in Paths : Backup(r, g)' = Backup(r, g)
    BY <1>10 DEF Backup
  <2>3. Vacated(r, f)'
    BY <1>5, <1>10, <2>1, <2>2 DEF Replaced, Vacated, Backup
  <2>4. JournalOK' /\ Kept
    BY <1>2, <1>3, <1>5, <1>6, <1>10, <2>1, <2>2, <2>3, FileFrame DEF Replaced, Undoable, Restorable
  <2>5. todo'[p] = todo[p] /\ pc'[p] = "putBack"
    BY <1>0, <1>10 DEF Goto, TypeOK
  <2>6. \A g \in Touched(r) \ todo'[p] : Before(r, g)'
    BY <1>2, <1>4, <1>5, <2>1, <2>5 DEF Before
  <2>7. \A g \in Paths : NextRestored(p, g)' => NextRestored(p, g)
    BY <1>3, <2>5 DEF NextRestored
  <2>8. \A g \in Paths : NextRestored(p, g)' => g = f
    BY <2>7, NextIsOne DEF Restore
  <2>9. LocalAt(p)'
    BY <1>0, <1>1, <1>3, <1>4, <2>3, <2>5, <2>6, <2>8, UndoingLocal DEF Undoing
  <2> QED BY <2>4, <2>9 DEF Steady
<1>11. CASE Goto(p, "idle") /\ UNCHANGED <<live, backup, todo>>
  <2>1. JournalOK' /\ Kept
    BY <1>3, <1>11, DataFrame
  <2>2. pc'[p] = "idle"
    BY <1>0, <1>11 DEF Goto, TypeOK
  <2> QED BY <2>1, <2>2, Resting DEF Steady
<1> QED BY <1>1, <1>7, <1>8, <1>9, <1>10, <1>11 DEF Restore

LEMMA PutBackStep ==
  ASSUME IInv, NEW p \in Publishers, NEW f \in Paths, PutBack(p, f)
  PROVE  Steady(p)
<1>0. TypeOK /\ LocalAt(p) /\ pc[p] = "putBack"
  BY DEF IInv, PutBack, At
<1>1. PICK r : r = tx[p]
  OBVIOUS
<1>2. /\ r \in Transaction /\ pending = r /\ committed \notin Transaction
      /\ r.token \in Tokens /\ Touched(r) \subseteq Paths /\ Config \in Touched(r) /\ Sound(r)
  BY <1>0, <1>1, Journaling DEF Undoing
<1>3. UNCHANGED <<cand, pending, committed, lock, tx, tok>>
  BY DEF PutBack
<1>4. /\ todo[p] \subseteq Touched(r) /\ \A g \in Touched(r) \ todo[p] : Before(r, g)
      /\ Vacated(r, f)
  BY <1>0, <1>1 DEF LocalAt, PutBack
<1>5. r.prev[f] # Foreign /\ Absent # Foreign
  BY <1>2, PublisherAssumption DEF Sound
<1>6. live'[f] = r.prev[f] /\ \A g \in Paths \ {f} : live'[g] = live[g]
  BY <1>0, <1>1, <1>4 DEF PutBack, SetLive, Vacated, TypeOK
<1>7. Backup(r, f)' = Absent /\ \A g \in Paths \ {f} : Backup(r, g)' = Backup(r, g)
  BY <1>0, <1>1, <1>2 DEF PutBack, SetBackup, Backup, TypeOK
<1>8. Undoable(r, f)'
  BY <1>6, <1>7 DEF Undoable, Restorable, Untouched
<1>9. f \in Touched(r)
  <2>1. f \in todo[p] \/ f = Config
    BY DEF PutBack, NextRestored, IsLast
  <2> QED BY <1>2, <1>4, <2>1
<1>10. JournalOK' /\ Kept
  BY <1>2, <1>3, <1>4, <1>5, <1>6, <1>7, <1>8, <1>9, FileFrame DEF Vacated
<1>11. todo'[p] = todo[p] \ {f} /\ pc'[p] = "rollback"
  BY <1>0 DEF PutBack, Left, Goto, TypeOK
<1>12. \A g \in Touched(r) \ todo'[p] : Before(r, g)'
  BY <1>2, <1>4, <1>6, <1>11 DEF Before
<1>13. LocalAt(p)'
  BY <1>0, <1>1, <1>3, <1>4, <1>11, <1>12, UndoingLocal DEF Undoing
<1> QED BY <1>10, <1>13 DEF Steady

LEMMA ScrapStep ==
  ASSUME IInv, NEW p \in Publishers, NEW f \in Paths, Scrap(p, f)
  PROVE  Steady(p)
<1>0. TypeOK /\ LocalAt(p) /\ pc[p] = "scrap"
  BY DEF IInv, Scrap, At
<1>1. PICK r : r = tx[p]
  OBVIOUS
<1>2. /\ r \in Transaction /\ pending = r /\ committed \notin Transaction
      /\ r.token \in Tokens /\ Touched(r) \subseteq Paths
  BY <1>0, <1>1, Journaling DEF Undoing
<1>3. UNCHANGED <<live, backup, pending, committed, lock, tx, tok>>
  BY DEF Scrap
<1>4. pc'[p] \in {"scrap", "unpend", "idle"} /\ \A g \in Paths : Cand(r, g)' \in {Cand(r, g), Absent}
  BY <1>0, <1>1, <1>2 DEF Scrap, Goto, SetCand, Cand, TypeOK
<1>5. JournalOK' /\ Kept
  BY <1>2, <1>3, <1>4, CandFrame
<1>6. \A g \in Touched(r) : Before(r, g)'
  BY <1>0, <1>1, <1>3 DEF LocalAt, Before
<1>7. LocalAt(p)'
  BY <1>0, <1>1, <1>3, <1>4, <1>6, UndoingLocal DEF Undoing
<1> QED BY <1>5, <1>7 DEF Steady

LEMMA UnpendStep ==
  ASSUME IInv, NEW p \in Publishers, Unpend(p)
  PROVE  Steady(p)
<1>0. TypeOK /\ LocalAt(p) /\ pc[p] = "unpend"
  BY DEF IInv, Unpend, At
<1>1. PICK r : r = tx[p]
  OBVIOUS
<1>2. /\ r \in Transaction /\ pending = r /\ committed \notin Transaction
      /\ r # Absent /\ \A f \in Touched(r) : Before(r, f)
  BY <1>0, <1>1, Journaling, RecordType DEF Undoing, LocalAt
<1>3. UNCHANGED <<live, cand, backup, committed, lock>> /\ pending' = Absent
  BY <1>2 DEF Unpend
<1>4. Kept
  BY <1>2, <1>3, JournalAssumption DEF Kept, Understood, Before
<1>5. JournalOK'
  BY <1>2, <1>3, JournalAssumption DEF JournalOK, PendingOK, UndecidedOK, Undecided, CommittedOK
<1>6. pc'[p] \in {"release", "dropStale", "idle"} /\ NoJournal'
  BY <1>0, <1>2, <1>3 DEF Unpend, Done, Goto, TypeOK, NoJournal
<1>7. LocalAt(p)'
  BY <1>6 DEF LocalAt, Quiet, Journaled, Publishing, Undoing, Clearing
<1> QED BY <1>4, <1>5, <1>7 DEF Steady

-----------------------------------------------------------------------------
\* The point of no return and what follows it.

\* The files as they are understood become those of generation g.
Becomes(g) == \A f \in Paths :
  Understood(f)' = IF Understood(f) = Foreign THEN Foreign ELSE Output[g][f]

Vanished(f) == Understood(f) \in {Absent, Foreign}

Loses(f) ==
  /\ Understood(f) # Foreign /\ (f # Config => Vanished(Config))
  /\ f = Manifest => \A g \in Paths \ {Manifest} : Vanished(g)
  /\ \A g \in Paths : Understood(g)' = IF g = f THEN Absent ELSE Understood(g)

Replaces(f) == \A g \in Paths : Understood(g)' = IF g = f THEN Foreign ELSE Understood(g)

Change ==
  Kept \/ (\E g \in Gens : Becomes(g)) \/ (\E f \in Paths : Loses(f) \/ Replaces(f))

LEMMA CommitStep ==
  ASSUME IInv, ~ HandlerFaults, NEW p \in Publishers, Commit(p)
  PROVE  JournalOK' /\ Change /\ LocalAt(p)'
<1>0. TypeOK /\ LocalAt(p) /\ pc[p] = "commit"
  BY DEF IInv, Commit, At
<1>1. PICK r : r = tx[p]
  OBVIOUS
<1>2. /\ r \in Transaction /\ pending = r /\ committed \notin Transaction /\ r.gen \in Gens
      /\ r.token = tok[p] /\ Touched(r) \subseteq Paths
      /\ Sound(r) /\ Around(r) /\ \A f \in Touched(r) : Undoable(r, f)
      /\ \A f \in Touched(r) : Cand(r, f) \in {Absent, New(r, f), Torn}
  BY <1>0, <1>1, Journaling, RecordType DEF Journaled, Publishing, LocalAt
<1>3. /\ \A f \in Touched(r) : Written(r, f)
      /\ \A f \in Paths : Cand(r, f) # Torn
  BY <1>0, <1>1 DEF LocalAt, Publishing
<1>4. UNCHANGED <<live, cand, backup, pending, lock, tx, tok>>
  BY DEF Commit
<1>5. CASE committed' = r /\ pc'[p] = "reread"
  <2>1. \A f \in Touched(r) : Landed(r, f)
    BY <1>2, <1>3
    DEF Landed, Written, Undoable, Restorable, Untouched, Added, Vacated, Replaced
  <2>2. \A f : /\ Landed(r, f)' = Landed(r, f) /\ Cand(r, f)' = Cand(r, f)
               /\ Around(r)' = Around(r)
    BY <1>4 DEF Landed, Backup, Cand, Around
  <2>3. lock = r.token /\ r # Absent
    BY <1>2, RecordType DEF IInv, PendingOK
  <2>4. CommittedOK'
    BY <1>2, <1>3, <1>4, <1>5, <2>1, <2>2, <2>3 DEF CommittedOK, New, Sound
  <2>5. PendingOK' /\ UndecidedOK'
    BY <1>2, <1>4, <1>5, <2>3 DEF PendingOK, UndecidedOK, Undecided, Sound
  <2>6. Becomes(r.gen)
    <3>1. ASSUME NEW f \in Paths
          PROVE  Understood(f)' = IF Understood(f) = Foreign THEN Foreign ELSE Output[r.gen][f]
      <4>1. CASE f \in Touched(r)
        BY <1>2, <1>4, <1>5, <4>1 DEF Understood, Sound, New
      <4>2. CASE f \notin Touched(r)
        BY <1>2, <1>4, <1>5, <4>2 DEF Understood, Around, New
      <4> QED BY <4>1, <4>2
    <3> QED BY <3>1 DEF Becomes
  <2>7. LocalAt(p)'
    BY <1>1, <1>2, <1>4, <1>5 DEF LocalAt, Quiet, Journaled, Publishing, Undoing, Clearing
  <2> QED BY <1>2, <2>4, <2>5, <2>6, <2>7 DEF JournalOK, Change
<1>6. CASE committed' \in {committed, Torn} /\ pc'[p] \in {"idle", "abort"}
  <2>1. committed' \notin Transaction
    BY <1>2, <1>6, JournalAssumption
  <2>2. Kept
    BY <1>2, <1>4, <2>1 DEF Kept, Understood
  <2>3. \A f : /\ Undoable(r, f)' = Undoable(r, f) /\ Cand(r, f)' = Cand(r, f)
               /\ Around(r)' = Around(r) /\ Origin(r)' = Origin(r)
    BY <1>4 DEF Undoable, Restorable, Untouched, Added, Vacated, Replaced, Backup, Cand, Around, Origin
  <2>4. Origin(r)
    BY <1>2 DEF IInv, UndecidedOK, Undecided
  <2>5. UndecidedOK'
    BY <1>2, <1>4, <2>1, <2>3, <2>4 DEF UndecidedOK, Undecided, New
  <2>6. PendingOK' /\ CommittedOK'
    BY <1>4, <2>1 DEF IInv, PendingOK, CommittedOK, Sound
  <2>7. LocalAt(p)'
    BY <1>1, <1>2, <1>4, <1>6, <2>1 DEF LocalAt, Quiet, Journaled, Publishing, Undoing, Clearing
  <2> QED BY <2>2, <2>5, <2>6, <2>7 DEF JournalOK, Change
<1> QED BY <1>0, <1>1, <1>5, <1>6 DEF Commit, BreaksOff, Goto, TypeOK

LEMMA ForwardStep ==
  ASSUME IInv, NEW p \in Publishers, ForwardPending(p) \/ \E f \in Paths : Forward(p, f)
  PROVE  Steady(p)
<1>0. TypeOK /\ LocalAt(p) /\ pc[p] = "forward"
  BY DEF IInv, ForwardPending, Forward, At
<1>1. PICK r : r = tx[p]
  OBVIOUS
<1>2. r \in Transaction /\ committed = r /\ r.token \in Tokens /\ Touched(r) \subseteq Paths
  BY <1>0, <1>1, RecordType DEF LocalAt, Clearing
<1>3. UNCHANGED <<live, committed, lock, tx, tok>>
  BY DEF ForwardPending, Forward
<1>4. CASE ForwardPending(p)
  <2>1. UNCHANGED <<cand, backup>> /\ pending' \in {Absent, pending}
    BY <1>4 DEF ForwardPending
  <2>2. JournalOK' /\ Kept
    BY <1>2, <1>3, <2>1, ClearFrame DEF Cand, Backup
  <2>3. pc'[p] = "idle" \/ (pc'[p] = "forwardCommitted" /\ pending' = Absent)
    BY <1>0, <1>4 DEF ForwardPending, Goto, TypeOK
  <2>4. LocalAt(p)'
    BY <1>1, <1>2, <1>3, <2>3 DEF LocalAt, Quiet, Journaled, Publishing, Undoing, Clearing
  <2> QED BY <2>2, <2>4 DEF Steady
<1>5. ASSUME NEW f \in Paths, Forward(p, f) PROVE Steady(p)
  <2>1. \A g \in Paths : /\ Cand(r, g)' \in {Cand(r, g), Absent}
                         /\ Backup(r, g)' \in {Backup(r, g), Absent}
    BY <1>0, <1>1, <1>2, <1>5 DEF Forward, SetCand, SetBackup, Cand, Backup, TypeOK
  <2>2. JournalOK' /\ Kept
    BY <1>2, <1>3, <1>5, <2>1, ClearFrame DEF Forward
  <2>3. pc'[p] \in {"idle", "forward"}
    BY <1>0, <1>5 DEF Forward, Goto, TypeOK
  <2>4. LocalAt(p)'
    BY <1>1, <1>2, <1>3, <2>3 DEF LocalAt, Quiet, Journaled, Publishing, Undoing, Clearing
  <2> QED BY <2>2, <2>4 DEF Steady
<1> QED BY <1>4, <1>5

LEMMA ForwardCommittedStep ==
  ASSUME IInv, NEW p \in Publishers, ForwardCommitted(p)
  PROVE  Steady(p)
<1>0. TypeOK /\ LocalAt(p) /\ pc[p] = "forwardCommitted"
  BY DEF IInv, ForwardCommitted, At
<1>1. PICK r : r = tx[p]
  OBVIOUS
<1>2. /\ r \in Transaction /\ committed = r /\ pending = Absent
      /\ \A f \in Touched(r) : Landed(r, f)
  BY <1>0, <1>1 DEF LocalAt, Clearing, IInv, CommittedOK
<1>3. UNCHANGED <<live, cand, backup, pending, lock>> /\ committed' = Absent
  BY <1>1, <1>2 DEF ForwardCommitted
<1>4. Kept
  BY <1>2, <1>3, JournalAssumption DEF Kept, Understood, Landed
<1>5. JournalOK'
  BY <1>2, <1>3, JournalAssumption DEF JournalOK, PendingOK, UndecidedOK, Undecided, CommittedOK
<1>6. pc'[p] \in {"release", "dropStale"} /\ NoJournal'
  BY <1>0, <1>1, <1>2, <1>3, JournalAssumption DEF ForwardCommitted, Done, Goto, TypeOK, NoJournal
<1>7. LocalAt(p)'
  BY <1>6 DEF LocalAt, Quiet, Journaled, Publishing, Undoing, Clearing
<1> QED BY <1>4, <1>5, <1>7 DEF Steady

-----------------------------------------------------------------------------
\* Teardown and hand-made replacements.

LEMMA PlainView ==
  ASSUME NoJournal
  PROVE  \A f : Understood(f) = live[f]
BY JournalAssumption DEF NoJournal, Understood

LEMMA RemoveStep ==
  ASSUME IInv, NEW p \in Publishers, NEW f \in Paths, RemoveFile(p, f)
  PROVE  JournalOK' /\ Change /\ LocalAt(p)'
<1>0. TypeOK /\ LocalAt(p) /\ pc[p] = "remove" /\ todo[p] \in SUBSET Paths
  BY DEF IInv, RemoveFile, At, TypeOK
<1>1. PICK r : r = tx[p]
  OBVIOUS
<1>2. /\ NoJournal /\ r \in Transaction /\ r.gen \in Gens /\ todo[p] \subseteq Owned(r.gen)
      /\ \A g \in Owned(r.gen) \ todo[p] : live[g] \in {Absent, Foreign}
  BY <1>0, <1>1, RecordType DEF LocalAt, Quiet
<1>3. UNCHANGED <<cand, backup, pending, committed, lock, tx, tok>> /\ NoJournal'
  BY <1>2 DEF RemoveFile, NoJournal
<1>4. CASE UNCHANGED <<live, todo>> /\ Goto(p, "release")
  <2>1. JournalOK' /\ Kept
    BY <1>3, <1>4, DataFrame
  <2>2. pc'[p] = "release"
    BY <1>0, <1>4 DEF Goto, TypeOK
  <2>3. LocalAt(p)'
    BY <1>3, <2>2 DEF LocalAt, Quiet, Journaled, Publishing, Undoing, Clearing
  <2> QED BY <2>1, <2>3 DEF Change
<1>5. CASE /\ live[f] = New(r, f) /\ SetLive(f, Absent) /\ Left(p, todo[p] \ {f})
           /\ Goto(p, IF todo[p] = {f} THEN "release" ELSE "remove")
  <2>1. live'[f] = Absent /\ \A g \in Paths \ {f} : live'[g] = live[g]
    BY <1>0, <1>5 DEF SetLive, TypeOK
  <2>2. todo'[p] = todo[p] \ {f} /\ pc'[p] \in {"release", "remove"}
    BY <1>0, <1>5 DEF Left, Goto, TypeOK
  <2>3. Config # Manifest /\ Config \in Owned(r.gen) /\ Manifest \in Owned(r.gen)
        /\ Config \in Paths /\ Manifest \in Paths /\ Absent # Foreign
    BY <1>2, PublisherAssumption
  <2>4. f # Config => Config \notin todo[p]
    BY DEF RemoveFile, NextRemoved
  <2>5. f = Manifest => todo[p] = {Manifest}
    BY <2>3, <2>4 DEF RemoveFile, NextRemoved, IsFirst
  <2>6. live[f] # Foreign
    BY <1>2, <1>5, NewType
  <2>7. f # Config => live[Config] \in {Absent, Foreign}
    BY <1>2, <2>3, <2>4
  <2>8. f = Manifest => \A g \in Paths \ {Manifest} : live[g] \in {Absent, Foreign}
    <3>1. SUFFICES ASSUME f = Manifest, NEW g \in Paths \ {Manifest}
                   PROVE  live[g] \in {Absent, Foreign}
      OBVIOUS
    <3>2. CASE g \in Owned(r.gen)
      BY <1>2, <2>5, <3>1, <3>2
    <3>3. CASE g \notin Owned(r.gen)
      <4>1. live[Manifest] = Output[r.gen][Manifest]
        BY <1>5, <3>1 DEF New
      <4>2. Output[r.gen][g] = Absent
        BY <1>2, <3>3, OutputType
      <4> QED BY <1>2, <4>1, <4>2, PlainFiles
    <3> QED BY <3>2, <3>3
  <2>9. \A g : Understood(g) = live[g] /\ Understood(g)' = live'[g]
    BY <1>2, <1>3, JournalAssumption DEF NoJournal, Understood
  <2>10. Loses(f)
    BY <2>1, <2>3, <2>6, <2>7, <2>8, <2>9 DEF Loses, Vanished
  <2>11. JournalOK'
    BY <1>3, JournalAssumption
    DEF JournalOK, PendingOK, UndecidedOK, Undecided, CommittedOK, NoJournal
  <2>12. LocalAt(p)'
    <3>1. todo'[p] \subseteq Owned(r.gen)
          /\ \A g \in Owned(r.gen) \ todo'[p] : live'[g] \in {Absent, Foreign}
      BY <1>2, <2>1, <2>2 DEF Owned
    <3> QED BY <1>1, <1>2, <1>3, <2>2, <3>1
            DEF LocalAt, Quiet, Journaled, Publishing, Undoing, Clearing
  <2> QED BY <2>10, <2>11, <2>12 DEF Change
<1> QED BY <1>1, <1>4, <1>5 DEF RemoveFile

LEMMA EditStep ==
  ASSUME IInv, NEW f \in Paths, Edit(f)
  PROVE  JournalOK' /\ Change /\ \A p \in Publishers : LocalAt(p)'
<1>1. /\ live'[f] = Foreign /\ \A g \in Paths \ {f} : live'[g] = live[g]
      /\ UNCHANGED <<cand, backup, recCand, pending, committed, lock, used, pc, tok, job, rcv, tx, todo>>
      /\ \A p \in Publishers : pc[p] # "putBack"
  BY DEF Edit, SetLive, At, IInv, TypeOK
<1>2. \A r, g : Cand(r, g)' = Cand(r, g) /\ Backup(r, g)' = Backup(r, g)
  BY <1>1 DEF Cand, Backup
<1>3. ASSUME NEW r \in Transaction
      PROVE  /\ Around(r) => Around(r)' /\ (Origin(r) => Origin(r)')
             /\ \A g \in Paths : /\ Undoable(r, g) => Undoable(r, g)'
                                 /\ Landed(r, g) => Landed(r, g)'
                                 /\ Before(r, g) => Before(r, g)'
                                 /\ Written(r, g) => Written(r, g)'
  <2>1. Around(r) => Around(r)'
    BY <1>1 DEF Around, New
  <2>2. ASSUME Origin(r) PROVE Origin(r)'
    <3>1. SUFFICES ASSUME r.prev[Config] # Absent
                   PROVE  \E h \in Gens : \A g \in Paths :
                            IF g \in Touched(r) THEN r.prev[g] = Output[h][g]
                                                ELSE live'[g] \in {Output[h][g], Foreign}
      BY DEF Origin
    <3>2. PICK h \in Gens : \A g \in Paths :
            IF g \in Touched(r) THEN r.prev[g] = Output[h][g]
                                ELSE live[g] \in {Output[h][g], Foreign}
      BY <2>2, <3>1 DEF Origin
    <3>3. \A g \in Paths : IF g \in Touched(r) THEN r.prev[g] = Output[h][g]
                           ELSE live'[g] \in {Output[h][g], Foreign}
      BY <1>1, <3>2
    <3> QED BY <3>3
  <2>3. ASSUME NEW g \in Paths
        PROVE  /\ Undoable(r, g) => Undoable(r, g)'
               /\ Landed(r, g) => Landed(r, g)'
               /\ Before(r, g) => Before(r, g)'
               /\ Written(r, g) => Written(r, g)'
    <3>1. CASE g = f
      BY <1>1, <3>1 DEF Undoable, Landed, Before, Written
    <3>2. CASE g # f
      BY <1>1, <1>2, <3>2
      DEF Undoable, Restorable, Untouched, Added, Vacated, Replaced, Landed, Before, Written, New
    <3> QED BY <3>1, <3>2
  <2> QED BY <2>1, <2>2, <2>3
<1>4. \A r \in Transaction : Touched(r) \subseteq Paths
  BY RecordType
<1>5. PendingOK' /\ UndecidedOK' /\ CommittedOK'
  <2>1. PendingOK'
    BY <1>1 DEF IInv, PendingOK, Sound
  <2>2. UndecidedOK'
    BY <1>1, <1>2, <1>3, <1>4 DEF IInv, UndecidedOK, Undecided, New
  <2>3. CommittedOK'
    BY <1>1, <1>2, <1>3, <1>4 DEF IInv, CommittedOK, Sound, New
  <2> QED BY <2>1, <2>2, <2>3
<1>6. Replaces(f)
  BY <1>1 DEF Replaces, Understood, New
<1>7. ASSUME NEW p \in Publishers PROVE LocalAt(p)'
  <2>1. LocalAt(p) /\ pc[p] # "putBack"
    BY <1>1 DEF IInv
  <2>2. NoJournal' = NoJournal
    BY <1>1 DEF NoJournal
  <2>3. CASE tx[p] \in Transaction
    <3>1. \A g \in Owned(tx[p].gen) : g \in Paths
      BY DEF Owned
    <3>2. pc[p] = "remove" => \A g \in Owned(tx[p].gen) \ todo[p] : live'[g] \in {Absent, Foreign}
      BY <1>1, <2>1, <3>1 DEF LocalAt
    <3>3. /\ pc[p] \in {"writeRecord", "linkRecord"} => Around(tx[p])' /\ Origin(tx[p])'
          /\ \A g \in Touched(tx[p]) : /\ Before(tx[p], g) => Before(tx[p], g)'
                                       /\ Written(tx[p], g) => Written(tx[p], g)'
      <4>1. PICK r \in Transaction : r = tx[p]
        BY <2>3
      <4>2. /\ Around(r)' = Around(tx[p])' /\ Origin(r)' = Origin(tx[p])'
            /\ \A g : Before(r, g)' = Before(tx[p], g)' /\ Written(r, g)' = Written(tx[p], g)'
        BY <1>1, <4>1 DEF Around, Origin, Before, Written
      <4>3. pc[p] \in {"writeRecord", "linkRecord"} => Around(r) /\ Origin(r)
        BY <2>1, <4>1 DEF LocalAt
      <4> QED BY <1>3, <1>4, <4>1, <4>2, <4>3
    <3>4. Config \in Touched(tx[p]) \/ pc[p] \notin {"unconfig", "commit"}
      BY Journaling DEF Journaled, Publishing
    <3> QED
      BY <1>1, <1>2, <2>1, <2>2, <3>2, <3>3, <3>4
      DEF LocalAt, Quiet, Journaled, Publishing, Undoing, Clearing
  <2>4. CASE tx[p] \notin Transaction
    BY <1>1, <2>1, <2>2, <2>4 DEF LocalAt, Quiet, Journaled, Publishing, Undoing, Clearing
  <2> QED BY <2>3, <2>4
<1> QED BY <1>5, <1>6, <1>7 DEF JournalOK, Change

-----------------------------------------------------------------------------
\* The invariant is inductive.

LEMMA ManifestStep ==
  ASSUME IInv, Change
  PROVE  ManifestOK'
<1>0. Manifest \in Paths /\ Absent # Foreign
      /\ \A g \in Gens : Output[g][Manifest] \notin {Absent, Foreign}
  BY PublisherAssumption, OutputType
<1>1. CASE Kept
  BY <1>0, <1>1 DEF Kept, IInv, ManifestOK, Told
<1>2. ASSUME NEW g \in Gens, Becomes(g) PROVE ManifestOK'
  <2>1. Understood(Manifest)' # Absent
    BY <1>0, <1>2 DEF Becomes
  <2>2. ASSUME NEW h \in Gens, Understood(Manifest)' = Output[h][Manifest]
        PROVE  \A f \in Paths : Understood(f)' \in {Output[h][f], Absent, Foreign}
    <3>1. Output[g] = Output[h]
      BY <1>0, <1>2, <2>2, PublisherAssumption DEF Becomes
    <3> QED BY <1>2, <3>1 DEF Becomes
  <2> QED BY <2>1, <2>2 DEF ManifestOK, Told
<1>3. ASSUME NEW f \in Paths, Loses(f) PROVE ManifestOK'
  <2>1. \A g \in Paths : Understood(g)' \in {Understood(g), Absent}
    BY <1>3 DEF Loses
  <2>2. f = Manifest => \A g \in Paths : Understood(g)' \in {Absent, Foreign}
    BY <1>3 DEF Loses, Vanished
  <2>3. f # Manifest => Understood(Manifest)' = Understood(Manifest)
    BY <1>0, <1>3 DEF Loses
  <2>4. Understood(Manifest)' = Absent => \A g \in Paths : Understood(g)' \in {Absent, Foreign}
    BY <2>1, <2>2, <2>3 DEF IInv, ManifestOK
  <2>5. ASSUME NEW h \in Gens, Understood(Manifest)' = Output[h][Manifest]
        PROVE  \A g \in Paths : Understood(g)' \in {Output[h][g], Absent, Foreign}
    BY <2>1, <2>2, <2>3, <2>5 DEF IInv, ManifestOK, Told
  <2> QED BY <2>4, <2>5 DEF ManifestOK, Told
<1>4. ASSUME NEW f \in Paths, Replaces(f) PROVE ManifestOK'
  <2>1. \A g \in Paths : Understood(g)' \in {Understood(g), Foreign}
    BY <1>4 DEF Replaces
  <2>2. Understood(Manifest)' \in {Understood(Manifest), Foreign}
    BY <1>0, <2>1
  <2>3. Understood(Manifest)' = Absent => \A g \in Paths : Understood(g)' \in {Absent, Foreign}
    BY <1>0, <2>1, <2>2 DEF IInv, ManifestOK
  <2>4. ASSUME NEW h \in Gens, Understood(Manifest)' = Output[h][Manifest]
        PROVE  \A g \in Paths : Understood(g)' \in {Output[h][g], Absent, Foreign}
    BY <1>0, <2>1, <2>2, <2>4 DEF IInv, ManifestOK, Told
  <2> QED BY <2>3, <2>4 DEF ManifestOK, Told
<1> QED BY <1>1, <1>2, <1>3, <1>4 DEF Change

LEMMA PublisherStep ==
  ASSUME IInv, ~ HandlerFaults, NEW p \in Publishers, Step(p) \/ \E f \in Paths : FileStep(p, f)
  PROVE  JournalOK' /\ Change /\ LocalAt(p)'
<1>1. CASE Locking(p)
  BY <1>1, LockingStep DEF Change
<1>2. CASE Deciding(p)
  BY <1>2, DecidingStep DEF Change
<1>3. CASE Steady(p)
  BY <1>3 DEF Steady, Change
<1>4. CASE Step(p) /\ ~ Locking(p) /\ ~ Deciding(p)
  <2>1. \/ LinkRecord(p) \/ Withdraw(p) \/ PublishConfig(p) \/ DropConfig(p)
        \/ ForwardPending(p) \/ ForwardCommitted(p) \/ Unpend(p) \/ Commit(p)
    BY <1>4 DEF Step, Locking, Deciding
  <2> QED
    BY <1>3, <2>1, LinkRecordStep, PublishingStep, ConfigStep, ForwardStep, ForwardCommittedStep,
       UnpendStep, CommitStep
<1>5. ASSUME NEW f \in Paths, FileStep(p, f) PROVE JournalOK' /\ Change /\ LocalAt(p)'
  BY <1>3, <1>5, PublishingStep, ForwardStep, RestoreStep, PutBackStep, ScrapStep, RemoveStep
  DEF FileStep
<1> QED BY <1>1, <1>2, <1>4, <1>5

LEMMA StepChange ==
  ASSUME IInv, ~ HandlerFaults, [Next]_vars
  PROVE  JournalOK' /\ Change /\ \A p \in Publishers : LocalAt(p)'
<1>1. ASSUME NEW p \in Publishers, Step(p) \/ \E f \in Paths : FileStep(p, f)
      PROVE  JournalOK' /\ Change /\ \A q \in Publishers : LocalAt(q)'
  BY <1>1, PublisherStep, OthersStep
<1>2. CASE UNCHANGED vars
  <2>1. JournalOK' /\ Kept
    BY <1>2, DataFrame DEF vars
  <2>2. ASSUME NEW q \in Publishers PROVE LocalAt(q)'
    <3>1. LocalAt(q)
      BY DEF IInv
    <3>2. \A f : NextRestored(q, f)' = NextRestored(q, f)
      BY <1>2 DEF vars, NextRestored
    <3> QED BY <1>2, <3>1, <3>2, SameView DEF LocalAt, vars
  <2> QED BY <2>1, <2>2 DEF Change
<1> QED BY <1>1, <1>2, EditStep DEF Next

LEMMA FreshNext ==
  ASSUME IInv, [Next]_vars
  PROVE  Fresh'
<1>1. CASE UNCHANGED <<cand, backup, used, pc, tok, rcv>>
  BY <1>1 DEF IInv, Fresh, Clean, Early, Busy
<1> QED BY <1>1, FreshStep DEF Next, Edit, vars

LEMMA StepInv == IInv /\ ~ Overlap /\ ~ HandlerFaults /\ [Next]_vars => IInv'
<1> SUFFICES ASSUME IInv, ~ Overlap, ~ HandlerFaults, [Next]_vars PROVE IInv'
  OBVIOUS
<1>1. JournalOK' /\ Change /\ \A p \in Publishers : LocalAt(p)'
  BY StepChange
<1>2. ManifestOK'
  BY <1>1, ManifestStep
<1>3. TypeOK' /\ Ownership' /\ Fresh'
  BY TypeStep, OwnershipStep, FreshNext
<1> QED BY <1>1, <1>2, <1>3 DEF IInv, JournalOK

-----------------------------------------------------------------------------
\* The theorems.

LEMMA Recovery == IInv => Recoverable
<1> SUFFICES ASSUME IInv, Intact PROVE Recoverable
  BY DEF Recoverable
<1>0. \A r \in Transaction : Touched(r) \subseteq Paths
  BY RecordType
<1>1. ASSUME committed \in Transaction
      PROVE  /\ lock = committed.token /\ pending \in {Absent, committed}
             /\ FinalMatches(committed)
             /\ \A f \in Touched(committed) :
                  /\ Cand(committed, f) \in {Absent, New(committed, f)}
                  /\ Backup(committed, f) \in {Absent, committed.prev[f]}
  <2>1. /\ lock = committed.token /\ pending \in {Absent, committed}
        /\ Sound(committed) /\ Around(committed)
        /\ \A f \in Touched(committed) :
             Landed(committed, f) /\ Cand(committed, f) \in {Absent, New(committed, f)}
    BY <1>1 DEF IInv, CommittedOK
  <2>2. \A f \in Paths : live[f] = New(committed, f)
    BY <1>0, <1>1, <2>1 DEF Intact, Landed, Around
  <2>3. FinalMatches(committed)
    BY <1>1, <2>1, <2>2, RecordType, OutputType DEF FinalMatches, Sound, Owned, New
  <2>4. \A f \in Touched(committed) : Backup(committed, f) \in {Absent, committed.prev[f]}
    BY <1>0, <1>1, <2>1 DEF Intact, Landed
  <2> QED BY <2>1, <2>3, <2>4
<1>2. ASSUME committed = Absent, pending \in Transaction
      PROVE  /\ lock = pending.token
             /\ \A f \in Touched(pending) :
                  /\ Restorable(pending, f)
                  /\ Cand(pending, f) \in {Absent, New(pending, f)}
  <2>1. /\ lock = pending.token /\ pending.token \in Tokens
        /\ \A f \in Touched(pending) :
             Undoable(pending, f) /\ Cand(pending, f) \in {Absent, New(pending, f), Torn}
    BY <1>2, JournalAssumption, RecordType DEF IInv, PendingOK, UndecidedOK, Undecided
  <2>2. \A f \in Touched(pending) : f \in Paths /\ live[f] # Foreign /\ Cand(pending, f) # Torn
    BY <1>0, <1>2, <2>1 DEF Intact, Cand
  <2> QED BY <2>1, <2>2 DEF Undoable
<1> QED BY <1>1, <1>2 DEF Recoverable

\* One whole generation, hand-made replacements excepted.
Whole == \E g \in Gens : \A f \in Paths : live'[f] \in {Output[g][f], Foreign}

LEMMA PublishedWhole ==
  ASSUME IInv, NEW p \in Publishers, PublishConfig(p), AuthorityAppears
  PROVE  Whole
<1>0. TypeOK /\ LocalAt(p) /\ pc[p] = "publish" /\ Config \in Paths
  BY PublisherAssumption DEF IInv, PublishConfig, At
<1>1. PICK r : r = tx[p]
  OBVIOUS
<1>2. /\ r \in Transaction /\ r.gen \in Gens /\ Around(r)
      /\ \A f \in Touched(r) \ {Config} : Written(r, f)
  BY <1>0, <1>1, Journaling, RecordType DEF Journaled, Publishing, LocalAt
<1>3. live' # live
  BY PublisherAssumption DEF AuthorityAppears
<1>4. live'[Config] = New(r, Config) /\ \A f \in Paths \ {Config} : live'[f] = live[f]
  BY <1>0, <1>1, <1>3 DEF PublishConfig, LinkCandidate, SetLive, TypeOK
<1>5. \A f \in Paths : live'[f] \in {Output[r.gen][f], Foreign}
  BY <1>2, <1>4 DEF Around, Written, New
<1> QED BY <1>2, <1>5 DEF Whole

\* A rollback that brings .buckconfig back has brought everything back.
LEMMA RestoredWhole ==
  ASSUME IInv, NEW p \in Publishers, NEW r, r = tx[p], pc[p] \in {"rollback", "putBack"},
         todo[p] # {}, NextRestored(p, Config), Vacated(r, Config),
         live'[Config] = Backup(r, Config),
         \A f \in Paths \ {Config} : live'[f] = live[f]
  PROVE  Whole
<1>1. /\ r \in Transaction /\ Touched(r) \subseteq Paths /\ Sound(r) /\ Origin(r) /\ r.gen \in Gens
      /\ todo[p] \subseteq Touched(r) /\ \A f \in Touched(r) \ todo[p] : Before(r, f)
      /\ Config \in Touched(r) /\ Config \in Paths
  BY Journaling, RecordType, PublisherAssumption DEF Undoing, IInv, LocalAt
<1>2. Config \notin r.obsolete
  BY <1>1, OutputType DEF Sound
<1>3. todo[p] \subseteq {Config}
  BY <1>2 DEF NextRestored, IsLast
<1>4. PICK h \in Gens : \A f \in Paths :
        IF f \in Touched(r) THEN r.prev[f] = Output[h][f] ELSE live[f] \in {Output[h][f], Foreign}
  BY <1>1 DEF Vacated, Origin
<1>5. \A f \in Paths : live'[f] \in {Output[h][f], Foreign}
  <2>1. live'[Config] = Output[h][Config]
    BY <1>1, <1>4 DEF Vacated
  <2>2. ASSUME NEW f \in Paths \ {Config} PROVE live'[f] \in {Output[h][f], Foreign}
    BY <1>1, <1>3, <1>4 DEF Before
  <2> QED BY <2>1, <2>2
<1> QED BY <1>5 DEF Whole

\* Only these steps make .buckconfig appear.
LEMMA AuthorityStep == IInv /\ [Next]_vars /\ AuthorityAppears => Whole
<1> SUFFICES ASSUME IInv, [Next]_vars, AuthorityAppears PROVE Whole
  OBVIOUS
<1>0. /\ TypeOK /\ Config \in Paths /\ Foreign \notin Contents /\ Absent \notin Contents
      /\ live[Config] = Absent /\ live'[Config] \in Contents
  BY PublisherAssumption DEF IInv, AuthorityAppears
<1>1. live' # live
  BY <1>0
<1>2. ASSUME NEW f, Edit(f) PROVE FALSE
  BY <1>0, <1>2 DEF Edit, SetLive, TypeOK
<1>3. ASSUME NEW p \in Publishers, Step(p) PROVE Whole
  <2>1. Withdraw(p) \/ PublishConfig(p)
    BY <1>1, <1>3
    DEF Step, Start, Acquire, Recover, DropStale, TakeLock, Release, Validate, WriteRecord,
        LinkRecord, DropRecord, AssertDesiredRoot, DropConfig, Commit, Reread, ForwardPending,
        ForwardCommitted, Abort, Restored, Unpend, ValidateTeardown, Throws, Dies, disk
  <2>2. CASE Withdraw(p)
    BY <1>0, <1>1, <2>2 DEF Withdraw, MovePrevious, MoveRefused, SetLive, TypeOK
  <2> QED BY <2>1, <2>2, PublishedWhole
<1>4. ASSUME NEW p \in Publishers, NEW f \in Paths, FileStep(p, f) PROVE Whole
  <2>1. PICK r : r = tx[p]
    OBVIOUS
  <2>2. MoveAway(p, f) \/ Install(p, f) \/ Restore(p, f) \/ PutBack(p, f) \/ RemoveFile(p, f)
    BY <1>1, <1>4 DEF FileStep, Stage, Drop, Forward, Scrap
  <2>3. CASE MoveAway(p, f) \/ RemoveFile(p, f)
    BY <1>0, <1>1, <2>3 DEF MoveAway, RemoveFile, MovePrevious, MoveRefused, SetLive, TypeOK
  <2>4. CASE Install(p, f)
    <3>1. f # Config
      BY <2>4 DEF Install, At, NextMoved, IsFirst, IInv, LocalAt
    <3> QED BY <1>0, <1>1, <2>4, <3>1 DEF Install, LinkCandidate, SetLive, TypeOK
  <2>5. CASE Restore(p, f)
    <3>1. /\ f = Config /\ Vacated(r, Config) /\ live'[Config] = Backup(r, Config)
          /\ \A g \in Paths \ {Config} : live'[g] = live[g]
      BY <1>0, <1>1, <2>1, <2>5 DEF Restore, SetLive, TypeOK
    <3> QED BY <2>1, <2>5, <3>1, RestoredWhole DEF Restore, At
  <2>6. CASE PutBack(p, f)
    <3>1. f = Config /\ live'[Config] = Backup(r, Config)
          /\ \A g \in Paths \ {Config} : live'[g] = live[g]
      BY <1>0, <1>1, <2>1, <2>6 DEF PutBack, SetLive, TypeOK
    <3>2. Vacated(r, Config)
      BY <1>0, <2>1, <2>6, <3>1 DEF PutBack, At, IInv, LocalAt
    <3>3. todo[p] # {}
      BY <2>6, <3>1 DEF PutBack, NextRestored, IsLast
    <3> QED BY <2>1, <2>6, <3>1, <3>2, <3>3, RestoredWhole DEF PutBack, At
  <2> QED BY <2>2, <2>3, <2>4, <2>5, <2>6
<1> QED BY <1>1, <1>2, <1>3, <1>4 DEF Next, vars

Content == [f \in Paths |-> Understood(f)]

LEMMA ContentInit == Init => Root!Init
<1> SUFFICES ASSUME Init PROVE Root!Init
  OBVIOUS
<1>1. \A f \in Paths : Understood(f) = Absent
  BY JournalAssumption, PublisherAssumption DEF Init, Understood
<1> QED BY <1>1 DEF Root!Init

LEMMA ContentStep == IInv /\ ~ HandlerFaults /\ [Next]_vars => [Root!Next]_Content
<1> SUFFICES ASSUME IInv, ~ HandlerFaults, [Next]_vars PROVE [Root!Next]_Content
  OBVIOUS
<1>1. Change
  BY StepChange
<1>2. CASE Kept
  BY <1>2 DEF Kept, Content
<1>3. ASSUME NEW g \in Gens, Becomes(g) PROVE Root!Next
  <2>1. Root!Publish(g)
    BY <1>3 DEF Becomes, Root!Publish
  <2> QED BY <2>1 DEF Root!Next
<1>4. ASSUME NEW f \in Paths, Loses(f) PROVE Root!Next
  <2>1. Root!Retract(f)
    BY <1>4, PublisherAssumption DEF Loses, Vanished, Root!Retract, Root!Gone
  <2> QED BY <2>1 DEF Root!Next
<1>5. ASSUME NEW f \in Paths, Replaces(f) PROVE Root!Next
  <2>1. Root!Edit(f)
    BY <1>5 DEF Replaces, Root!Edit
  <2> QED BY <2>1 DEF Root!Next
<1> QED BY <1>1, <1>2, <1>3, <1>4, <1>5 DEF Change

-----------------------------------------------------------------------------
\* Under a lock that serialises recoveries, and with a catch block that is spared
\* I/O errors, the invariant holds in every behaviour.
THEOREM PublisherInvariant ==
  ASSUME ~ Overlap, ~ HandlerFaults
  PROVE  Spec => []IInv
<1>1. Init => IInv
  BY InitInv
<1>2. IInv /\ [Next]_vars => IInv'
  BY StepInv
<1> QED BY <1>1, <1>2, PTL DEF Spec

\* The variables keep their types (the state of composition-root-publisher.ts).
THEOREM PublisherTypes ==
  ASSUME ~ Overlap, ~ HandlerFaults
  PROVE  Spec => []TypeOK
<1>1. IInv => TypeOK
  BY DEF IInv
<1> QED BY <1>1, PublisherInvariant, PTL

\* Never two publishers at work (acquireLock, releaseLock, recoverTransaction).
THEOREM PublisherExclusion ==
  ASSUME ~ Overlap, ~ HandlerFaults
  PROVE  Spec => []OnePublisher
BY Exclusion, PublisherInvariant, PTL

\* Whatever a crash leaves behind passes the checks of the next recovery
\* (rollbackTransaction, cleanupTransactionForward).
THEOREM PublisherRecovers ==
  ASSUME ~ Overlap, ~ HandlerFaults
  PROVE  Spec => []Recoverable
BY Recovery, PublisherInvariant, PTL

\* .buckconfig appears over a whole generation only (commitTransaction,
\* rollbackTransaction).
THEOREM PublisherAuthority ==
  ASSUME ~ Overlap, ~ HandlerFaults
  PROVE  Spec => AuthorityComesLast
<1>1. IInv /\ [Next]_vars =>
        [AuthorityAppears => \E g \in Gens : \A f \in Paths : live'[f] \in {Output[g][f], Foreign}]_vars
  BY AuthorityStep DEF Whole
<1> QED BY <1>1, PublisherInvariant, PTL DEF Spec, AuthorityComesLast

\* The journal implements the atomic change of the root.
THEOREM PublisherImplementsRoot ==
  ASSUME ~ Overlap, ~ HandlerFaults
  PROVE  Spec => AtomicRoot
<1>1. Init => Root!Init
  BY ContentInit
<1>2. IInv /\ [Next]_vars => [Root!Next]_Content
  BY ContentStep
<1> QED BY <1>1, <1>2, PublisherInvariant, PTL DEF Spec, AtomicRoot, Root!Spec, Content
=============================================================================
