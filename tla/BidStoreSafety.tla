--------------------------- MODULE BidStoreSafety ---------------------------
(***************************************************************************)
(* The states of the bid store are well typed, Inv is an inductive         *)
(* invariant of it, and its safety properties follow, for every set of     *)
(* bids, of workers and of handlers and every value of the limits.         *)
(***************************************************************************)
EXTENDS BidStoreInv, FiniteSetTheorems, TLAPS

-----------------------------------------------------------------------------
(* The operators the actions are built from.                                 *)

\* The in-memory record of no bid is a bid record (the zero value of Bid).
LEMMA FreshType ==
  /\ \A b \in Bids : Fresh(b) \in BidRecord /\ Fresh(b).id = b
  /\ NilBid \in BidRecord
  /\ Idle \in [pc: PCs, job: Job, status: Statuses]
<1>1. \A b \in Bids : Fresh(b) \in BidRecord /\ Fresh(b).id = b
  BY LimitsAssumption DEF Fresh, BidRecord, Statuses, AttemptCap
<1>2. NilBid \in BidRecord
  <2>1. (CHOOSE b \in Bids : TRUE) \in Bids  BY BidsAssumption
  <2> QED  BY <1>1, <2>1 DEF NilBid
<1>3. Idle \in [pc: PCs, job: Job, status: Statuses]
  BY <1>2 DEF Idle, PCs, Job, Statuses
<1> QED  BY <1>1, <1>2, <1>3

\* saveAndTransitionStatus writes an entry for the bid it is given.
LEMMA SaveType ==
  ASSUME NEW e \in Entry, NEW r \in BidRecord, NEW s \in Statuses
  PROVE  /\ Save(e, r, s) \in Entry
         /\ Save(e, r, s).bid.id = r.id
         /\ Save(e, r, s).bid.status = s
         /\ Save(e, r, s).bid.attempts = r.attempts
  BY DEF Save, Entry, BidRecord

\* enqueueDataURI writes an entry for the bid it is given.
LEMMA EnqueuedType ==
  ASSUME NEW e \in Entry, NEW r \in BidRecord, NEW room \in BOOLEAN
  PROVE  /\ Enqueued(e, r, room) \in Entry
         /\ Enqueued(e, r, room).bid.id = r.id
         /\ Enqueued(e, r, room).bid.status = IF room THEN "fetching_data" ELSE "queued_data"
         /\ Enqueued(e, r, room).bid.attempts = r.attempts
<1> DEFINE f == Save(e, r, "fetching_data")
<1>1. "fetching_data" \in Statuses /\ "queued_data" \in Statuses  BY DEF Statuses
<1>2. /\ f \in Entry /\ f.bid.id = r.id
      /\ f.bid.status = "fetching_data" /\ f.bid.attempts = r.attempts
  BY <1>1, SaveType
<1>2a. f.bid \in BidRecord  BY <1>2 DEF Entry
<1>3. CASE room      BY <1>2, <1>3 DEF Enqueued
<1>4. CASE ~room
  <2>1. Enqueued(e, r, room) = Save(f, f.bid, "queued_data")  BY <1>4 DEF Enqueued
  <2> HIDE DEF f
  <2>2. /\ Save(f, f.bid, "queued_data") \in Entry
        /\ Save(f, f.bid, "queued_data").bid.id = f.bid.id
        /\ Save(f, f.bid, "queued_data").bid.status = "queued_data"
        /\ Save(f, f.bid, "queued_data").bid.attempts = f.bid.attempts
    BY <1>1, <1>2, <1>2a, SaveType
  <2> QED  BY <1>2, <1>4, <2>1, <2>2
<1> QED  BY <1>3, <1>4

TxnType(t) == t \in [Txns -> [reads: SUBSET Bids, sent: SUBSET Bids, stale: BOOLEAN]]

\* A write closes the writer's transaction and only ever makes others stale.
LEMMA AfterWriteType ==
  ASSUME TxnType(txn), NEW a, NEW B \in SUBSET Bids
  PROVE  TxnType(AfterWrite(a, B))
  BY DEF TxnType, AfterWrite, Closed

LEMMA RacedType == ASSUME NEW a, NEW B \in SUBSET Bids PROVE Raced(a, B) \in SUBSET Bids
  BY DEF Raced

LEMMA LoadedType ==
  ASSUME TypeOK, NEW a, NEW b \in Bids
  PROVE  /\ Loaded(a, b) \in BidRecord
         /\ Loaded(a, b).id = b
         /\ Loaded(a, b).status = Status(b)
         /\ Loaded(a, b).attempts = db[b].bid.attempts
  BY DEF TypeOK, Loaded, Entry, BidRecord, Status

LEMMA PointeeType == ASSUME TypeOK, NEW j \in Job PROVE Pointee(j) \in BidRecord
  BY DEF TypeOK, Pointee, Job

DbType(d) == d \in [Bids -> Entry] /\ \A b \in Bids : d[b].bid.id = b

LEMMA WriteType ==
  ASSUME TypeOK, NEW b \in Bids, NEW e \in Entry, e.bid.id = b, Write(b, e)
  PROVE  DbType(db') /\ TxnType(txn') /\ raced' \in SUBSET Bids
<1>1. DbType(db')  BY DEF TypeOK, DbType, Write
<1>2. TxnType(txn')
  <2>1. TxnType(txn)  BY DEF TypeOK, TxnType
  <2> QED  BY <2>1, AfterWriteType DEF Write
<1>3. raced' \in SUBSET Bids  BY RacedType DEF TypeOK, Write
<1> QED  BY <1>1, <1>2, <1>3

\* A transition of status in one write, as the message handlers make it.
LEMMA TransitionType ==
  ASSUME TypeOK, NEW b \in Bids, NEW r \in BidRecord, r.id = b, NEW s \in Statuses,
         Write(b, Save(db[b], r, s)),
         UNCHANGED <<jobCh, tickCh, timer, worker, orphans, cell, gc, phase, boots, imports>>
  PROVE  TypeOK'
<1>1. db[b] \in Entry  BY DEF TypeOK
<1>2. Save(db[b], r, s) \in Entry /\ Save(db[b], r, s).bid.id = b  BY <1>1, SaveType
<1>3. DbType(db') /\ TxnType(txn') /\ raced' \in SUBSET Bids  BY <1>2, WriteType
<1> QED  BY <1>3 DEF TypeOK, DbType, TxnType, Pointee

LEMMA OpenAndSendType ==
  ASSUME TypeOK, NEW a \in Txns, NEW b \in Bids, OpenAndSend(a, b)
  PROVE  /\ jobCh' \in Seq(Job)
         /\ Len(jobCh') <= Cardinality(Workers)
         /\ TxnType(txn')
         /\ raced' \in SUBSET Bids
<1> DEFINE job == [shared |-> FALSE, bid |-> [Loaded(a, b) EXCEPT !.status = "fetching_data"]]
<1>1. job \in Job
  <2>1. Loaded(a, b) \in BidRecord  BY LoadedType
  <2> QED  BY <2>1 DEF Job, BidRecord, Statuses
<1>2. jobCh' = IF Room THEN Append(jobCh, job) ELSE jobCh  BY DEF OpenAndSend
<1>3. Cardinality(Workers) \in Nat  BY WorkersAssumption, FS_CardinalityType
<1>4. jobCh' \in Seq(Job) /\ Len(jobCh') <= Cardinality(Workers)
  <2> HIDE DEF job
  <2> QED  BY <1>1, <1>2, <1>3 DEF TypeOK, Room
<1>5. TxnType(txn')  BY DEF TypeOK, TxnType, OpenAndSend
<1>6. raced' \in SUBSET Bids  BY RacedType DEF TypeOK, OpenAndSend
<1> QED  BY <1>4, <1>5, <1>6

LEMMA StopType == ASSUME TypeOK, Stop PROVE TypeOK'
<1>1. Cardinality(Workers) \in Nat  BY WorkersAssumption, FS_CardinalityType
<1>2. worker' \in [Workers -> [pc: PCs, job: Job, status: Statuses]]
  BY FreshType DEF Stop, Reset
<1>3. cell' \in BidRecord  BY FreshType DEF Stop, Reset
<1>4. jobCh' \in Seq(Job) /\ Len(jobCh') = 0  BY DEF Stop, Reset
<1>5. TxnType(txn')  BY DEF Stop, TxnType, Closed
<1>6. tickCh' \in 0..Cardinality(Workers) /\ Len(jobCh') <= Cardinality(Workers)
  BY <1>1, <1>4 DEF Stop, Reset
<1>7. orphans' \in SUBSET Bids /\ gc' \in SUBSET Bids /\ phase' \in Phases /\ timer' \in BOOLEAN
  BY DEF Stop, Reset, Phases
<1>8. UNCHANGED <<db, boots, imports, raced>>  BY DEF Stop
<1> QED  BY <1>2, <1>3, <1>4, <1>5, <1>6, <1>7, <1>8 DEF TypeOK, TxnType

\* A worker moves on without touching the store.
LEMMA WorkerStepType ==
  ASSUME TypeOK, NEW w \in Workers, NEW pc \in PCs, NEW s \in Statuses,
         worker' = [worker EXCEPT ![w] = [@ EXCEPT !.pc = pc, !.status = s]]
  PROVE  worker' \in [Workers -> [pc: PCs, job: Job, status: Statuses]]
<1> DEFINE W == [pc: PCs, job: Job, status: Statuses]
           r == [worker[w] EXCEPT !.pc = pc, !.status = s]
<1>1. worker \in [Workers -> W]  BY DEF TypeOK
<1>2. r \in W  BY <1>1
<1>3. worker' = [worker EXCEPT ![w] = r]  OBVIOUS
<1> HIDE DEF W, r
<1>4. worker' \in [Workers -> W]  BY <1>1, <1>2, <1>3
<1> QED  BY <1>4 DEF W

\* A worker moves on and keeps what it knows of the outcome.
LEMMA WorkerMoveType ==
  ASSUME TypeOK, NEW w \in Workers, NEW pc \in PCs,
         worker' = [worker EXCEPT ![w].pc = pc]
  PROVE  worker' \in [Workers -> [pc: PCs, job: Job, status: Statuses]]
<1> DEFINE W == [pc: PCs, job: Job, status: Statuses]
           r == [worker[w] EXCEPT !.pc = pc]
<1>1. worker \in [Workers -> W]  BY DEF TypeOK
<1>2. r \in W  BY <1>1
<1>3. worker' = [worker EXCEPT ![w] = r]  OBVIOUS
<1> HIDE DEF W, r
<1>4. worker' \in [Workers -> W]  BY <1>1, <1>2, <1>3
<1> QED  BY <1>4 DEF W

LEMMA CommitType ==
  ASSUME TypeOK, NEW a \in Txns,
         db' = [b \in Bids |-> IF b \in txn[a].reads
                               THEN Enqueued(db[b], Loaded(a, b), b \in txn[a].sent)
                               ELSE db[b]],
         txn' = AfterWrite(a, txn[a].reads)
  PROVE  DbType(db') /\ TxnType(txn')
<1>1. ASSUME NEW b \in Bids
      PROVE  /\ Enqueued(db[b], Loaded(a, b), b \in txn[a].sent) \in Entry
             /\ Enqueued(db[b], Loaded(a, b), b \in txn[a].sent).bid.id = b
  <2>1. db[b] \in Entry  BY DEF TypeOK
  <2>2. Loaded(a, b) \in BidRecord /\ Loaded(a, b).id = b  BY LoadedType
  <2>3. (b \in txn[a].sent) \in BOOLEAN  OBVIOUS
  <2> QED  BY <2>1, <2>2, <2>3, EnqueuedType
<1>2. DbType(db')  BY <1>1 DEF TypeOK, DbType
<1>3. txn[a].reads \in SUBSET Bids /\ TxnType(txn)  BY DEF TypeOK, TxnType
<1>4. TxnType(txn')  BY <1>3, AfterWriteType
<1> QED  BY <1>2, <1>4

LEMMA CountedType ==
  ASSUME NEW r \in BidRecord
  PROVE  [r EXCEPT !.attempts = IF @ < AttemptCap THEN @ + 1 ELSE @] \in BidRecord
<1>1. AttemptCap \in Nat  BY LimitsAssumption DEF AttemptCap
<1>2. (IF r.attempts < AttemptCap THEN r.attempts + 1 ELSE r.attempts) \in 0..AttemptCap
  BY <1>1 DEF BidRecord
<1> QED  BY <1>2 DEF BidRecord

LEMMA ReleaseType ==
  ASSUME TypeOK, NEW w \in Workers, Release(w)
  PROVE  /\ worker' \in [Workers -> [pc: PCs, job: Job, status: Statuses]]
         /\ tickCh' \in 0..Cardinality(Workers)
<1>1. Cardinality(Workers) \in Nat  BY WorkersAssumption, FS_CardinalityType
<1>2. tickCh' \in 0..Cardinality(Workers)  BY <1>1 DEF TypeOK, Release
<1>3. worker' \in [Workers -> [pc: PCs, job: Job, status: Statuses]]
  BY FreshType DEF TypeOK, Release
<1> QED  BY <1>2, <1>3

\* The messages of the auctioneer and the transactions preserve the types.
LEMMA TypeMessages == ASSUME TypeOK, Messages \/ Transactions \/ Dispatch PROVE TypeOK'
<1>0. Cardinality(Workers) \in Nat  BY WorkersAssumption, FS_CardinalityType
<1>1. ASSUME NEW b \in Bids, SaveBid(b) PROVE TypeOK'
  <2>1. Fresh(b) \in BidRecord /\ Fresh(b).id = b /\ "submitted" \in Statuses
    BY FreshType DEF Statuses
  <2> QED  BY <1>1, <2>1, TransitionType DEF SaveBid
<1>2. ASSUME NEW b \in Bids, SetAwaitingProposalCid(b) PROVE TypeOK'
  <2>1. db[b].bid \in BidRecord /\ db[b].bid.id = b /\ "awaiting_proposal" \in Statuses
    BY DEF TypeOK, Entry, Statuses
  <2> QED  BY <1>2, <2>1, TransitionType DEF SetAwaitingProposalCid
<1>3. ASSUME NEW b \in Bids, SetDealUID(b) PROVE TypeOK'
  <2>1. db[b].bid \in BidRecord /\ db[b].bid.id = b  BY DEF TypeOK, Entry
  <2>2. [db[b].bid EXCEPT !.deal = "uid"] \in BidRecord
    BY <2>1 DEF BidRecord
  <2>3. [db[b].bid EXCEPT !.deal = "uid"].id = b  BY <2>1 DEF BidRecord
  <2>4. "finalized" \in Statuses  BY DEF Statuses
  <2> QED  BY <1>3, <2>2, <2>3, <2>4, TransitionType DEF SetDealUID
<1>4. ASSUME NEW b \in Bids, NEW h \in Handlers, SetProposalCid(h, b) PROVE TypeOK'
  <2>1. h \in Txns  BY DEF Txns
  <2> QED  BY <1>4, <2>1, OpenAndSendType DEF SetProposalCid, TypeOK, TxnType
<1>5. ASSUME NEW a \in Handlers \cup {"next"}, Commit(a) PROVE TypeOK'
  <2>1. a \in Txns  BY DEF Txns
  <2>2. DbType(db') /\ TxnType(txn')  BY <1>5, <2>1, CommitType DEF Commit
  <2>3. txn[a].reads \in SUBSET Bids  BY <2>1 DEF TypeOK
  <2>4. raced' \in SUBSET Bids  BY <1>5, <2>3, RacedType DEF Commit, TypeOK
  <2> QED  BY <1>5, <2>2, <2>4 DEF Commit, TypeOK, DbType, TxnType
<1>6. ASSUME NEW a \in Handlers \cup {"next"}, Abort(a) PROVE TypeOK'
  <2>1. a \in Txns  BY DEF Txns
  <2> QED  BY <1>6, <2>1 DEF Abort, TypeOK, Closed
<1>7. ASSUME Wake PROVE timer' \in BOOLEAN /\ tickCh' \in 0..Cardinality(Workers)
  <2>1. timer \in BOOLEAN /\ tickCh \in 0..Cardinality(Workers)  BY DEF TypeOK
  <2>2. \/ timer' = FALSE /\ tickCh' = tickCh
        \/ tickCh > 0 /\ tickCh' = tickCh - 1 /\ timer' = timer
    BY <1>7, Zenon DEF Wake
  <2>3. timer' \in BOOLEAN  BY <2>1, <2>2
  <2>4. tickCh' \in 0..Cardinality(Workers)  BY <1>0, <2>1, <2>2
  <2> QED  BY <2>3, <2>4
<1>8. ASSUME NextFindsNothing PROVE TypeOK'
  BY <1>7, <1>8 DEF NextFindsNothing, TypeOK
<1>9. ASSUME NextEnqueues PROVE TypeOK'
  <2>1. PICK b \in Bids : OpenAndSend("next", b)  BY <1>9 DEF NextEnqueues, QueuedKeys
  <2>2. "next" \in Txns  BY DEF Txns
  <2> QED  BY <1>7, <1>9, <2>1, <2>2, OpenAndSendType DEF NextEnqueues, TypeOK, TxnType
<1> QED  BY <1>1, <1>2, <1>3, <1>4, <1>5, <1>6, <1>8, <1>9
         DEF Messages, Transactions, Dispatch

LEMMA FailType ==
  ASSUME TypeOK, NEW w \in Workers, NEW immediate \in BOOLEAN, Fail(w, immediate)
  PROVE  worker' \in [Workers -> [pc: PCs, job: Job, status: Statuses]]
<1> DEFINE s == IF immediate \/ WorkerBid(w).attempts >= FetchAttempts
                THEN "errored" ELSE "queued_data"
<1>1. s \in Statuses /\ "saving" \in PCs  BY DEF Statuses, PCs
<1>2. worker' = [worker EXCEPT ![w] = [@ EXCEPT !.pc = "saving", !.status = s]]
  BY DEF Fail
<1> HIDE DEF s
<1> QED  BY <1>1, <1>2, WorkerStepType

\* The workers preserve the types.
LEMMA TypeFetch == ASSUME TypeOK, NEW w \in Workers, Fetch(w) PROVE TypeOK'
<1>1. CASE TakeJob(w)
  <2> DEFINE j == Head(jobCh)
             Counted(r) == [r EXCEPT !.attempts = IF @ < AttemptCap THEN @ + 1 ELSE @]
             mine == IF j.shared THEN j ELSE [j EXCEPT !.bid = Counted(j.bid)]
  <2>1. /\ j \in Job
        /\ jobCh' \in Seq(Job)
        /\ Len(jobCh') <= Cardinality(Workers)
    <3>1. Cardinality(Workers) \in Nat  BY WorkersAssumption, FS_CardinalityType
    <3>2. jobCh \in Seq(Job) /\ jobCh # <<>> /\ jobCh' = Tail(jobCh) /\ Len(jobCh) <= Cardinality(Workers)
      BY <1>1 DEF TakeJob, TypeOK
    <3> QED  BY <3>1, <3>2
  <2>2. j.bid \in BidRecord /\ cell \in BidRecord  BY <2>1 DEF Job, TypeOK
  <2>3. Counted(j.bid) \in BidRecord /\ Counted(cell) \in BidRecord  BY <2>2, CountedType
  <2>4. mine \in Job
    <3> HIDE DEF j, Counted
    <3> QED  BY <2>1, <2>3 DEF Job
  <2>5. worker' = [worker EXCEPT ![w] = [Idle EXCEPT !.pc = "fetching", !.job = mine]]
    BY <1>1 DEF TakeJob
  <2>6. worker' \in [Workers -> [pc: PCs, job: Job, status: Statuses]]
    <3> HIDE DEF mine
    <3> QED  BY <2>4, <2>5, FreshType DEF TypeOK, PCs
  <2>7. cell' = (IF j.shared THEN Counted(cell) ELSE cell)  BY <1>1 DEF TakeJob
  <2>8. cell' \in BidRecord  BY <2>2, <2>3, <2>7
  <2>9. UNCHANGED <<db, tickCh, timer, txn, orphans, gc, phase, boots, imports, raced>>
    BY <1>1 DEF TakeJob
  <2> HIDE DEF j, Counted, mine
  <2> QED  BY <2>1, <2>6, <2>8, <2>9 DEF TypeOK
<1>2. CASE FetchExpired(w)  BY <1>2, FailType DEF FetchExpired, TypeOK
<1>3. CASE FetchFails(w)    BY <1>3, FailType DEF FetchFails, TypeOK
<1>4. CASE FetchDone(w)
  <2>1. "fetched" \in PCs  BY DEF PCs
  <2>2. worker' \in [Workers -> [pc: PCs, job: Job, status: Statuses]]
    BY <1>4, <2>1, WorkerMoveType DEF FetchDone
  <2> QED  BY <1>4, <2>2 DEF FetchDone, TypeOK
<1>5. CASE ImportBegin(w)
  <2>1. "importing" \in PCs  BY DEF PCs
  <2>2. worker' \in [Workers -> [pc: PCs, job: Job, status: Statuses]]
    BY <1>5, <2>1, WorkerMoveType DEF ImportBegin
  <2> QED  BY <1>5, <2>2 DEF ImportBegin, TypeOK
<1>6. CASE ImportFails(w)   BY <1>6, FailType DEF ImportFails, TypeOK
<1>7. CASE ImportDone(w)
  <2>1. "saving" \in PCs /\ "finalized" \in Statuses  BY DEF PCs, Statuses
  <2>2. worker' \in [Workers -> [pc: PCs, job: Job, status: Statuses]]
    BY <1>7, <2>1, WorkerStepType DEF ImportDone
  <2>3. imports' \in [Bids -> 0..2]
    <3> DEFINE b == WorkerBid(w).id
    <3>1. imports' = [imports EXCEPT ![b] = IF imports[b] < 2 THEN imports[b] + 1 ELSE imports[b]]
      BY <1>7 DEF ImportDone
    <3>2. imports \in [Bids -> 0..2]  BY DEF TypeOK
    <3>3. worker[w].job \in Job  BY DEF TypeOK
    <3>4. b \in Bids  BY <3>3, PointeeType DEF WorkerBid, BidRecord
    <3> HIDE DEF b
    <3> DEFINE n == IF imports[b] < 2 THEN imports[b] + 1 ELSE imports[b]
    <3>5. n \in 0..2  BY <3>2, <3>4
    <3>6. imports' = [imports EXCEPT ![b] = n]  BY <3>1
    <3> HIDE DEF n
    <3> QED  BY <3>2, <3>5, <3>6
  <2> QED  BY <1>7, <2>2, <2>3 DEF ImportDone, TypeOK
<1>8. CASE SaveOutcome(w)
  <2> DEFINE r == WorkerBid(w)
  <2>1. r \in BidRecord /\ r.id \in Bids
    <3>1. worker[w].job \in Job  BY DEF TypeOK
    <3>2. r \in BidRecord  BY <3>1, PointeeType DEF WorkerBid
    <3> QED  BY <3>2 DEF BidRecord
  <2>2. worker[w].status \in Statuses  BY DEF TypeOK
  <2>3. db[r.id] \in Entry  BY <2>1 DEF TypeOK
  <2> HIDE DEF r
  <2>4. /\ Save(db[r.id], r, worker[w].status) \in Entry
        /\ Save(db[r.id], r, worker[w].status).bid.id = r.id
    BY <2>1, <2>2, <2>3, SaveType
  <2>5. DbType(db') /\ TxnType(txn') /\ raced' \in SUBSET Bids
    BY <1>8, <2>1, <2>4, WriteType DEF SaveOutcome, r
  <2>6. cell' \in BidRecord  BY <1>8, <2>2 DEF SaveOutcome, TypeOK, BidRecord
  <2> QED  BY <1>8, <2>5, <2>6, ReleaseType DEF SaveOutcome, TypeOK, DbType, TxnType
<1>10. CASE DropJob(w)
  <2>1. jobCh' \in Seq(Job) /\ Len(jobCh') <= Cardinality(Workers)
    <3>1. Cardinality(Workers) \in Nat  BY WorkersAssumption, FS_CardinalityType
    <3>2. jobCh \in Seq(Job) /\ jobCh # <<>> /\ jobCh' = Tail(jobCh) /\ Len(jobCh) <= Cardinality(Workers)
      BY <1>10 DEF DropJob, TypeOK
    <3> QED  BY <3>1, <3>2
  <2>2. worker' \in [Workers -> [pc: PCs, job: Job, status: Statuses]]
    BY <1>10, WorkerMoveType DEF DropJob, PCs
  <2> QED  BY <1>10, <2>1, <2>2 DEF DropJob, TypeOK
<1>9. CASE SaveOutcomeFails(w)
  <2>1. worker[w].status \in Statuses  BY DEF TypeOK
  <2>2. cell' \in BidRecord  BY <1>9, <2>1 DEF SaveOutcomeFails, TypeOK, BidRecord
  <2> QED  BY <1>9, <2>2, ReleaseType DEF SaveOutcomeFails, TypeOK
<1> QED  BY <1>1, <1>2, <1>3, <1>4, <1>5, <1>6, <1>7, <1>8, <1>9, <1>10 DEF Fetch

\* Collection, the start and the end of the process preserve the types.
LEMMA TypeLife ==
  ASSUME TypeOK, Collect \/ Boot \/ Close \/ Exit \/ Crash
  PROVE  TypeOK'
<1>0. Cardinality(Workers) \in Nat  BY WorkersAssumption, FS_CardinalityType
<1>1. CASE GCList  BY <1>1 DEF GCList, TypeOK, Discardable, Listed
<1>2. ASSUME NEW b \in Bids, GCDelete(b) PROVE TypeOK'
  <2> DEFINE gone == [Fresh(b) EXCEPT !.status = "removed"]
  <2>1. gone \in BidRecord /\ gone.id = b
    BY FreshType DEF BidRecord, Statuses
  <2>2. db' = [db EXCEPT ![b].bid = gone]  BY <1>2 DEF GCDelete
  <2> HIDE DEF gone
  <2>3. DbType(db')
    <3>1. db \in [Bids -> Entry] /\ \A x \in Bids : db[x].bid.id = x  BY DEF TypeOK
    <3> DEFINE e == [db[b] EXCEPT !.bid = gone]
    <3>2. e \in Entry /\ e.bid = gone
      <4>1. db[b] \in Entry  BY <3>1
      <4> QED  BY <2>1, <4>1 DEF Entry
    <3>3. db' = [db EXCEPT ![b] = e]  BY <2>2, Zenon
    <3> HIDE DEF e
    <3>4. db' \in [Bids -> Entry]  BY <3>1, <3>2, <3>3
    <3>5. db'[b] = e /\ \A x \in Bids \ {b} : db'[x] = db[x]  BY <3>1, <3>3
    <3>6. \A x \in Bids : db'[x].bid.id = x  BY <2>1, <3>1, <3>2, <3>5
    <3> QED  BY <3>4, <3>6 DEF DbType
  <2>4. TxnType(txn')
    <3>1. TxnType(txn)  BY DEF TypeOK, TxnType
    <3> QED  BY <1>2, <3>1, AfterWriteType DEF GCDelete
  <2>5. raced' \in SUBSET Bids  BY <1>2, RacedType DEF GCDelete, TypeOK
  <2> QED  BY <1>2, <2>3, <2>4, <2>5 DEF GCDelete, TypeOK, DbType, TxnType
<1>3. CASE Start
  <2>1. FetchingKeys \in SUBSET Bids /\ "orphans" \in Txns  BY DEF FetchingKeys, Txns
  <2>2. TxnType(txn')  BY <1>3, <2>1 DEF Start, TypeOK, TxnType
  <2>3. boots' \in Nat /\ imports' \in [Bids -> 0..2]
    BY <1>3, LimitsAssumption DEF Start, TypeOK
  <2>4. phase' \in Phases /\ timer' \in BOOLEAN /\ orphans' \in SUBSET Bids
    BY <1>3, <2>1 DEF Start, Phases
  <2>5. UNCHANGED <<db, jobCh, tickCh, worker, cell, gc, raced>>  BY <1>3 DEF Start
  <2> QED  BY <2>2, <2>3, <2>4, <2>5 DEF TypeOK, TxnType
<1>4. ASSUME NEW b \in Bids, OrphanEnqueue(b) PROVE TypeOK'
  <2> DEFINE f   == Enqueued(db[b], db[b].bid, Room)
             job == [shared |-> TRUE, bid |-> f.bid]
  <2>1. f \in Entry
    <3>1. db[b] \in Entry  BY DEF TypeOK
    <3>2. db[b].bid \in BidRecord  BY <3>1 DEF Entry
    <3>3. Room \in BOOLEAN  BY DEF Room
    <3> QED  BY <3>1, <3>2, <3>3, EnqueuedType
  <2>2. cell' = f.bid /\ jobCh' = IF Room THEN Append(jobCh, job) ELSE jobCh
    BY <1>4 DEF OrphanEnqueue
  <2> HIDE DEF f
  <2>3. f.bid \in BidRecord /\ job \in Job  BY <2>1 DEF Entry, Job
  <2> HIDE DEF job
  <2>4. jobCh' \in Seq(Job) /\ Len(jobCh') <= Cardinality(Workers)
    BY <1>0, <2>2, <2>3 DEF TypeOK, Room
  <2>5. orphans' \in SUBSET Bids
    BY <1>4 DEF OrphanEnqueue, TypeOK
  <2>6. TxnType(txn')
    <3> DEFINE S == IF Room THEN txn["orphans"].sent \cup {b} ELSE txn["orphans"].sent
    <3>1. txn' = [txn EXCEPT !["orphans"].sent = S]  BY <1>4 DEF OrphanEnqueue
    <3>2. S \in SUBSET Bids  BY DEF TypeOK, Txns
    <3>3. txn["orphans"] \in [reads: SUBSET Bids, sent: SUBSET Bids, stale: BOOLEAN]
      BY DEF TypeOK, Txns
    <3> DEFINE t == [txn["orphans"] EXCEPT !.sent = S]
    <3> HIDE DEF S
    <3>4. t \in [reads: SUBSET Bids, sent: SUBSET Bids, stale: BOOLEAN]  BY <3>2, <3>3
    <3>5. txn' = [txn EXCEPT !["orphans"] = t]  BY <3>1
    <3> HIDE DEF t
    <3> QED  BY <3>4, <3>5 DEF TypeOK, TxnType
  <2>7. raced' \in SUBSET Bids  BY <1>4 DEF OrphanEnqueue, TypeOK, Txns
  <2> QED  BY <1>4, <2>2, <2>3, <2>4, <2>5, <2>6, <2>7 DEF OrphanEnqueue, TypeOK, TxnType
<1>5. CASE BootCommit
  <2>1. "orphans" \in Txns /\ "orphans" \notin Handlers  BY HandlersAssumption DEF Txns
  <2>2. \A b \in Bids : Loaded("orphans", b) = db[b].bid  BY <2>1 DEF Loaded
  <2>3. DbType(db') /\ TxnType(txn')  BY <1>5, <2>1, <2>2, CommitType DEF BootCommit
  <2> QED  BY <1>5, <2>3 DEF BootCommit, TypeOK, DbType, TxnType, Phases
<1>6. CASE BootFails  BY <1>6, StopType DEF BootFails
<1>7. CASE Close      BY <1>7 DEF Close, TypeOK, Phases
<1>8. CASE Exit       BY <1>8, StopType DEF Exit
<1>9. CASE Crash      BY <1>9, StopType DEF Crash
<1> QED  BY <1>1, <1>2, <1>3, <1>4, <1>5, <1>6, <1>7, <1>8, <1>9 DEF Collect, Boot

LEMMA TypeInit == ASSUME Init PROVE TypeOK
<1>1. Cardinality(Workers) \in Nat  BY WorkersAssumption, FS_CardinalityType
<1>2. db \in [Bids -> Entry] /\ \A b \in Bids : db[b].bid.id = b
  BY FreshType DEF Init, Entry
<1>3. worker \in [Workers -> [pc: PCs, job: Job, status: Statuses]] /\ cell \in BidRecord
  BY FreshType DEF Init
<1>4. txn \in [Txns -> [reads: SUBSET Bids, sent: SUBSET Bids, stale: BOOLEAN]]
  BY DEF Init, Closed
<1>5. jobCh \in Seq(Job) /\ Len(jobCh) = 0  BY DEF Init
<1>6. imports \in [Bids -> 0..2]  BY DEF Init
<1>7. tickCh \in 0..Cardinality(Workers) /\ Len(jobCh) <= Cardinality(Workers)
  BY <1>1, <1>5 DEF Init
<1>8. timer \in BOOLEAN /\ orphans = {} /\ gc = {} /\ phase = "down" /\ boots = 0 /\ raced = {}
  BY DEF Init
<1> QED  BY <1>2, <1>3, <1>4, <1>5, <1>6, <1>7, <1>8 DEF TypeOK, Phases

LEMMA TypeNext == ASSUME TypeOK, [Next]_vars PROVE TypeOK'
<1>1. ASSUME Next PROVE TypeOK'  BY <1>1, TypeMessages, TypeFetch, TypeLife DEF Next
<1>2. ASSUME UNCHANGED vars PROVE TypeOK'  BY <1>2 DEF vars, TypeOK
<1> QED  BY <1>1, <1>2

\* Types are preserved by every step, so they hold in every state: the store
\* keeps whole bid records, and never has more than one job per worker
\* waiting in jobCh or more than one tick per worker in tickCh.
THEOREM TypeCorrect == Spec => []TypeOK
<1>1. Init => TypeOK  BY TypeInit
<1>2. TypeOK /\ [Next]_vars => TypeOK'  BY TypeNext
<1> QED  BY <1>1, <1>2, PTL DEF Spec

-----------------------------------------------------------------------------
(* The invariant.                                                            *)

\* What a step has to preserve besides the types.
Order ==
  /\ PhaseInv
  /\ SentInv
  /\ BootInv
  /\ SavingInv
  /\ \A b \in Bids \ raced : BidOK(b)

-----------------------------------------------------------------------------
(* Frames: what a step leaves alone.                                         *)

LEMMA Names ==
  /\ Txns = Owners \cup {"orphans"} /\ Owners \subseteq Txns
  /\ "next" \notin Handlers /\ "orphans" \notin Owners /\ "none" \notin Txns
  /\ \A a \in Handlers : Expected(a) = "awaiting_proposal"
  /\ Expected("next") = "queued_data"
  /\ Expected("orphans") = "fetching_data"
  BY HandlersAssumption DEF Txns, Owners, Expected

\* A step that moves no job leaves the jobs of every bid alone.
LEMMA JobsFrame ==
  ASSUME UNCHANGED <<jobCh, worker, cell>>
  PROVE  /\ NoJobs' <=> NoJobs
         /\ \A b : /\ Waiting(b)' = Waiting(b)
                   /\ Running(b)' = Running(b)
                   /\ HasJob(b)' <=> HasJob(b)
  BY DEF NoJobs, Busy, Waiting, Running, HasJob, WorkerBid, Pointee

\* A bid stays in order when nothing that concerns it changes.
LEMMA BidFrame ==
  ASSUME NEW b \in Bids, BidOK(b),
         UNCHANGED <<jobCh, worker, cell, phase>>,
         db'[b] = db[b], imports'[b] = imports[b],
         Pending(b)' <=> Pending(b), TxnOK(b)'
  PROVE  BidOK(b)'
<1>1. Waiting(b)' = Waiting(b) /\ Running(b)' = Running(b) /\ (HasJob(b)' <=> HasJob(b))
  BY JobsFrame
<1>2. Status(b)' = Status(b)  BY DEF Status
<1>3. IndexOK(b)'    BY <1>2 DEF BidOK, IndexOK
<1>4. OneJob(b)'     BY <1>1 DEF BidOK, OneJob
<1>5. JobOK(b)'      BY <1>1, <1>2 DEF BidOK, JobOK, WorkerBid, Pointee
<1>6. KeptOK(b)'     BY <1>1, <1>2 DEF BidOK, KeptOK
<1>7. ImportOK(b)'   BY <1>1, <1>2 DEF BidOK, ImportOK
<1>8. AttemptOK(b)'  BY <1>2 DEF BidOK, AttemptOK, Resolved
<1> QED  BY <1>3, <1>4, <1>5, <1>6, <1>7, <1>8 DEF BidOK

\* Setting a flag to what it is changes nothing.
LEMMA RestoreStale ==
  ASSUME NEW R, NEW r \in [reads: R, sent: R, stale: BOOLEAN], r.stale = FALSE
  PROVE  [r EXCEPT !.stale = FALSE] = r
  OBVIOUS

\* What a write of the bids B by a does to a transaction.
LEMMA AfterWritePoint ==
  ASSUME TypeOK, NEW a, NEW B, txn' = AfterWrite(a, B), NEW x \in Txns
  PROVE  /\ x = a => txn'[x] = Closed
         /\ x # a => /\ txn'[x].reads = txn[x].reads
                     /\ txn'[x].sent  = txn[x].sent
                     /\ txn'[x].stale <=> (txn[x].stale \/ txn[x].reads \cap B # {})
                     /\ txn[x] = Closed => txn'[x] = Closed
<1> DEFINE st == txn[x].stale \/ txn[x].reads \cap B # {}
<1>1. txn'[x] = IF x = a THEN Closed ELSE [txn[x] EXCEPT !.stale = st]
  BY DEF AfterWrite
<1>2. txn[x] \in [reads: SUBSET Bids, sent: SUBSET Bids, stale: BOOLEAN]  BY DEF TypeOK
<1>3. CASE x = a  BY <1>1, <1>3
<1>4. CASE x # a
  <2>1. txn'[x] = [txn[x] EXCEPT !.stale = st]  BY <1>1, <1>4
  <2> HIDE DEF st
  <2>2. txn'[x].reads = txn[x].reads /\ txn'[x].sent = txn[x].sent /\ txn'[x].stale = st
    BY <1>2, <2>1
  <2>3. txn'[x].stale <=> st  BY <2>2, Zenon
  <2>4. ASSUME txn[x] = Closed PROVE txn'[x] = Closed
    <3>1. st = FALSE  BY <2>4 DEF st, Closed
    <3>2. [Closed EXCEPT !.stale = FALSE] = Closed
      <4>1. Closed \in [reads: SUBSET Bids, sent: SUBSET Bids, stale: BOOLEAN]
        BY DEF Closed
      <4>2. Closed.stale = FALSE  BY DEF Closed
      <4> QED  BY <4>1, <4>2, RestoreStale
    <3> HIDE DEF Closed
    <3> QED  BY <2>1, <2>4, <3>1, <3>2
  <2> QED  BY <1>4, <2>2, <2>3, <2>4 DEF st
<1> QED  BY <1>3, <1>4

\* A write of the bids B by a message handler, the dispatcher or GC (a holds
\* the transaction that makes it, "none" when it is a step of its own) keeps
\* every other bid in order, and those of B that meet the last assumption.
LEMMA WriteStep ==
  ASSUME Inv, Up, NEW a \in Owners \cup {"none"}, NEW B \in SUBSET Bids,
         UNCHANGED <<jobCh, worker, cell, orphans, phase, imports>>,
         txn' = AfterWrite(a, B),
         raced \subseteq raced', Raced(a, B) \subseteq raced',
         a \in Owners => B = txn[a].reads,
         \A c \in Bids \ B : db'[c] = db[c],
         \A b \in B \ raced' :
           /\ IndexOK(b)'
           /\ AttemptOK(b)'
           /\ HasJob(b) \/ imports[b] = 1 => Status(b)' = "fetching_data"
           /\ Status(b)' = "fetching_data" /\ ~StoreFails /\ phase # "closing" => HasJob(b)
  PROVE  Order'
<1>0. TypeOK /\ SentInv  BY DEF Inv
<1>1. /\ phase \in {"running", "closing"}
      /\ txn["orphans"] = Closed /\ orphans = {}
  BY DEF Up, Inv, PhaseInv
<1>2. PhaseInv'
  <2>1. txn'["orphans"] = Closed  BY <1>0, <1>1, Names, AfterWritePoint
  <2> QED  BY <1>1, <2>1 DEF PhaseInv
<1>3. SentInv'
  <2>1. ASSUME NEW x \in Txns PROVE txn'[x].sent \subseteq txn'[x].reads
    BY <1>0, AfterWritePoint DEF SentInv, Closed
  <2>2. ASSUME NEW x \in Owners, NEW b \in txn'[x].reads, NEW c \in txn'[x].reads PROVE b = c
    BY <1>0, <2>2, Names, AfterWritePoint DEF SentInv, Closed
  <2> QED  BY <2>1, <2>2 DEF SentInv
<1>4. BootInv'  BY <1>1 DEF BootInv
<1>5. ASSUME NEW b \in Bids \ raced', b \notin B PROVE BidOK(b)'
  <2>1. BidOK(b)  BY <1>5 DEF Inv
  <2>2. TxnOK(b)'
    <3> SUFFICES ASSUME NEW x \in Txns, b \in txn'[x].reads, ~txn'[x].stale
                 PROVE  Status(b)' = Expected(x)
      BY DEF TxnOK, Expected
    <3>1. b \in txn[x].reads /\ ~txn[x].stale  BY <1>0, AfterWritePoint DEF Closed
    <3>2. Status(b) = Expected(x)  BY <2>1, <3>1 DEF BidOK, TxnOK
    <3> QED  BY <1>5, <3>2 DEF Status
  <2>3. Pending(b)' <=> Pending(b)
    <3>1. ASSUME NEW x \in Txns, b \in txn'[x].sent, ~txn'[x].stale PROVE Pending(b)
      BY <1>0, <3>1, AfterWritePoint DEF Pending, Closed
    <3>2. ASSUME NEW x \in Txns, b \in txn[x].sent, ~txn[x].stale PROVE Pending(b)'
      <4>1. x # a  BY <1>0, <1>5, <3>2, Names DEF SentInv
      <4>2. x \in Owners  BY <1>1, <3>2, Names DEF Closed
      <4>3. txn[x].reads = {b}  BY <1>0, <3>2, <4>2, Names DEF SentInv
      <4> QED  BY <1>0, <1>5, <3>2, <4>1, <4>3, AfterWritePoint DEF Pending
    <3> QED  BY <3>1, <3>2 DEF Pending
  <2> QED  BY <1>5, <2>1, <2>2, <2>3, BidFrame
<1>6. ASSUME NEW b \in Bids \ raced', b \in B PROVE BidOK(b)'
  <2>1. BidOK(b)  BY <1>6 DEF Inv
  <2>2. ASSUME NEW x \in Txns PROVE ~(b \in txn'[x].reads /\ ~txn'[x].stale)
    BY <1>0, <1>6, AfterWritePoint DEF Closed
  <2>3. TxnOK(b)' /\ ~Pending(b)'
    BY <2>2, <1>3 DEF TxnOK, Pending, SentInv
  <2>4. Waiting(b)' = Waiting(b) /\ Running(b)' = Running(b) /\ (HasJob(b)' <=> HasJob(b))
    BY JobsFrame
  <2>5. IndexOK(b)' /\ AttemptOK(b)'  BY <1>6
  <2>6. OneJob(b)'  BY <2>1, <2>4 DEF BidOK, OneJob
  <2>7. JobOK(b)'   BY <1>6, <2>1, <2>4 DEF BidOK, JobOK, WorkerBid, Pointee
  <2>8. KeptOK(b)'  BY <1>6, <2>3, <2>4 DEF KeptOK
  <2>9. ImportOK(b)'  BY <1>1, <1>6, <2>1, <2>4 DEF BidOK, ImportOK
  <2> QED  BY <2>3, <2>5, <2>6, <2>7, <2>8, <2>9 DEF BidOK
<1>7. SavingInv'  BY DEF Inv, SavingInv
<1> QED  BY <1>2, <1>3, <1>4, <1>5, <1>6, <1>7 DEF Order

-----------------------------------------------------------------------------
(* Writes.                                                                   *)

\* While nobody has sent a job for a bid that is neither being fetched nor
\* finalized, it has no job, and Lotus has not got its data.
LEMMA Unsent ==
  ASSUME Inv, Up, NEW a \in Owners \cup {"none"}, NEW B, NEW b \in B, b \in Bids,
         b \notin raced, b \notin Raced(a, B),
         a \in Owners => b \notin txn[a].sent,
         Status(b) \notin {"fetching_data", "finalized"}
  PROVE  ~Pending(b) /\ ~HasJob(b) /\ imports[b] = 0
<1>1. txn["orphans"] = Closed /\ phase # "down"  BY DEF Up, Inv, PhaseInv
<1>2. ~Pending(b)
  <2> SUFFICES ASSUME NEW x \in Txns, b \in txn[x].sent, ~txn[x].stale PROVE FALSE
    BY DEF Pending
  <2>1. x # "orphans"  BY <1>1 DEF Closed
  <2>2. x # a  BY Names, <2>1
  <2> QED  BY <2>1, <2>2 DEF Raced
<1>3. BidOK(b)  BY DEF Inv
<1>4. ~HasJob(b)  BY <1>2, <1>3 DEF BidOK, JobOK
<1>5. imports[b] = 0  BY <1>1, <1>2, <1>3 DEF BidOK, ImportOK
<1> QED  BY <1>2, <1>4, <1>5

\* saveAndTransitionStatus keeps the indexes exact when the bid in memory has
\* the stored status.
LEMMA SaveIndex ==
  ASSUME NEW e \in Entry, NEW r \in BidRecord, NEW s \in Statuses,
         e.queued <=> r.status = "queued_data", e.fetching <=> r.status = "fetching_data"
  PROVE  /\ Save(e, r, s).queued <=> s = "queued_data"
         /\ Save(e, r, s).fetching <=> s = "fetching_data"
  BY DEF Save, Entry

LEMMA EnqueuedIndex ==
  ASSUME NEW e \in Entry, NEW r \in BidRecord, NEW room \in BOOLEAN,
         e.queued <=> r.status = "queued_data", e.fetching <=> r.status = "fetching_data"
  PROVE  /\ Enqueued(e, r, room).queued <=> ~room
         /\ Enqueued(e, r, room).fetching <=> room
<1> DEFINE f == Save(e, r, "fetching_data")
<1>1. "fetching_data" \in Statuses /\ "queued_data" \in Statuses  BY DEF Statuses
<1>2. /\ f \in Entry /\ f.bid.status = "fetching_data"
      /\ ~f.queued /\ f.fetching
  BY <1>1, SaveType, SaveIndex
<1>3. f.bid \in BidRecord  BY <1>2 DEF Entry
<1>4. CASE room      BY <1>2, <1>4 DEF Enqueued
<1>5. CASE ~room
  <2>1. Enqueued(e, r, room) = Save(f, f.bid, "queued_data")  BY <1>5 DEF Enqueued
  <2>2. /\ f.queued <=> f.bid.status = "queued_data"
        /\ f.fetching <=> f.bid.status = "fetching_data"
    BY <1>2
  <2> DEFINE g == Save(f, f.bid, "queued_data")
  <2>3. g.queued /\ ~g.fetching  BY <1>1, <1>2, <1>3, <2>2, SaveIndex
  <2> QED  BY <1>5, <2>1, <2>3
<1> QED  BY <1>4, <1>5

\* A message that moves a bid no worker is concerned with.
LEMMA TransitionStep ==
  ASSUME Inv, Up, NEW b \in Bids, NEW r \in BidRecord, r.id = b,
         r.status = Status(b), b \notin raced => r.attempts < FetchAttempts,
         NEW s \in Statuses \ {"queued_data", "fetching_data"},
         Status(b) \in {"unspecified", "submitted", "awaiting_proposal"},
         Write(b, Save(db[b], r, s)),
         UNCHANGED <<jobCh, tickCh, timer, worker, orphans, cell, gc, phase, boots, imports>>
  PROVE  Order'
<1>1. Up  BY DEF Up
<1>2. db' = [db EXCEPT ![b] = Save(db[b], r, s)] /\ db \in [Bids -> Entry]
  BY DEF Write, Inv, TypeOK
<1>3. ASSUME NEW x \in {b} \ raced'
      PROVE  /\ IndexOK(x)'
             /\ AttemptOK(x)'
             /\ HasJob(x) \/ imports[x] = 1 => Status(x)' = "fetching_data"
             /\ Status(x)' = "fetching_data" /\ ~StoreFails /\ phase # "closing" => HasJob(x)
  <2>1. x = b /\ b \notin raced /\ b \notin Raced("none", {b})  BY <1>3 DEF Write
  <2>2. BidOK(b)  BY <2>1 DEF Inv
  <2>3. db'[b] = Save(db[b], r, s) /\ db[b] \in Entry  BY <1>2
  <2>4. IndexOK(b)'
    <3>1. /\ db[b].queued <=> r.status = "queued_data"
          /\ db[b].fetching <=> r.status = "fetching_data"
      BY <2>2 DEF BidOK, IndexOK
    <3> QED  BY <2>3, <3>1, SaveType, SaveIndex DEF IndexOK, Status
  <2>5. AttemptOK(b)'
    BY <2>1, <2>3, SaveType DEF AttemptOK
  <2>6. ~HasJob(b) /\ imports[b] = 0  BY <1>1, <2>1, Unsent, Names
  <2>7. Status(b)' # "fetching_data"  BY <2>3, SaveType DEF Status
  <2> QED  BY <2>1, <2>4, <2>5, <2>6, <2>7
<1>4. \A c \in Bids \ {b} : db'[c] = db[c]  BY <1>2
<1>5. txn' = AfterWrite("none", {b}) /\ raced \subseteq raced' /\ Raced("none", {b}) \subseteq raced'
  BY DEF Write
<1>6. {b} \in SUBSET Bids /\ "none" \in Owners \cup {"none"} /\ "none" \notin Owners
  BY Names
<1>7. UNCHANGED <<jobCh, worker, cell, orphans, phase, imports>>  OBVIOUS
<1> QED  BY <1>1, <1>3, <1>4, <1>5, <1>6, <1>7, WriteStep

LEMMA OrderMessages ==
  ASSUME Inv, NEW b \in Bids, SaveBid(b) \/ SetAwaitingProposalCid(b) \/ SetDealUID(b)
  PROVE  Order'
<1>0. ASSUME Status(b) \in {"submitted", "awaiting_proposal"}, b \notin raced
      PROVE  db[b].bid.attempts < FetchAttempts
  BY <1>0 DEF Inv, BidOK, AttemptOK, Resolved
<1>1. CASE SaveBid(b)
  <2>1. Fresh(b) \in BidRecord /\ Fresh(b).id = b  BY FreshType
  <2>2. Fresh(b).status = Status(b) /\ Fresh(b).attempts < FetchAttempts
    BY <1>1, LimitsAssumption DEF SaveBid, Fresh
  <2>3. "submitted" \in Statuses  BY DEF Statuses
  <2> QED  BY <1>1, <2>1, <2>2, <2>3, TransitionStep DEF SaveBid
<1>2. CASE SetAwaitingProposalCid(b)
  <2>1. db[b].bid \in BidRecord /\ db[b].bid.id = b /\ "awaiting_proposal" \in Statuses
    BY DEF Inv, TypeOK, Entry, Statuses
  <2> QED  BY <1>0, <1>2, <2>1, TransitionStep DEF SetAwaitingProposalCid, Status
<1>3. CASE SetDealUID(b)
  <2> DEFINE r == [db[b].bid EXCEPT !.deal = "uid"]
  <2>1. db[b].bid \in BidRecord /\ db[b].bid.id = b /\ "finalized" \in Statuses
    BY DEF Inv, TypeOK, Entry, Statuses
  <2>2. r \in BidRecord /\ r.id = b /\ r.status = Status(b) /\ r.attempts = db[b].bid.attempts
    BY <2>1 DEF BidRecord, Status
  <2>3. Write(b, Save(db[b], r, "finalized"))  BY <1>3 DEF SetDealUID
  <2>4. b \notin raced => r.attempts < FetchAttempts
    BY <1>0, <1>3, <2>2 DEF SetDealUID
  <2> HIDE DEF r
  <2> QED  BY <1>3, <2>1, <2>2, <2>3, <2>4, TransitionStep DEF SetDealUID
<1> QED  BY <1>1, <1>2, <1>3

-----------------------------------------------------------------------------
(* Transactions.                                                             *)

\* The commit of SetProposalCid or of getNext.
LEMMA OrderCommit == ASSUME Inv, NEW a \in Owners, Commit(a) PROVE Order'
<1> DEFINE B == txn[a].reads
<1>1. a \in Txns /\ TypeOK /\ B \in SUBSET Bids  BY Names DEF Inv, TypeOK
<1>2. Up
  <2>1. txn[a] # Closed  BY DEF Commit, Open, Closed
  <2> QED  BY <1>1, <2>1 DEF Inv, PhaseInv, TypeOK, Phases, Up
<1>3. ASSUME NEW x \in B \ raced'
      PROVE  /\ IndexOK(x)'
             /\ AttemptOK(x)'
             /\ HasJob(x) \/ imports[x] = 1 => Status(x)' = "fetching_data"
             /\ Status(x)' = "fetching_data" /\ ~StoreFails /\ phase # "closing" => HasJob(x)
  <2> DEFINE e == Enqueued(db[x], Loaded(a, x), x \in txn[a].sent)
  <2>1. x \in Bids /\ x \notin raced /\ x \notin Raced(a, B)  BY <1>1, <1>3 DEF Commit
  <2>2. BidOK(x)  BY <2>1 DEF Inv
  <2>3. db'[x] = e  BY <1>3, <2>1 DEF Commit
  <2>4. /\ Loaded(a, x) \in BidRecord /\ Loaded(a, x).status = Status(x)
        /\ Loaded(a, x).attempts = db[x].bid.attempts
    BY <1>1, <2>1, LoadedType
  <2>5. Status(x) \in {"awaiting_proposal", "queued_data"}
    <3>1. Status(x) = Expected(a)  BY <1>1, <1>3, <2>2 DEF Commit, BidOK, TxnOK
    <3> QED  BY <3>1, Names DEF Owners
  <2>6. /\ db[x].queued <=> Loaded(a, x).status = "queued_data"
        /\ db[x].fetching <=> Loaded(a, x).status = "fetching_data"
    BY <2>2, <2>4 DEF BidOK, IndexOK
  <2>7. db[x] \in Entry /\ (x \in txn[a].sent) \in BOOLEAN  BY <1>1, <2>1 DEF TypeOK
  <2>8. /\ e.queued <=> x \notin txn[a].sent
        /\ e.fetching <=> x \in txn[a].sent
    BY <2>4, <2>6, <2>7, EnqueuedIndex
  <2>9. /\ e.bid.status = IF x \in txn[a].sent THEN "fetching_data" ELSE "queued_data"
        /\ e.bid.attempts = db[x].bid.attempts
    <3>1. PICK room \in BOOLEAN : room = (x \in txn[a].sent)  BY <2>7
    <3>2. PICK r \in BidRecord : r = Loaded(a, x)  BY <2>4
    <3>3. PICK d \in Entry : d = db[x]  BY <2>7
    <3>4. e = Enqueued(d, r, room)  BY <3>1, <3>2, <3>3
    <3> HIDE DEF e
    <3>5. /\ e.bid.status = IF room THEN "fetching_data" ELSE "queued_data"
          /\ e.bid.attempts = r.attempts
      BY <3>4, EnqueuedType
    <3> QED  BY <2>4, <3>1, <3>2, <3>5
  <2> HIDE DEF e
  <2>10. IndexOK(x)'
    <3>1. CASE x \in txn[a].sent  BY <2>3, <2>8, <2>9, <3>1 DEF IndexOK, Status
    <3>2. CASE x \notin txn[a].sent  BY <2>3, <2>8, <2>9, <3>2 DEF IndexOK, Status
    <3> QED  BY <3>1, <3>2
  <2>11. AttemptOK(x)'
    <3>1. db[x].bid.attempts < FetchAttempts  BY <2>2, <2>5 DEF BidOK, AttemptOK, Resolved
    <3> QED  BY <2>3, <2>9, <3>1 DEF AttemptOK
  <2>12. CASE x \in txn[a].sent
    <3>1. Status(x)' = "fetching_data"  BY <2>3, <2>9, <2>12 DEF Status
    <3>2. Pending(x)  BY <1>1, <2>12 DEF Pending, Commit
    <3>3. ~StoreFails /\ phase # "closing" => HasJob(x)  BY <2>2, <3>2 DEF BidOK, KeptOK
    <3> QED  BY <2>10, <2>11, <3>1, <3>3
  <2>13. CASE x \notin txn[a].sent
    <3>1. Status(x)' = "queued_data"  BY <2>3, <2>9, <2>13 DEF Status
    <3>2. ~HasJob(x) /\ imports[x] = 0  BY <1>2, <1>3, <2>1, <2>5, <2>13, Unsent
    <3> QED  BY <2>10, <2>11, <3>1, <3>2
  <2> QED  BY <2>12, <2>13
<1>4. \A c \in Bids \ B : db'[c] = db[c]  BY DEF Commit
<1>5. txn' = AfterWrite(a, B) /\ raced \subseteq raced' /\ Raced(a, B) \subseteq raced'
  BY DEF Commit
<1>6. UNCHANGED <<jobCh, worker, cell, orphans, phase, imports>>  BY DEF Commit
<1>7. a \in Owners \cup {"none"}  OBVIOUS
<1> HIDE DEF B
<1> QED  BY <1>1, <1>2, <1>3, <1>4, <1>5, <1>6, <1>7, WriteStep DEF B

\* GC deletes a bid that still awaits its proposal; any other bid is raced.
LEMMA OrderGCDelete == ASSUME Inv, NEW b \in Bids, GCDelete(b) PROVE Order'
<1>1. Up /\ db \in [Bids -> Entry]  BY DEF GCDelete, Inv, TypeOK
<1>2. ASSUME NEW x \in {b} \ raced'
      PROVE  /\ IndexOK(x)'
             /\ AttemptOK(x)'
             /\ HasJob(x) \/ imports[x] = 1 => Status(x)' = "fetching_data"
             /\ Status(x)' = "fetching_data" /\ ~StoreFails /\ phase # "closing" => HasJob(x)
  <2>1. /\ x = b /\ b \notin raced /\ b \notin Raced("none", {b})
        /\ Status(b) = "awaiting_proposal"
    BY <1>2 DEF GCDelete
  <2>2. BidOK(b)  BY <2>1 DEF Inv
  <2>3. ~HasJob(b) /\ imports[b] = 0  BY <1>1, <2>1, Unsent, Names
  <2> DEFINE r == [Fresh(b) EXCEPT !.status = "removed"]
  <2>4. db'[b] = [db[b] EXCEPT !.bid = r]  BY <1>1 DEF GCDelete
  <2>5. r.status = "removed" /\ r.attempts = 0  BY DEF Fresh
  <2>6. ~db[b].queued /\ ~db[b].fetching  BY <2>1, <2>2 DEF BidOK, IndexOK
  <2>7. db[b] \in Entry  BY <1>1
  <2> HIDE DEF r
  <2>8. db'[b].bid = r /\ ~db'[b].queued /\ ~db'[b].fetching
    BY <2>4, <2>6, <2>7 DEF Entry
  <2>9. IndexOK(b)'  BY <2>5, <2>8 DEF IndexOK, Status
  <2>10. AttemptOK(b)'  BY <2>5, <2>8, LimitsAssumption DEF AttemptOK
  <2>11. Status(b)' = "removed"  BY <2>5, <2>8 DEF Status
  <2> QED  BY <2>1, <2>3, <2>9, <2>10, <2>11
<1>3. \A c \in Bids \ {b} : db'[c] = db[c]  BY <1>1 DEF GCDelete
<1>4. txn' = AfterWrite("none", {b}) /\ raced \subseteq raced' /\ Raced("none", {b}) \subseteq raced'
  BY DEF GCDelete
<1>5. UNCHANGED <<jobCh, worker, cell, orphans, phase, imports>>  BY DEF GCDelete
<1>6. {b} \in SUBSET Bids /\ "none" \in Owners \cup {"none"} /\ "none" \notin Owners
  BY Names
<1> QED  BY <1>1, <1>2, <1>3, <1>4, <1>5, <1>6, WriteStep

\* A transaction that ends without a commit: what it sent is raced.
LEMMA OrderAbort == ASSUME Inv, NEW a \in Owners, Abort(a) PROVE Order'
<1>1. a \in Txns /\ a # "orphans" /\ TypeOK  BY Names DEF Inv
<1>2. phase \in {"running", "closing"}
  <2>1. txn[a] # Closed  BY DEF Abort, Open, Closed
  <2> QED  BY <1>1, <2>1 DEF Inv, PhaseInv, TypeOK, Phases
<1>3. \A x \in Txns : txn'[x] = IF x = a THEN Closed ELSE txn[x]
  BY <1>1 DEF Abort, TypeOK
<1>4. UNCHANGED <<db, jobCh, worker, cell, orphans, phase, imports>>  BY DEF Abort
<1>5. PhaseInv'
  <2>1. txn'["orphans"] = txn["orphans"]  BY <1>1, <1>3, Names
  <2> QED  BY <1>2, <1>4, <2>1 DEF Inv, PhaseInv
<1>6. SentInv'
  <2>1. \A x \in Txns : txn'[x].sent \subseteq txn'[x].reads
    BY <1>3 DEF Inv, SentInv, Closed
  <2>2. ASSUME NEW x \in Owners, NEW b \in txn'[x].reads, NEW c \in txn'[x].reads PROVE b = c
    BY <1>3, <2>2, Names DEF Inv, SentInv, Closed
  <2> QED  BY <2>1, <2>2 DEF SentInv
<1>7. BootInv' /\ SavingInv'  BY <1>2, <1>4 DEF Inv, BootInv, SavingInv
<1>8. ASSUME NEW b \in Bids \ raced' PROVE BidOK(b)'
  <2>1. BidOK(b) /\ b \notin txn[a].sent  BY <1>8 DEF Inv, Abort
  <2>2. TxnOK(b)'
    <3> SUFFICES ASSUME NEW x \in Txns, b \in txn'[x].reads, ~txn'[x].stale
                 PROVE  Status(b)' = Expected(x)
      BY DEF TxnOK, Expected
    <3>1. txn'[x] = txn[x]  BY <1>3 DEF Closed
    <3> QED  BY <1>4, <2>1, <3>1 DEF BidOK, TxnOK, Status
  <2>3. Pending(b)' <=> Pending(b)
    <3>1. ASSUME NEW x \in Txns, b \in txn'[x].sent, ~txn'[x].stale PROVE Pending(b)
      BY <1>3, <3>1 DEF Pending, Closed
    <3>2. ASSUME NEW x \in Txns, b \in txn[x].sent, ~txn[x].stale PROVE Pending(b)'
      BY <1>3, <2>1, <3>2 DEF Pending
    <3> QED  BY <3>1, <3>2 DEF Pending
  <2> QED  BY <1>4, <1>8, <2>1, <2>2, <2>3, BidFrame
<1> QED  BY <1>5, <1>6, <1>7, <1>8 DEF Order

\* Steps that touch none of this: getNext that finds nothing, GC's listing,
\* Close, and steps of somebody else.
LEMMA OrderIdle ==
  ASSUME Inv, NextFindsNothing \/ GCList \/ Close \/ UNCHANGED vars
  PROVE  Order'
<1>1. UNCHANGED <<db, jobCh, worker, cell, txn, orphans, imports, raced>>
  BY DEF NextFindsNothing, GCList, Close, vars
<1>2. phase' = phase \/ (phase = "running" /\ phase' = "closing")
  BY DEF NextFindsNothing, GCList, Close, vars
<1>3. PhaseInv'  BY <1>1, <1>2, JobsFrame DEF Inv, PhaseInv
<1>4. SentInv' /\ SavingInv'  BY <1>1 DEF Inv, SentInv, SavingInv
<1>5. BootInv'
  <2>1. \A b \in Bids : Status(b)' = Status(b)  BY <1>1 DEF Status
  <2>2. CASE phase' = phase
    <3>1. NoJobs' <=> NoJobs  BY <1>1, JobsFrame
    <3>2. FetchingKeys' = FetchingKeys  BY <1>1 DEF FetchingKeys
    <3>3. \A w \in Workers : Busy(w)' <=> Busy(w)  BY <1>1 DEF Busy
    <3>4. txn["orphans"].reads \subseteq Bids  BY Names DEF Inv, TypeOK
    <3>5. BootInv  BY DEF Inv
    <3>6. CASE phase # "boot"  BY <2>2, <3>6 DEF BootInv
    <3>7. CASE phase = "boot"
      BY <1>1, <2>1, <2>2, <3>1, <3>2, <3>3, <3>4, <3>5, <3>7 DEF BootInv
    <3> QED  BY <3>6, <3>7
  <2>3. CASE phase' = "closing"  BY <2>3 DEF BootInv
  <2> QED  BY <1>2, <2>2, <2>3
<1>6. ASSUME NEW b \in Bids \ raced' PROVE BidOK(b)'
  <2>1. BidOK(b)  BY <1>1, <1>6 DEF Inv
  <2>2. TxnOK(b)' /\ (Pending(b)' <=> Pending(b))
    BY <1>1, <2>1 DEF BidOK, TxnOK, Pending, Status, Expected
  <2>3. CASE phase' = phase  BY <1>1, <2>1, <2>2, <2>3, BidFrame
  <2>4. CASE phase = "running" /\ phase' = "closing"
    <3>1. /\ Waiting(b)' = Waiting(b) /\ Running(b)' = Running(b)
          /\ HasJob(b)' <=> HasJob(b)
      BY <1>1, JobsFrame
    <3>2. Status(b)' = Status(b)  BY <1>1 DEF Status
    <3>3. IndexOK(b)' /\ OneJob(b)' /\ AttemptOK(b)'
      BY <1>1, <2>1, <3>1, <3>2 DEF BidOK, IndexOK, OneJob, AttemptOK, Resolved
    <3>4. JobOK(b)'  BY <1>1, <2>1, <2>2, <3>1, <3>2 DEF BidOK, JobOK, WorkerBid, Pointee
    <3>5. KeptOK(b)'  BY <2>1, <2>2, <2>4, <3>1 DEF BidOK, KeptOK
    <3>6. ImportOK(b)'  BY <1>1, <2>1, <2>2, <2>4, <3>1, <3>2 DEF BidOK, ImportOK
    <3> QED  BY <2>2, <3>3, <3>4, <3>5, <3>6 DEF BidOK
  <2> QED  BY <1>2, <2>3, <2>4
<1> QED  BY <1>3, <1>4, <1>5, <1>6 DEF Order

-----------------------------------------------------------------------------
(* Sending a job.                                                            *)

\* A job of its own sent for b is one more waiting job of b, and no other's.
LEMMA JobSent ==
  ASSUME TypeOK, NEW r \in BidRecord, NEW n, n = Len(jobCh) + 1,
         jobCh' = Append(jobCh, [shared |-> FALSE, bid |-> r]),
         UNCHANGED <<worker, cell>>
  PROVE  /\ \A i \in DOMAIN jobCh : i \in DOMAIN jobCh' /\ jobCh'[i] = jobCh[i]
         /\ n \notin DOMAIN jobCh
         /\ Pointee(jobCh[n])' = r
         /\ Waiting(r.id)' = Waiting(r.id) \cup {n}
         /\ \A c : c # r.id => Waiting(c)' = Waiting(c)
         /\ \A c : Running(c)' = Running(c)
         /\ \A w \in Workers : WorkerBid(w)' = WorkerBid(w)
<1> DEFINE job == [shared |-> FALSE, bid |-> r]
<1>1. jobCh \in Seq(Job) /\ job \in Job  BY DEF TypeOK, Job
<1>2. Pointee(job)' = r  BY DEF Pointee
<1> HIDE DEF job
<1>3. /\ DOMAIN jobCh' = DOMAIN jobCh \cup {n} /\ n \notin DOMAIN jobCh
      /\ jobCh'[n] = job
      /\ \A i \in DOMAIN jobCh : jobCh'[i] = jobCh[i]
  BY <1>1 DEF job
<1>4. \A i \in DOMAIN jobCh : Pointee(jobCh[i])' = Pointee(jobCh[i])
  BY <1>3 DEF Pointee
<1>5. Pointee(jobCh[n])' = r
  BY <1>3 DEF Pointee, job
<1>6. \A c : Running(c)' = Running(c) /\ \A w \in Workers : WorkerBid(w)' = WorkerBid(w)
  BY DEF Running, Busy, WorkerBid, Pointee
<1>7. \A c : Waiting(c)' = Waiting(c) \cup (IF c = r.id THEN {n} ELSE {})
  <2> SUFFICES ASSUME NEW c
               PROVE  Waiting(c)' = Waiting(c) \cup (IF c = r.id THEN {n} ELSE {})
    OBVIOUS
  <2>1. \A i : i \in Waiting(c)' <=> i \in DOMAIN jobCh' /\ Pointee(jobCh[i])'.id = c
    BY DEF Waiting
  <2>2. \A i : i \in Waiting(c) <=> i \in DOMAIN jobCh /\ Pointee(jobCh[i]).id = c
    BY DEF Waiting
  <2>3. CASE c = r.id  BY <1>3, <1>4, <1>5, <2>1, <2>2, <2>3
  <2>4. CASE c # r.id
    <3>1. ASSUME NEW i, i \in Waiting(c)' PROVE i \in Waiting(c)
      <4>1. i \in DOMAIN jobCh' /\ Pointee(jobCh[i])'.id = c  BY <2>1, <3>1
      <4>2. i # n  BY <1>5, <2>4, <4>1
      <4>3. i \in DOMAIN jobCh  BY <1>3, <4>1, <4>2
      <4> QED  BY <1>4, <2>2, <4>1, <4>3
    <3>2. ASSUME NEW i, i \in Waiting(c) PROVE i \in Waiting(c)'
      BY <1>3, <1>4, <2>1, <2>2, <3>2
    <3> QED  BY <2>4, <3>1, <3>2
  <2> QED  BY <2>3, <2>4
<1> QED  BY <1>3, <1>5, <1>6, <1>7

\* Opening the transaction of SetProposalCid or getNext for b, up to the send.
LEMMA OrderOpenAndSend ==
  ASSUME Inv, Up, NEW a \in Owners, NEW b \in Bids, ~Open(a),
         b \notin raced => Status(b) = Expected(a), OpenAndSend(a, b),
         UNCHANGED <<db, worker, orphans, cell, phase, imports>>
  PROVE  Order'
<1> DEFINE r == [Loaded(a, b) EXCEPT !.status = "fetching_data"]
           S == IF Room THEN {b} ELSE {}
<1>1. a \in Txns /\ a # "orphans" /\ TypeOK  BY Names DEF Inv
<1>2. phase \in {"running", "closing"} /\ txn["orphans"] = Closed /\ orphans = {}
  BY DEF Up, Inv, PhaseInv
<1>3. txn[a].reads = {} /\ txn[a].sent = {}  BY <1>1 DEF Open, Inv, SentInv
<1>4. \A x \in Txns : IF x = a THEN txn'[x] = [reads |-> {b}, sent |-> S, stale |-> FALSE]
                      ELSE txn'[x] = txn[x]
  BY <1>1 DEF OpenAndSend, TypeOK
<1>5. raced' = raced \cup (IF Room THEN Raced(a, {b}) ELSE {})  BY DEF OpenAndSend
<1>6. b \notin raced => Status(b) \in {"awaiting_proposal", "queued_data"}
  BY Names DEF Owners
<1>7. /\ r \in BidRecord /\ r.id = b /\ r.status = "fetching_data"
      /\ r.attempts = db[b].bid.attempts
  <2>1. /\ Loaded(a, b) \in BidRecord /\ Loaded(a, b).id = b
        /\ Loaded(a, b).attempts = db[b].bid.attempts
    BY <1>1, LoadedType
  <2> QED  BY <2>1 DEF BidRecord, Statuses
<1>8. jobCh' = IF Room THEN Append(jobCh, [shared |-> FALSE, bid |-> r]) ELSE jobCh
  BY DEF OpenAndSend
<1> HIDE DEF r, S
<1>9. PhaseInv'
  <2>1. txn'["orphans"] = Closed  BY <1>1, <1>2, <1>4, Names
  <2> QED  BY <1>2, <2>1 DEF PhaseInv
<1>10. SentInv'
  <2>1. \A x \in Txns : txn'[x].sent \subseteq txn'[x].reads
    BY <1>4 DEF Inv, SentInv, S
  <2>2. ASSUME NEW x \in Owners, NEW c \in txn'[x].reads, NEW d \in txn'[x].reads PROVE c = d
    <3>1. CASE x = a  BY <1>1, <1>4, <2>2, <3>1
    <3>2. CASE x # a  BY <1>4, <2>2, <3>2, Names DEF Inv, SentInv
    <3> QED  BY <3>1, <3>2
  <2> QED  BY <2>1, <2>2 DEF SentInv
<1>11. BootInv' /\ SavingInv'  BY <1>2 DEF BootInv, SavingInv, Inv
<1>12. ASSUME NEW c \in Bids \ raced' PROVE TxnOK(c)'
  <2>1. TxnOK(c)  BY <1>5, <1>12 DEF Inv, BidOK
  <2> SUFFICES ASSUME NEW x \in Txns, c \in txn'[x].reads, ~txn'[x].stale
               PROVE  Status(c)' = Expected(x)
    BY DEF TxnOK, Expected
  <2>2. CASE x = a  BY <1>4, <1>5, <1>12, <2>2 DEF Status
  <2>3. CASE x # a  BY <1>4, <2>1, <2>3 DEF TxnOK, Status
  <2> QED  BY <2>2, <2>3
<1>13. ASSUME NEW c \in Bids \ raced', c \notin S PROVE Pending(c)' <=> Pending(c)
  <2>1. ASSUME NEW x \in Txns, c \in txn'[x].sent, ~txn'[x].stale PROVE Pending(c)
    BY <1>4, <1>13, <2>1 DEF Pending
  <2>2. ASSUME NEW x \in Txns, c \in txn[x].sent, ~txn[x].stale PROVE Pending(c)'
    BY <1>3, <1>4, <2>2 DEF Pending
  <2> QED  BY <2>1, <2>2 DEF Pending
<1>14. CASE ~Room
  <2>1. UNCHANGED <<jobCh, worker, cell, phase>>  BY <1>8, <1>14
  <2>2. S = {} /\ raced' = raced  BY <1>5, <1>14 DEF S
  <2>3. ASSUME NEW c \in Bids \ raced' PROVE BidOK(c)'
    <3>1. BidOK(c) /\ TxnOK(c)' /\ (Pending(c)' <=> Pending(c))
      BY <1>12, <1>13, <2>2, <2>3 DEF Inv
    <3> QED  BY <2>1, <2>3, <3>1, BidFrame
  <2> QED  BY <1>9, <1>10, <1>11, <2>3 DEF Order
<1>15. CASE Room
  <2>1. UNCHANGED <<worker, cell>>  OBVIOUS
  <2>0. PICK n : n = Len(jobCh) + 1  OBVIOUS
  <2>2. /\ \A i \in DOMAIN jobCh : i \in DOMAIN jobCh' /\ jobCh'[i] = jobCh[i]
        /\ n \notin DOMAIN jobCh
        /\ Pointee(jobCh[n])' = r
        /\ Waiting(b)' = Waiting(b) \cup {n}
        /\ \A c : c # b => Waiting(c)' = Waiting(c)
        /\ \A c : Running(c)' = Running(c)
        /\ \A w \in Workers : WorkerBid(w)' = WorkerBid(w)
    BY <1>1, <1>7, <1>8, <1>15, <2>0, <2>1, JobSent
  <2>3. \A c : \A i \in Waiting(c) : Pointee(jobCh[i])' = Pointee(jobCh[i])
    BY <2>2 DEF Pointee, Waiting
  <2>4. S = {b} /\ raced' = raced \cup Raced(a, {b})  BY <1>5, <1>15 DEF S
  <2>5. ASSUME NEW c \in Bids \ raced', c # b PROVE BidOK(c)'
    <3>1. BidOK(c) /\ TxnOK(c)' /\ (Pending(c)' <=> Pending(c))
      BY <1>12, <1>13, <2>4, <2>5 DEF Inv
    <3>2. Waiting(c)' = Waiting(c) /\ Running(c)' = Running(c) /\ (HasJob(c)' <=> HasJob(c))
      BY <2>2, <2>5 DEF HasJob
    <3>3. Status(c)' = Status(c)  BY DEF Status
    <3>4. IndexOK(c)' /\ OneJob(c)' /\ AttemptOK(c)'
      BY <3>1, <3>2, <3>3 DEF BidOK, IndexOK, OneJob, AttemptOK, Resolved
    <3>5. JobOK(c)'  BY <2>2, <2>3, <3>1, <3>2, <3>3 DEF BidOK, JobOK, Running
    <3>6. KeptOK(c)' /\ ImportOK(c)'
      BY <3>1, <3>2, <3>3 DEF BidOK, KeptOK, ImportOK
    <3> QED  BY <3>1, <3>4, <3>5, <3>6 DEF BidOK
  <2>6. ASSUME b \notin raced' PROVE BidOK(b)'
    <3>1. BidOK(b) /\ ~Pending(b) /\ ~HasJob(b) /\ imports[b] = 0
      <4>1. b \notin raced /\ b \notin Raced(a, {b})  BY <2>4, <2>6
      <4>2. BidOK(b)  BY <4>1 DEF Inv
      <4>3. ~Pending(b) /\ ~HasJob(b) /\ imports[b] = 0
        BY <1>3, <1>6, <4>1, Unsent
      <4> QED  BY <4>2, <4>3
    <3>2. Waiting(b)' = {n} /\ Running(b)' = {}  BY <2>2, <3>1 DEF HasJob
    <3>3. Status(b)' = Status(b)  BY DEF Status
    <3>4. Pending(b)'  BY <1>1, <1>4, <2>4 DEF Pending
    <3>5. IndexOK(b)' /\ AttemptOK(b)'
      BY <3>1, <3>3 DEF BidOK, IndexOK, AttemptOK, Resolved
    <3>6. OneJob(b)'  BY <3>2 DEF OneJob
    <3>7. JobOK(b)'
      <4>1. r.attempts < FetchAttempts
        <5>1. b \notin raced  BY <2>4, <2>6
        <5> QED  BY <1>6, <1>7, <3>1, <5>1 DEF BidOK, AttemptOK, Resolved
      <4>2. \A i \in Waiting(b)' : /\ Pointee(jobCh[i])'.status = "fetching_data"
                                   /\ Pointee(jobCh[i])'.attempts < FetchAttempts
        BY <1>7, <2>2, <3>2, <4>1
      <4> QED  BY <3>2, <3>4, <4>2 DEF JobOK
    <3>8. KeptOK(b)' /\ ImportOK(b)'  BY <3>1, <3>2 DEF KeptOK, ImportOK, HasJob
    <3> QED  BY <1>12, <2>6, <3>5, <3>6, <3>7, <3>8 DEF BidOK
  <2> QED  BY <1>9, <1>10, <1>11, <2>5, <2>6 DEF Order
<1> QED  BY <1>14, <1>15

-----------------------------------------------------------------------------
(* The workers.                                                              *)

\* Taking a job shifts the waiting ones; only the bid of that job has its
\* attempts counted.
LEMMA JobTaken ==
  ASSUME TypeOK, NEW w \in Workers, TakeJob(w), NEW r, r = Pointee(Head(jobCh))
  PROVE  /\ r \in BidRecord /\ 1 \in Waiting(r.id)
         /\ WorkerBid(w)' = [r EXCEPT !.attempts = IF @ < AttemptCap THEN @ + 1 ELSE @]
         /\ worker'[w].pc = "fetching" /\ worker[w].pc = "idle"
         /\ worker'[w].job.shared = jobCh[1].shared
         /\ \A v \in Workers \ {w} : worker'[v] = worker[v]
         /\ cell'.id = cell.id
         /\ \A i \in DOMAIN jobCh' : i + 1 \in DOMAIN jobCh /\ jobCh'[i] = jobCh[i + 1]
         /\ \A c : \A i \in Waiting(c)' : i + 1 \in Waiting(c)
         /\ \A c : \A i \in Waiting(c) : i # 1 => i - 1 \in Waiting(c)'
         /\ \A c : c # r.id => \A i \in Waiting(c)' : Pointee(jobCh[i])' = Pointee(jobCh[i + 1])
         /\ \A c : c # r.id => /\ Running(c)' = Running(c)
                               /\ \A v \in Running(c) : v # w /\ WorkerBid(v)' = WorkerBid(v)
         /\ Running(r.id)' = Running(r.id) \cup {w}
<1> DEFINE Counted(q) == [q EXCEPT !.attempts = IF @ < AttemptCap THEN @ + 1 ELSE @]
<1>1. PICK j : j = Head(jobCh)  OBVIOUS
<1> DEFINE mine == IF j.shared THEN j ELSE [j EXCEPT !.bid = Counted(@)]
<1>2. /\ jobCh \in Seq(Job) /\ jobCh # <<>> /\ jobCh' = Tail(jobCh)
      /\ worker \in [Workers -> [pc: PCs, job: Job, status: Statuses]]
      /\ cell \in BidRecord
  BY DEF TypeOK, TakeJob
<1>3. /\ 1 \in DOMAIN jobCh /\ j = jobCh[1] /\ j \in Job
      /\ \A i \in DOMAIN jobCh : jobCh[i] \in Job /\ i \in Nat
      /\ \A i \in DOMAIN jobCh' : i + 1 \in DOMAIN jobCh /\ jobCh'[i] = jobCh[i + 1] /\ i \in Nat /\ i + 1 # 1
      /\ \A i \in DOMAIN jobCh : i # 1 => i - 1 \in DOMAIN jobCh' /\ jobCh'[i - 1] = jobCh[i]
  BY <1>1, <1>2
<1>4. r = IF j.shared THEN cell ELSE j.bid  BY <1>1 DEF Pointee
<1>5. r \in BidRecord  BY <1>2, <1>3, <1>4 DEF Job
<1>6. Counted(r) \in BidRecord /\ Counted(r).id = r.id
  BY <1>5, CountedType DEF BidRecord
<1>7. cell' = IF j.shared THEN Counted(cell) ELSE cell  BY <1>1 DEF TakeJob
<1>8. /\ worker' = [worker EXCEPT ![w] = [Idle EXCEPT !.pc = "fetching", !.job = mine]]
      /\ worker[w].pc = "idle"
  BY <1>1 DEF TakeJob, Busy
<1>9. /\ worker'[w].pc = "fetching" /\ worker'[w].job = mine
      /\ \A v \in Workers \ {w} : worker'[v] = worker[v]
  BY <1>2, <1>8 DEF Idle
<1>10. /\ mine.shared = j.shared
       /\ ~j.shared => mine.bid = Counted(j.bid)
  BY <1>3 DEF Job
<1> HIDE DEF Counted, mine
<1>11. WorkerBid(w)' = Counted(r)
  <2>1. CASE j.shared   BY <1>4, <1>7, <1>9, <1>10, <2>1 DEF WorkerBid, Pointee
  <2>2. CASE ~j.shared  BY <1>4, <1>9, <1>10, <2>2 DEF WorkerBid, Pointee
  <2> QED  BY <2>1, <2>2
<1>12. cell'.id = cell.id
  <2>1. CASE j.shared   BY <1>4, <1>6, <1>7, <2>1
  <2>2. CASE ~j.shared  BY <1>7, <2>2
  <2> QED  BY <2>1, <2>2
<1>13. \A k \in Job : /\ Pointee(k)'.id = Pointee(k).id
                      /\ Pointee(k).id # r.id => Pointee(k)' = Pointee(k)
  BY <1>4, <1>7, <1>12 DEF Pointee
<1>14. ASSUME NEW i \in DOMAIN jobCh'
       PROVE  /\ Pointee(jobCh[i])'.id = Pointee(jobCh[i + 1]).id
              /\ Pointee(jobCh[i + 1]).id # r.id => Pointee(jobCh[i])' = Pointee(jobCh[i + 1])
  <2>1. PICK k \in Job : k = jobCh[i + 1] /\ k = jobCh'[i]  BY <1>3
  <2>2. Pointee(jobCh[i])' = Pointee(k)'  BY <2>1 DEF Pointee
  <2> QED  BY <1>13, <2>1, <2>2
<1>15. ASSUME NEW c, NEW i \in Waiting(c)' PROVE i + 1 \in Waiting(c)
  BY <1>3, <1>14 DEF Waiting
<1>16. ASSUME NEW c, NEW i \in Waiting(c), i # 1 PROVE i - 1 \in Waiting(c)'
  <2>1. i - 1 \in DOMAIN jobCh' /\ (i - 1) + 1 = i  BY <1>3, <1>16 DEF Waiting
  <2> QED  BY <1>14, <2>1 DEF Waiting
<1>17. ASSUME NEW c, c # r.id, NEW i \in Waiting(c)'
       PROVE  Pointee(jobCh[i])' = Pointee(jobCh[i + 1])
  BY <1>14, <1>17 DEF Waiting
<1>18. ASSUME NEW v \in Workers \ {w}
       PROVE  /\ Busy(v)' <=> Busy(v)
              /\ WorkerBid(v)'.id = WorkerBid(v).id
              /\ WorkerBid(v).id # r.id => WorkerBid(v)' = WorkerBid(v)
  <2>1. PICK k \in Job : k = worker[v].job /\ k = worker'[v].job  BY <1>2, <1>9
  <2>2. WorkerBid(v)' = Pointee(k)' /\ WorkerBid(v) = Pointee(k)
    BY <2>1 DEF WorkerBid, Pointee
  <2> QED  BY <1>9, <1>13, <2>2 DEF Busy
<1>19. ~Busy(w) /\ Busy(w)' /\ WorkerBid(w)'.id = r.id
  BY <1>6, <1>8, <1>9, <1>11 DEF Busy
<1>20. ASSUME NEW c, c # r.id
       PROVE  /\ Running(c)' = Running(c)
              /\ \A v \in Running(c) : v # w /\ WorkerBid(v)' = WorkerBid(v)
  BY <1>18, <1>19, <1>20 DEF Running
<1>21. Running(r.id)' = Running(r.id) \cup {w}  BY <1>18, <1>19 DEF Running
<1>22. 1 \in Waiting(r.id)  BY <1>1, <1>3 DEF Waiting
<1>23. worker'[w].job.shared = jobCh[1].shared  BY <1>3, <1>9, <1>10
<1> QED
  BY <1>3, <1>5, <1>8, <1>9, <1>11, <1>12, <1>15, <1>16, <1>17, <1>20, <1>21, <1>22, <1>23
     DEF Counted

\* A job moves from jobCh to an idle worker, which counts the attempt.
LEMMA OrderTakeJob == ASSUME Inv, NEW w \in Workers, TakeJob(w) PROVE Order'
<1>1. PICK r : r = Pointee(Head(jobCh))  OBVIOUS
<1>2. TypeOK  BY DEF Inv
<1>3. /\ r \in BidRecord /\ 1 \in Waiting(r.id)
      /\ WorkerBid(w)' = [r EXCEPT !.attempts = IF @ < AttemptCap THEN @ + 1 ELSE @]
      /\ worker'[w].pc = "fetching" /\ worker[w].pc = "idle"
      /\ worker'[w].job.shared = jobCh[1].shared
      /\ \A v \in Workers \ {w} : worker'[v] = worker[v]
      /\ cell'.id = cell.id
      /\ \A i \in DOMAIN jobCh' : i + 1 \in DOMAIN jobCh /\ jobCh'[i] = jobCh[i + 1]
  BY <1>1, <1>2, JobTaken
<1>4. /\ \A c : \A i \in Waiting(c)' : i + 1 \in Waiting(c)
      /\ \A c : \A i \in Waiting(c) : i # 1 => i - 1 \in Waiting(c)'
      /\ \A c : c # r.id => \A i \in Waiting(c)' : Pointee(jobCh[i])' = Pointee(jobCh[i + 1])
      /\ \A c : c # r.id => /\ Running(c)' = Running(c)
                            /\ \A v \in Running(c) : v # w /\ WorkerBid(v)' = WorkerBid(v)
      /\ Running(r.id)' = Running(r.id) \cup {w}
  BY <1>1, <1>2, JobTaken
<1>5. /\ phase \in {"boot", "running"} /\ jobCh # <<>>
      /\ UNCHANGED <<db, txn, orphans, phase, imports, raced>>
  BY DEF TakeJob
<1>6. PhaseInv' /\ SentInv'  BY <1>5 DEF Inv, PhaseInv, SentInv
<1>7. SavingInv'  BY <1>3 DEF Inv, SavingInv
<1>8. BootInv'
  <2>1. CASE phase = "running"  BY <1>5, <2>1 DEF BootInv
  <2>2. CASE phase = "boot"
    <3>1. BootInv  BY DEF Inv
    <3>2. FetchingKeys' = FetchingKeys  BY <1>5 DEF FetchingKeys
    <3>3. ~NoJobs  BY <1>5 DEF NoJobs
    <3>4. /\ \A i \in DOMAIN jobCh' : jobCh'[i].shared
          /\ \A v \in Workers : Busy(v)' => worker'[v].job.shared
      <4>1. \A i \in DOMAIN jobCh : jobCh[i].shared  BY <2>2, <3>1 DEF BootInv
      <4>2. jobCh[1].shared  BY <1>3, <4>1 DEF Waiting
      <4>3. \A v \in Workers : Busy(v) => worker[v].job.shared  BY <2>2, <3>1 DEF BootInv
      <4> QED  BY <1>3, <4>1, <4>2, <4>3 DEF Busy
    <3>5. \A b : Status(b)' = Status(b)  BY <1>5 DEF Status
    <3> QED  BY <1>3, <1>5, <2>2, <3>1, <3>2, <3>3, <3>4, <3>5 DEF BootInv
  <2> QED  BY <1>5, <2>1, <2>2
<1>9. ASSUME NEW c \in Bids \ raced' PROVE BidOK(c)'
  <2>1. BidOK(c)  BY <1>5, <1>9 DEF Inv
  <2>2. Status(c)' = Status(c) /\ (Pending(c)' <=> Pending(c)) /\ TxnOK(c)'
    BY <1>5, <2>1 DEF Status, Pending, BidOK, TxnOK, Expected
  <2>3. IndexOK(c)' /\ AttemptOK(c)'
    BY <1>5, <2>1, <2>2 DEF BidOK, IndexOK, AttemptOK, Resolved
  <2>4. CASE c # r.id
    <3>1. Running(c)' = Running(c)  BY <1>4, <2>4
    <3>2. \A i \in Waiting(c) : i # 1
      BY <1>1, <2>4 DEF Waiting
    <3>3. Waiting(c)' = {} <=> Waiting(c) = {}  BY <1>4, <3>2
    <3>4. HasJob(c)' <=> HasJob(c)  BY <3>1, <3>3 DEF HasJob
    <3>5. OneJob(c)'
      <4>1. ASSUME NEW i \in Waiting(c)', NEW k \in Waiting(c)' PROVE i = k
        <5>1. i + 1 \in Waiting(c) /\ k + 1 \in Waiting(c)  BY <1>4
        <5>2. i + 1 = k + 1  BY <2>1, <5>1 DEF BidOK, OneJob
        <5>3. i \in Nat /\ k \in Nat  BY <1>2, <1>5 DEF Waiting, TypeOK, TakeJob
        <5> QED  BY <5>2, <5>3
      <4> QED  BY <2>1, <3>1, <3>3, <4>1 DEF BidOK, OneJob
    <3>6. JobOK(c)'
      <4>1. \A i \in Waiting(c)' : /\ Pointee(jobCh[i])'.status = "fetching_data"
                                   /\ Pointee(jobCh[i])'.attempts < FetchAttempts
        BY <1>4, <2>1, <2>4 DEF BidOK, JobOK
      <4>2. \A v \in Running(c)' :
              /\ WorkerBid(v)'.status = "fetching_data"
              /\ WorkerBid(v)'.attempts \in 1..FetchAttempts
              /\ worker'[v].pc = "saving" /\ worker'[v].status = "queued_data" =>
                   WorkerBid(v)'.attempts < FetchAttempts
        BY <1>3, <1>4, <2>1, <2>4 DEF BidOK, JobOK, Running
      <4> QED  BY <2>1, <2>2, <3>4, <4>1, <4>2 DEF BidOK, JobOK
    <3>7. KeptOK(c)'  BY <1>5, <2>1, <2>2, <3>4 DEF BidOK, KeptOK
    <3>8. ImportOK(c)'
      <4>1. \A v \in Running(c) : worker'[v] = worker[v]  BY <1>3, <1>4, <2>4 DEF Running
      <4> QED  BY <1>5, <2>1, <2>2, <3>1, <3>3, <4>1 DEF BidOK, ImportOK
    <3> QED  BY <2>2, <2>3, <3>5, <3>6, <3>7, <3>8 DEF BidOK
  <2>5. CASE c = r.id
    <3>1. Waiting(c) = {1} /\ Running(c) = {}
      BY <1>3, <2>1, <2>5 DEF BidOK, OneJob
    <3>2. Waiting(c)' = {}
      <4> SUFFICES ASSUME NEW i \in Waiting(c)' PROVE FALSE  OBVIOUS
      <4>1. i + 1 \in Waiting(c)  BY <1>4
      <4>2. i \in Nat /\ i # 0  BY <1>2, <1>5 DEF Waiting, TypeOK, TakeJob
      <4> QED  BY <3>1, <4>1, <4>2
    <3>3. Running(c)' = {w}  BY <1>4, <2>5, <3>1
    <3>4. HasJob(c) /\ HasJob(c)'  BY <3>1, <3>3 DEF HasJob
    <3>5. OneJob(c)'  BY <3>2, <3>3 DEF OneJob
    <3>6. r.status = "fetching_data" /\ r.attempts < FetchAttempts
      BY <1>1, <2>1, <3>1 DEF BidOK, JobOK
    <3>7. /\ WorkerBid(w)'.status = "fetching_data"
          /\ WorkerBid(w)'.attempts \in 1..FetchAttempts
      <4>1. r.attempts \in Nat /\ AttemptCap = FetchAttempts + 1 /\ FetchAttempts \in Nat
        BY <1>3, LimitsAssumption DEF BidRecord, AttemptCap
      <4>2. WorkerBid(w)'.attempts = r.attempts + 1 /\ WorkerBid(w)'.status = r.status
        BY <1>3, <3>6, <4>1 DEF BidRecord
      <4> QED  BY <3>6, <4>1, <4>2
    <3>8. JobOK(c)'
      BY <1>3, <2>1, <2>2, <3>2, <3>3, <3>4, <3>7 DEF BidOK, JobOK
    <3>9. KeptOK(c)'  BY <3>4 DEF KeptOK
    <3>10. ImportOK(c)'  BY <1>5, <2>1, <3>1 DEF BidOK, ImportOK
    <3> QED  BY <2>2, <2>3, <3>5, <3>8, <3>9, <3>10 DEF BidOK
  <2> QED  BY <2>4, <2>5
<1> QED  BY <1>6, <1>7, <1>8, <1>9 DEF Order

\* Nor does it matter to any bid that a job is dropped once Close has begun:
\* what is stored is all that counts then.
LEMMA OrderDropJob == ASSUME Inv, NEW w \in Workers, DropJob(w) PROVE Order'
<1>1. /\ phase = "closing" /\ jobCh # <<>> /\ jobCh' = Tail(jobCh) /\ worker[w].pc = "idle"
      /\ worker' = [worker EXCEPT ![w].pc = "returned"]
      /\ UNCHANGED <<db, txn, orphans, cell, phase, imports, raced>>
  BY DEF DropJob
<1>2. /\ jobCh \in Seq(Job)
      /\ worker \in [Workers -> [pc: PCs, job: Job, status: Statuses]]
  BY DEF Inv, TypeOK
<1>3. \A i \in DOMAIN jobCh' : /\ i \in Nat /\ i + 1 \in DOMAIN jobCh
                               /\ jobCh'[i] = jobCh[i + 1]
  BY <1>1, <1>2
<1>4. \A v \in Workers : /\ worker'[v].job = worker[v].job
                         /\ worker'[v].status = worker[v].status
                         /\ worker'[v].pc = IF v = w THEN "returned" ELSE worker[v].pc
  BY <1>1, <1>2
<1>5. \A v \in Workers : (Busy(v)' <=> Busy(v)) /\ WorkerBid(v)' = WorkerBid(v)
  BY <1>1, <1>4 DEF Busy, WorkerBid, Pointee
<1>6. \A c : Running(c)' = Running(c)  BY <1>5 DEF Running
<1>7. \A c : \A i \in Waiting(c)' : /\ i \in Nat /\ i + 1 \in Waiting(c)
                                   /\ Pointee(jobCh[i])' = Pointee(jobCh[i + 1])
  BY <1>1, <1>3 DEF Waiting, Pointee
<1>8. PhaseInv' /\ SentInv'  BY <1>1 DEF Inv, PhaseInv, SentInv
<1>9. SavingInv'  BY <1>4 DEF Inv, SavingInv
<1>10. BootInv'  BY <1>1 DEF BootInv
<1>11. ASSUME NEW c \in Bids \ raced' PROVE BidOK(c)'
  <2>1. BidOK(c)  BY <1>1, <1>11 DEF Inv
  <2>2. Status(c)' = Status(c) /\ (Pending(c)' <=> Pending(c)) /\ TxnOK(c)'
    BY <1>1, <2>1 DEF Status, Pending, BidOK, TxnOK, Expected
  <2>3. IndexOK(c)' /\ AttemptOK(c)'
    BY <1>1, <2>1, <2>2 DEF BidOK, IndexOK, AttemptOK, Resolved
  <2>4. HasJob(c)' => HasJob(c)  BY <1>6, <1>7 DEF HasJob
  <2>5. OneJob(c)'
    <3>1. ASSUME NEW i \in Waiting(c)', NEW k \in Waiting(c)' PROVE i = k
      <4>1. /\ i \in Nat /\ i + 1 \in Waiting(c)
            /\ k \in Nat /\ k + 1 \in Waiting(c)
        BY <1>7
      <4>2. i + 1 = k + 1  BY <2>1, <4>1 DEF BidOK, OneJob
      <4> QED  BY <4>1, <4>2
    <3>2. Waiting(c) = {} => Waiting(c)' = {}  BY <1>7
    <3> QED  BY <1>6, <2>1, <3>1, <3>2 DEF BidOK, OneJob
  <2>6. JobOK(c)'
    <3>1. \A i \in Waiting(c)' : /\ Pointee(jobCh[i])'.status = "fetching_data"
                                 /\ Pointee(jobCh[i])'.attempts < FetchAttempts
      BY <1>7, <2>1 DEF BidOK, JobOK
    <3>2. \A v \in Running(c) : v \in Workers /\ v # w
      BY <1>1 DEF Running, Busy
    <3>3. \A v \in Running(c)' :
            /\ WorkerBid(v)'.status = "fetching_data"
            /\ WorkerBid(v)'.attempts \in 1..FetchAttempts
            /\ worker'[v].pc = "saving" /\ worker'[v].status = "queued_data" =>
                 WorkerBid(v)'.attempts < FetchAttempts
      BY <1>4, <1>5, <1>6, <2>1, <3>2 DEF BidOK, JobOK
    <3> QED  BY <2>1, <2>2, <2>4, <3>1, <3>3 DEF BidOK, JobOK
  <2>7. KeptOK(c)'  BY <1>1 DEF KeptOK
  <2>8. ImportOK(c)'
    <3>1. Waiting(c) = {} => Waiting(c)' = {}  BY <1>7
    <3>2. \A v \in Running(c) : v \in Workers /\ v # w
      BY <1>1 DEF Running, Busy
    <3> QED  BY <1>1, <1>4, <1>6, <2>1, <2>2, <3>1, <3>2 DEF BidOK, ImportOK
  <2> QED  BY <2>2, <2>3, <2>5, <2>6, <2>7, <2>8 DEF BidOK
<1> QED  BY <1>8, <1>9, <1>10, <1>11 DEF Order

\* A worker moves on with the job in hand.
LEMMA WorkerMoved ==
  ASSUME TypeOK, NEW w \in Workers, Busy(w), NEW pc \in PCs \ {"idle", "returned"}, NEW s \in Statuses,
         worker' = [worker EXCEPT ![w] = [@ EXCEPT !.pc = pc, !.status = s]],
         UNCHANGED <<jobCh, cell>>
  PROVE  /\ \A v \in Workers : /\ worker'[v].job = worker[v].job
                               /\ worker'[v].pc = IF v = w THEN pc ELSE worker[v].pc
                               /\ worker'[v].status = IF v = w THEN s ELSE worker[v].status
                               /\ Busy(v)' <=> Busy(v)
                               /\ WorkerBid(v)' = WorkerBid(v)
         /\ \A c : /\ Waiting(c)' = Waiting(c)
                   /\ Running(c)' = Running(c)
                   /\ HasJob(c)' <=> HasJob(c)
<1>1. \A v \in Workers : /\ worker'[v].job = worker[v].job
                         /\ worker'[v].pc = IF v = w THEN pc ELSE worker[v].pc
                         /\ worker'[v].status = IF v = w THEN s ELSE worker[v].status
  BY DEF TypeOK
<1>2. \A v \in Workers : /\ Busy(v)' <=> Busy(v)
                         /\ WorkerBid(v)' = WorkerBid(v)
  BY <1>1 DEF Busy, WorkerBid, Pointee
<1>3. \A c : Waiting(c)' = Waiting(c) /\ Running(c)' = Running(c)
  BY <1>2 DEF Waiting, Running, Pointee
<1>4. \A c : HasJob(c)' <=> HasJob(c)  BY <1>3 DEF HasJob
<1> QED  BY <1>1, <1>2, <1>3, <1>4

\* Every step of a worker between taking a job and saving its outcome.
LEMMA OrderMove ==
  ASSUME Inv, NEW w \in Workers, Busy(w), worker[w].pc # "saving",
         NEW pc \in PCs \ {"idle", "returned"}, NEW s \in Statuses,
         worker' = [worker EXCEPT ![w] = [@ EXCEPT !.pc = pc, !.status = s]],
         UNCHANGED <<db, jobCh, txn, orphans, cell, phase, raced>>,
         pc = "saving" => /\ s \in {"finalized", "errored", "queued_data"}
                          /\ s = "queued_data" => WorkerBid(w).attempts < FetchAttempts,
         \/ imports' = imports
         \/ /\ pc = "saving" /\ s = "finalized"
            /\ imports' = [imports EXCEPT ![WorkerBid(w).id] = IF @ < 2 THEN @ + 1 ELSE @]
  PROVE  Order'
<1>1. TypeOK /\ phase # "down"  BY DEF Inv, PhaseInv, NoJobs
<1>2. /\ \A v \in Workers : /\ worker'[v].job = worker[v].job
                            /\ worker'[v].pc = IF v = w THEN pc ELSE worker[v].pc
                            /\ worker'[v].status = IF v = w THEN s ELSE worker[v].status
                            /\ Busy(v)' <=> Busy(v)
                            /\ WorkerBid(v)' = WorkerBid(v)
      /\ \A c : /\ Waiting(c)' = Waiting(c)
                /\ Running(c)' = Running(c)
                /\ HasJob(c)' <=> HasJob(c)
  BY <1>1, WorkerMoved
<1>3. \A c : Status(c)' = Status(c) /\ (Pending(c)' <=> Pending(c))  BY DEF Status, Pending
<1>4. \A c \in Bids : c # WorkerBid(w).id => imports'[c] = imports[c]
  BY <1>1 DEF TypeOK
<1>5. PhaseInv'  BY <1>1 DEF Inv, PhaseInv
<1>6. SentInv'  BY DEF Inv, SentInv
<1>7. SavingInv'  BY <1>2 DEF Inv, SavingInv
<1>8. BootInv'
  <2>1. CASE phase # "boot"  BY <2>1 DEF BootInv
  <2>2. CASE phase = "boot"
    <3>1. BootInv  BY DEF Inv
    <3>2. FetchingKeys' = FetchingKeys  BY DEF FetchingKeys
    <3>3. ~NoJobs  BY DEF NoJobs
    <3>4. WorkerBid(w) = cell  BY <2>2, <3>1 DEF BootInv, WorkerBid, Pointee
    <3>5. cell.id \in txn["orphans"].sent \cup raced  BY <2>2, <3>1, <3>3 DEF BootInv
    <3>6. \A b \in txn["orphans"].reads \ (txn["orphans"].sent \cup raced) : imports'[b] = imports[b]
      <4>1. txn["orphans"].reads \subseteq Bids  BY <1>1, Names DEF TypeOK
      <4> QED  BY <1>4, <3>4, <3>5, <4>1
    <3>7. \A v \in Workers : Busy(v)' => worker'[v].job.shared
      BY <1>2, <2>2, <3>1 DEF BootInv
    <3> QED  BY <1>3, <2>2, <3>1, <3>2, <3>3, <3>6, <3>7 DEF BootInv
  <2> QED  BY <2>1, <2>2
<1>9. ASSUME NEW c \in Bids \ raced' PROVE BidOK(c)'
  <2>1. BidOK(c)  BY <1>9 DEF Inv
  <2>2. TxnOK(c)'  BY <1>3, <2>1 DEF BidOK, TxnOK, Expected
  <2>3. IndexOK(c)' /\ OneJob(c)' /\ AttemptOK(c)' /\ KeptOK(c)'
    BY <1>2, <1>3, <2>1 DEF BidOK, IndexOK, OneJob, AttemptOK, Resolved, KeptOK
  <2>4. JobOK(c)'
    <3>1. \A i \in Waiting(c)' : /\ Pointee(jobCh[i])'.status = "fetching_data"
                                 /\ Pointee(jobCh[i])'.attempts < FetchAttempts
      BY <1>2, <2>1 DEF BidOK, JobOK, Pointee
    <3>2. \A v \in Running(c)' :
            /\ WorkerBid(v)'.status = "fetching_data"
            /\ WorkerBid(v)'.attempts \in 1..FetchAttempts
            /\ worker'[v].pc = "saving" /\ worker'[v].status = "queued_data" =>
                 WorkerBid(v)'.attempts < FetchAttempts
      BY <1>2, <2>1 DEF BidOK, JobOK, Running
    <3> QED  BY <1>2, <1>3, <2>1, <3>1, <3>2 DEF BidOK, JobOK
  <2>5. ImportOK(c)'
    <3>1. CASE w \notin Running(c)
      <4>1. c # WorkerBid(w).id  BY <3>1 DEF Running
      <4>2. imports'[c] = imports[c]  BY <1>4, <4>1
      <4>3. \A v \in Running(c) : worker'[v].pc = worker[v].pc /\ worker'[v].status = worker[v].status
        BY <1>2, <3>1 DEF Running
      <4> QED  BY <1>2, <1>3, <2>1, <4>2, <4>3 DEF BidOK, ImportOK
    <3>2. CASE w \in Running(c)
      <4>1. imports[c] = 0  BY <1>1, <2>1, <3>2 DEF BidOK, ImportOK
      <4>2. Waiting(c) = {} /\ Running(c) = {w} /\ HasJob(c)
        BY <2>1, <3>2 DEF BidOK, OneJob, HasJob
      <4>3. Status(c) = "fetching_data" \/ Pending(c)  BY <2>1, <4>2 DEF BidOK, JobOK
      <4>4. CASE imports' = imports  BY <4>1, <4>4 DEF ImportOK
      <4>5. CASE /\ pc = "saving" /\ s = "finalized"
                 /\ imports' = [imports EXCEPT ![WorkerBid(w).id] = IF @ < 2 THEN @ + 1 ELSE @]
        <5>1. WorkerBid(w).id = c  BY <3>2 DEF Running
        <5>2. imports'[c] = 1  BY <1>1, <4>1, <4>5, <5>1 DEF TypeOK
        <5> QED  BY <1>2, <1>3, <4>2, <4>3, <4>5, <5>2 DEF ImportOK
      <4> QED  BY <4>4, <4>5
    <3> QED  BY <3>1, <3>2
  <2> QED  BY <2>2, <2>3, <2>4, <2>5 DEF BidOK
<1> QED  BY <1>5, <1>6, <1>7, <1>8, <1>9 DEF Order

LEMMA OrderFail ==
  ASSUME Inv, NEW w \in Workers, Busy(w), worker[w].pc # "saving",
         NEW immediate \in BOOLEAN, Fail(w, immediate),
         UNCHANGED <<db, jobCh, txn, orphans, cell, phase, imports, raced>>
  PROVE  Order'
<1> DEFINE s == IF immediate \/ WorkerBid(w).attempts >= FetchAttempts
                THEN "errored" ELSE "queued_data"
<1>1. s \in Statuses /\ "saving" \in PCs \ {"idle", "returned"}  BY DEF Statuses, PCs
<1>2. worker' = [worker EXCEPT ![w] = [@ EXCEPT !.pc = "saving", !.status = s]]
  BY DEF Fail
<1>3. s \in {"finalized", "errored", "queued_data"}  OBVIOUS
<1>4. s = "queued_data" => WorkerBid(w).attempts < FetchAttempts
  <2>1. worker[w].job \in Job  BY DEF Inv, TypeOK
  <2>2. WorkerBid(w) \in BidRecord  BY <2>1, PointeeType DEF WorkerBid, Inv
  <2>3. WorkerBid(w).attempts \in Nat  BY <2>2, LimitsAssumption DEF BidRecord, AttemptCap
  <2> QED  BY <2>3, LimitsAssumption
<1> HIDE DEF s
<1> QED  BY <1>1, <1>2, <1>3, <1>4, OrderMove

LEMMA OrderWork ==
  ASSUME Inv, NEW w \in Workers,
         \/ FetchExpired(w) \/ FetchFails(w) \/ FetchDone(w)
         \/ ImportBegin(w)  \/ ImportFails(w) \/ ImportDone(w)
  PROVE  Order'
<1>1. CASE FetchExpired(w) \/ FetchFails(w) \/ ImportFails(w)
  <2>1. /\ worker[w].pc \in {"fetching", "importing"}
        /\ UNCHANGED <<db, jobCh, txn, orphans, cell, phase, imports, raced>>
        /\ \E i \in BOOLEAN : Fail(w, i)
    BY <1>1 DEF FetchExpired, FetchFails, ImportFails
  <2> QED  BY <2>1, OrderFail DEF Busy
<1>2. CASE FetchDone(w) \/ ImportBegin(w)
  <2>1. PICK pc \in {"fetched", "importing"} :
          /\ worker[w].pc \in {"fetching", "fetched"}
          /\ worker' = [worker EXCEPT ![w].pc = pc]
          /\ UNCHANGED <<db, jobCh, txn, orphans, cell, phase, imports, raced>>
    BY <1>2 DEF FetchDone, ImportBegin
  <2>2. worker[w] \in [pc: PCs, job: Job, status: Statuses]  BY DEF Inv, TypeOK
  <2>3. PICK s \in Statuses : s = worker[w].status  BY <2>2
  <2>4. worker' = [worker EXCEPT ![w] = [@ EXCEPT !.pc = pc, !.status = s]]
    <3>1. [worker[w] EXCEPT !.pc = pc] = [worker[w] EXCEPT !.pc = pc, !.status = s]
      BY <2>2, <2>3
    <3> QED  BY <2>1, <3>1
  <2>5. pc \in PCs \ {"idle", "returned"} /\ pc # "saving"  BY DEF PCs
  <2>6. Busy(w) /\ worker[w].pc # "saving"  BY <2>1 DEF Busy
  <2>7. UNCHANGED <<db, jobCh, txn, orphans, cell, phase, raced>> /\ imports' = imports
    BY <2>1
  <2> QED  BY <2>4, <2>5, <2>6, <2>7, OrderMove
<1>3. CASE ImportDone(w)
  <2>1. "finalized" \in Statuses /\ "saving" \in PCs \ {"idle", "returned"}  BY DEF Statuses, PCs
  <2> QED  BY <1>3, <2>1, OrderMove DEF ImportDone, Busy
<1> QED  BY <1>1, <1>2, <1>3

\* A write of other bids by a leaves the transactions of c as they are, except
\* that getOrphaned's may not be able to commit any more.
LEMMA OthersPending ==
  ASSUME Inv, NEW a \in Txns \cup {"none"}, NEW B \in SUBSET Bids, txn' = AfterWrite(a, B),
         a \in Txns => B = txn[a].reads,
         NEW c \in Bids \ raced, c \notin B, db'[c] = db[c]
  PROVE  /\ TxnOK(c)'
         /\ Pending(c)' => Pending(c)
         /\ Pending(c) => Pending(c)' \/ Status(c) = "fetching_data"
<1>1. TypeOK /\ SentInv /\ TxnOK(c)  BY DEF Inv, BidOK
<1>2. Status(c)' = Status(c)  BY DEF Status
<1>3. ASSUME NEW x \in Txns, c \in txn'[x].reads, ~txn'[x].stale
      PROVE  Status(c)' = Expected(x)
  <2>1. c \in txn[x].reads /\ ~txn[x].stale  BY <1>1, <1>3, AfterWritePoint DEF Closed
  <2> QED  BY <1>1, <1>2, <2>1 DEF TxnOK
<1>4. TxnOK(c)'  BY <1>3 DEF TxnOK, Expected
<1>5. ASSUME NEW x \in Txns, c \in txn'[x].sent, ~txn'[x].stale PROVE Pending(c)
  BY <1>1, <1>5, AfterWritePoint DEF Pending, Closed
<1>6. ASSUME NEW x \in Txns, c \in txn[x].sent, ~txn[x].stale
      PROVE  Pending(c)' \/ Status(c) = "fetching_data"
  <2>1. c \in txn[x].reads  BY <1>1, <1>6 DEF SentInv
  <2>2. CASE x = "orphans"  BY <1>1, <1>6, <2>1, <2>2, Names DEF TxnOK
  <2>3. CASE x # "orphans"
    <3>1. x \in Owners /\ x # a  BY <2>1, <2>3, Names
    <3>2. txn[x].reads = {c}  BY <1>1, <2>1, <3>1 DEF SentInv
    <3> QED  BY <1>1, <1>6, <3>1, <3>2, AfterWritePoint DEF Pending
  <2> QED  BY <2>2, <2>3
<1> QED  BY <1>4, <1>5, <1>6 DEF Pending

\* Worker w has put down its job, whose outcome s is in the job's bid.
PutsDown(w, s) ==
  /\ worker' = [worker EXCEPT ![w] = Idle] /\ UNCHANGED jobCh
  /\ cell' = IF worker[w].job.shared THEN [cell EXCEPT !.status = s] ELSE cell

\* Only the jobs of bid b have changed: it lost the job worker w had.
LosesJob(b, w) ==
  /\ cell'.id = cell.id
  /\ \A v \in Workers \ {w} : worker'[v] = worker[v]
  /\ worker'[w].pc = "idle"
  /\ \A c : Waiting(c)' = Waiting(c) /\ Running(c)' = Running(c) \ {w}
  /\ \A c : c # b => /\ w \notin Running(c)
                     /\ \A i \in Waiting(c) : Pointee(jobCh[i])' = Pointee(jobCh[i])
                     /\ \A v \in Running(c) : WorkerBid(v)' = WorkerBid(v)

\* A worker returns to its loop.
LEMMA JobReleased ==
  ASSUME TypeOK, NEW w \in Workers, Busy(w), NEW s \in Statuses, PutsDown(w, s),
         NEW b, b = WorkerBid(w).id
  PROVE  LosesJob(b, w)
<1>0. /\ worker' = [worker EXCEPT ![w] = Idle] /\ UNCHANGED jobCh
      /\ cell' = IF worker[w].job.shared THEN [cell EXCEPT !.status = s] ELSE cell
  BY DEF PutsDown
<1>1. /\ cell \in BidRecord /\ jobCh \in Seq(Job)
      /\ worker \in [Workers -> [pc: PCs, job: Job, status: Statuses]]
  BY DEF TypeOK
<1>2. cell'.id = cell.id  BY <1>0, <1>1 DEF BidRecord
<1>3. \A k \in Job : /\ Pointee(k)'.id = Pointee(k).id
                     /\ Pointee(k).id # b => Pointee(k)' = Pointee(k)
  BY <1>0, <1>2 DEF Pointee, WorkerBid
<1>4. /\ \A v \in Workers \ {w} : worker'[v] = worker[v]
      /\ worker'[w].pc = "idle"
  BY <1>0, <1>1 DEF Idle
<1>5. ASSUME NEW i \in DOMAIN jobCh
      PROVE  /\ Pointee(jobCh[i])'.id = Pointee(jobCh[i]).id
             /\ Pointee(jobCh[i]).id # b => Pointee(jobCh[i])' = Pointee(jobCh[i])
  <2>1. PICK k \in Job : k = jobCh[i]  BY <1>1
  <2>2. Pointee(jobCh[i])' = Pointee(k)'  BY <1>0, <2>1 DEF Pointee
  <2> QED  BY <1>3, <2>1, <2>2
<1>6. ASSUME NEW v \in Workers \ {w}
      PROVE  /\ Busy(v)' <=> Busy(v)
             /\ WorkerBid(v)'.id = WorkerBid(v).id
             /\ WorkerBid(v).id # b => WorkerBid(v)' = WorkerBid(v)
  <2>1. PICK k \in Job : k = worker[v].job  BY <1>1
  <2>2. WorkerBid(v)' = Pointee(k)' /\ WorkerBid(v) = Pointee(k)
    BY <1>4, <2>1 DEF WorkerBid, Pointee
  <2> QED  BY <1>3, <1>4, <2>2 DEF Busy
<1>7. ~Busy(w)'  BY <1>4 DEF Busy
<1>8. \A c : Waiting(c)' = Waiting(c)  BY <1>0, <1>5 DEF Waiting
<1>9. \A c : Running(c)' = Running(c) \ {w}  BY <1>6, <1>7 DEF Running
<1>10. ASSUME NEW c, c # b
       PROVE  /\ w \notin Running(c)
              /\ \A i \in Waiting(c) : Pointee(jobCh[i])' = Pointee(jobCh[i])
              /\ \A v \in Running(c) : WorkerBid(v)' = WorkerBid(v)
  BY <1>5, <1>6, <1>10 DEF Waiting, Running
<1> QED  BY <1>2, <1>4, <1>8, <1>9, <1>10 DEF LosesJob

\* A bid stays in order when its record and its jobs are left alone.
LEMMA JobsKept ==
  ASSUME NEW c \in Bids, BidOK(c), db'[c] = db[c], imports'[c] = imports[c], phase' = phase,
         TxnOK(c)', Pending(c)' => Pending(c),
         Pending(c) => Pending(c)' \/ Status(c) = "fetching_data",
         Waiting(c)' = Waiting(c), Running(c)' = Running(c),
         \A i \in Waiting(c) : Pointee(jobCh[i])' = Pointee(jobCh[i]),
         \A v \in Running(c) : WorkerBid(v)' = WorkerBid(v) /\ worker'[v] = worker[v]
  PROVE  BidOK(c)'
<1>1. Status(c)' = Status(c) /\ (HasJob(c)' <=> HasJob(c))  BY DEF Status, HasJob
<1>2. IndexOK(c)' /\ OneJob(c)' /\ AttemptOK(c)'
  BY <1>1 DEF BidOK, IndexOK, OneJob, AttemptOK, Resolved
<1>3. JobOK(c)'  BY <1>1 DEF BidOK, JobOK
<1>4. KeptOK(c)'  BY <1>1 DEF BidOK, KeptOK
<1>5. ImportOK(c)'  BY <1>1 DEF BidOK, ImportOK
<1> QED  BY <1>2, <1>3, <1>4, <1>5 DEF BidOK

\* What start-up needs survives when a worker returns and writes at most the
\* bid b it had, which leaves the fetching index.
LEMMA BootKept ==
  ASSUME Inv, phase = "boot", NEW w \in Workers, Busy(w), NEW b, b = WorkerBid(w).id,
         UNCHANGED <<jobCh, orphans, phase, imports>>, raced \subseteq raced',
         cell'.id = cell.id, worker'[w].pc = "idle",
         \A v \in Workers \ {w} : worker'[v] = worker[v],
         \A c \in Bids \ {b} : db'[c] = db[c],
         db'[b].fetching => db[b].fetching,
         txn'["orphans"].reads = txn["orphans"].reads,
         txn'["orphans"].sent = txn["orphans"].sent,
         txn["orphans"].stale => txn'["orphans"].stale
  PROVE  BootInv'
<1>1. BootInv /\ ~NoJobs  BY DEF Inv, NoJobs
<1>2. b = cell.id  BY <1>1 DEF BootInv, WorkerBid, Pointee
<1>3. b \in txn["orphans"].sent \cup raced /\ cell.id \notin orphans
  BY <1>1, <1>2 DEF BootInv
<1>4. txn["orphans"].sent # {}  BY <1>1 DEF BootInv
<1>5. FetchingKeys' \subseteq FetchingKeys  BY DEF FetchingKeys
<1>6. \A v \in Workers : Busy(v)' => worker'[v].job.shared  BY <1>1 DEF BootInv, Busy
<1>7. ASSUME NEW c \in txn["orphans"].reads \ (txn["orphans"].sent \cup raced')
      PROVE  Status(c)' = "fetching_data" /\ imports'[c] = 0
  <2>1. c \in Bids \ {b}  BY <1>3, Names DEF Inv, TypeOK
  <2>2. Status(c) = "fetching_data" /\ imports[c] = 0  BY <1>1, <1>7 DEF BootInv
  <2> QED  BY <2>1, <2>2 DEF Status
<1> QED  BY <1>1, <1>2, <1>3, <1>4, <1>5, <1>6, <1>7 DEF BootInv

\* The save of an outcome fails: the job is gone, and only the next start
\* brings it back.
LEMMA OrderSaveOutcomeFails == ASSUME Inv, NEW w \in Workers, SaveOutcomeFails(w) PROVE Order'
<1>1. /\ TypeOK /\ Busy(w) /\ StoreFails
      /\ UNCHANGED <<db, jobCh, txn, orphans, phase, imports, raced>>
      /\ worker' = [worker EXCEPT ![w] = Idle]
  BY DEF SaveOutcomeFails, Inv, Busy, Release
<1>2. PICK b \in Bids : b = WorkerBid(w).id
  BY <1>1, PointeeType DEF TypeOK, WorkerBid, BidRecord
<1>3. PICK s \in Statuses : s = worker[w].status  BY <1>1 DEF TypeOK
<1>4. /\ cell'.id = cell.id
      /\ \A v \in Workers \ {w} : worker'[v] = worker[v]
      /\ worker'[w].pc = "idle"
      /\ \A c : Waiting(c)' = Waiting(c) /\ Running(c)' = Running(c) \ {w}
      /\ \A c : c # b => /\ w \notin Running(c)
                         /\ \A i \in Waiting(c) : Pointee(jobCh[i])' = Pointee(jobCh[i])
                         /\ \A v \in Running(c) : WorkerBid(v)' = WorkerBid(v)
  <2>1. cell' = IF worker[w].job.shared THEN [cell EXCEPT !.status = s] ELSE cell
    BY <1>3 DEF SaveOutcomeFails
  <2>2. UNCHANGED jobCh /\ worker' = [worker EXCEPT ![w] = Idle]  BY <1>1
  <2>3. TypeOK /\ Busy(w) /\ PutsDown(w, s)  BY <1>1, <2>1, <2>2 DEF PutsDown
  <2>4. LosesJob(b, w)  BY <1>2, <2>3, JobReleased
  <2> QED  BY <2>4 DEF LosesJob
<1>5. phase # "down"  BY <1>1 DEF Inv, PhaseInv, NoJobs
<1>6. PhaseInv' /\ SentInv'  BY <1>1, <1>5 DEF Inv, PhaseInv, SentInv
<1>7. SavingInv'  BY <1>4 DEF Inv, SavingInv
<1>8. BootInv'
  <2>1. CASE phase = "boot"  BY <1>1, <1>2, <1>4, <2>1, BootKept
  <2>2. CASE phase # "boot"  BY <1>1, <2>2 DEF BootInv
  <2> QED  BY <2>1, <2>2
<1>9. ASSUME NEW c \in Bids \ raced' PROVE BidOK(c)'
  <2>1. BidOK(c)  BY <1>1, <1>9 DEF Inv
  <2>2. TxnOK(c)' /\ (Pending(c)' <=> Pending(c)) /\ Status(c)' = Status(c)
    BY <1>1, <2>1 DEF BidOK, TxnOK, Pending, Status, Expected
  <2>3. CASE c # b
    <3>1. Running(c)' = Running(c)  BY <1>4, <2>3
    <3>2. \A v \in Running(c) : worker'[v] = worker[v]  BY <1>4, <2>3 DEF Running
    <3> QED  BY <1>1, <1>4, <2>1, <2>2, <2>3, <3>1, <3>2, JobsKept
  <2>4. CASE c = b
    <3>1. Running(c) = {w} /\ Waiting(c) = {}
      BY <1>1, <1>2, <2>1, <2>4 DEF BidOK, OneJob, Running
    <3>2. Running(c)' = {} /\ Waiting(c)' = {}  BY <1>4, <3>1
    <3>3. ~HasJob(c)'  BY <3>2 DEF HasJob
    <3>4. IndexOK(c)' /\ AttemptOK(c)'
      BY <1>1, <2>1, <2>2 DEF BidOK, IndexOK, AttemptOK, Resolved
    <3>5. OneJob(c)' /\ JobOK(c)'  BY <3>2, <3>3 DEF OneJob, JobOK
    <3>6. KeptOK(c)'  BY <1>1 DEF KeptOK
    <3>7. ImportOK(c)'  BY <1>1, <2>1, <2>2, <3>1, <3>2 DEF BidOK, ImportOK
    <3> QED  BY <2>2, <3>4, <3>5, <3>6, <3>7 DEF BidOK
  <2> QED  BY <2>3, <2>4
<1> QED  BY <1>6, <1>7, <1>8, <1>9 DEF Order

\* A bid with a job is stored as being fetched when its outcome is saved: the
\* transaction that sent the job has committed, or the save races it.
LEMMA SavedIsFetching ==
  ASSUME Inv, NEW b \in Bids \ raced, b \notin Raced("none", {b}), HasJob(b)
  PROVE  Status(b) = "fetching_data"
<1>1. BidOK(b) /\ "none" \notin Txns  BY Names DEF Inv
<1>2. ASSUME NEW x \in Txns, b \in txn[x].sent, ~txn[x].stale
      PROVE  Status(b) = "fetching_data"
  <2>1. x = "orphans"  BY <1>1, <1>2 DEF Raced
  <2>2. b \in txn[x].reads  BY <1>2 DEF Inv, SentInv
  <2> QED  BY <1>1, <1>2, <2>1, <2>2, Names DEF BidOK, TxnOK
<1> QED  BY <1>1, <1>2 DEF BidOK, JobOK, Pending

\* The outcome is saved without reading what is stored: it is what the
\* worker's own copy of the bid says.
LEMMA OrderSaveOutcome == ASSUME Inv, NEW w \in Workers, SaveOutcome(w) PROVE Order'
<1>1. /\ TypeOK /\ Busy(w) /\ worker[w].pc = "saving"
      /\ UNCHANGED <<jobCh, orphans, phase, imports>>
      /\ worker' = [worker EXCEPT ![w] = Idle]
  BY DEF SaveOutcome, Inv, Busy, Release
<1>2. PICK r \in BidRecord : r = WorkerBid(w)
  BY <1>1, PointeeType DEF TypeOK, WorkerBid
<1>3. PICK s \in Statuses : s = worker[w].status  BY <1>1 DEF TypeOK
<1>4. PICK b \in Bids : b = r.id  BY <1>2 DEF BidRecord
<1>5. /\ cell'.id = cell.id
      /\ \A v \in Workers \ {w} : worker'[v] = worker[v]
      /\ worker'[w].pc = "idle"
      /\ \A c : Waiting(c)' = Waiting(c) /\ Running(c)' = Running(c) \ {w}
      /\ \A c : c # b => /\ w \notin Running(c)
                         /\ \A i \in Waiting(c) : Pointee(jobCh[i])' = Pointee(jobCh[i])
                         /\ \A v \in Running(c) : WorkerBid(v)' = WorkerBid(v)
  <2>1. cell' = IF worker[w].job.shared THEN [cell EXCEPT !.status = s] ELSE cell
    BY <1>3 DEF SaveOutcome
  <2>2. UNCHANGED jobCh /\ worker' = [worker EXCEPT ![w] = Idle]  BY <1>1
  <2>3. TypeOK /\ Busy(w) /\ PutsDown(w, s)  BY <1>1, <2>1, <2>2 DEF PutsDown
  <2>4. b = WorkerBid(w).id  BY <1>2, <1>4
  <2>5. LosesJob(b, w)  BY <2>3, <2>4, JobReleased
  <2> QED  BY <2>5 DEF LosesJob
<1>6. phase # "down"  BY <1>1 DEF Inv, PhaseInv, NoJobs
<1>7. /\ db' = [db EXCEPT ![b] = Save(db[b], r, s)] /\ db \in [Bids -> Entry]
      /\ txn' = AfterWrite("none", {b})
      /\ raced' = raced \cup Raced("none", {b})
  BY <1>1, <1>2, <1>3, <1>4 DEF SaveOutcome, Write, TypeOK
<1>8. s \in {"finalized", "errored", "queued_data"}  BY <1>1, <1>3 DEF Inv, SavingInv
<1>9. db'[b] = Save(db[b], r, s) /\ \A c \in Bids \ {b} : db'[c] = db[c]  BY <1>7
<1>10. /\ "none" \notin Txns /\ {b} \in SUBSET Bids
       /\ "none" \in Txns \cup {"none"}
  BY Names
<1>11. \A x \in Txns : /\ txn'[x].reads = txn[x].reads
                       /\ txn'[x].sent  = txn[x].sent
                       /\ txn'[x].stale <=> (txn[x].stale \/ txn[x].reads \cap {b} # {})
                       /\ txn[x] = Closed => txn'[x] = Closed
  BY <1>1, <1>7, <1>10, AfterWritePoint
<1>12. PhaseInv'  BY <1>1, <1>6, <1>11, Names DEF Inv, PhaseInv
<1>13. SentInv'  BY <1>11, Names DEF Inv, SentInv
<1>14. SavingInv'  BY <1>5 DEF Inv, SavingInv
<1>15. BootInv'
  <2>1. CASE phase = "boot"
    <3>1. db'[b].fetching => db[b].fetching  BY <1>7, <1>8, <1>9 DEF Save, Entry
    <3>2. /\ txn'["orphans"].reads = txn["orphans"].reads
          /\ txn'["orphans"].sent = txn["orphans"].sent
          /\ txn["orphans"].stale => txn'["orphans"].stale
      BY <1>11, Names
    <3>3. b = WorkerBid(w).id /\ raced \subseteq raced'  BY <1>2, <1>4, <1>7
    <3> QED  BY <1>1, <1>5, <1>9, <2>1, <3>1, <3>2, <3>3, BootKept
  <2>2. CASE phase # "boot"  BY <1>1, <2>2 DEF BootInv
  <2> QED  BY <2>1, <2>2
<1>16. ASSUME NEW c \in Bids \ raced', c # b PROVE BidOK(c)'
  <2>1. BidOK(c) /\ c \in Bids \ raced  BY <1>7, <1>16 DEF Inv
  <2>2. /\ TxnOK(c)' /\ (Pending(c)' => Pending(c))
        /\ Pending(c) => Pending(c)' \/ Status(c) = "fetching_data"
    BY <1>7, <1>9, <1>10, <1>16, <2>1, OthersPending
  <2>3. Running(c)' = Running(c)  BY <1>5, <1>16
  <2>4. \A v \in Running(c) : worker'[v] = worker[v]  BY <1>5, <1>16 DEF Running
  <2> QED  BY <1>1, <1>5, <1>9, <1>16, <2>1, <2>2, <2>3, <2>4, JobsKept
<1>17. ASSUME b \notin raced' PROVE BidOK(b)'
  <2>1. BidOK(b) /\ b \notin raced /\ b \notin Raced("none", {b})  BY <1>7, <1>17 DEF Inv
  <2>2. Running(b) = {w} /\ Waiting(b) = {}
    BY <1>1, <1>2, <1>4, <2>1 DEF BidOK, OneJob, Running
  <2>3. Running(b)' = {} /\ Waiting(b)' = {}  BY <1>5, <2>2
  <2>4. r.status = "fetching_data" /\ (s = "queued_data" => r.attempts < FetchAttempts)
    BY <1>1, <1>2, <1>3, <2>1, <2>2 DEF BidOK, JobOK
  <2>5. Status(b) = "fetching_data"  BY <2>1, <2>2, SavedIsFetching DEF HasJob
  <2>6. db[b] \in Entry /\ Status(b)' = s /\ db'[b].bid.attempts = r.attempts
    BY <1>7, <1>9, SaveType DEF Status
  <2>7. IndexOK(b)'
    <3>1. /\ db[b].queued <=> r.status = "queued_data"
          /\ db[b].fetching <=> r.status = "fetching_data"
      BY <2>1, <2>4, <2>5 DEF BidOK, IndexOK
    <3> QED  BY <1>9, <2>6, <3>1, SaveIndex DEF IndexOK
  <2>8. AttemptOK(b)'  BY <1>8, <2>4, <2>6 DEF AttemptOK, Resolved
  <2>9. ASSUME NEW x \in Txns PROVE ~(b \in txn'[x].reads /\ ~txn'[x].stale)
    BY <1>11
  <2>10. TxnOK(b)' /\ ~Pending(b)'  BY <1>13, <2>9 DEF TxnOK, Pending, SentInv
  <2>11. ~HasJob(b)'  BY <2>3 DEF HasJob
  <2>12. OneJob(b)' /\ JobOK(b)'  BY <2>3, <2>11 DEF OneJob, JobOK
  <2>13. KeptOK(b)'  BY <1>8, <2>6, <2>10 DEF KeptOK
  <2>14. ImportOK(b)'
    <3>1. imports[b] \in {0, 1} /\ (imports[b] = 1 => s = "finalized")
      BY <1>3, <1>6, <2>1, <2>2 DEF BidOK, ImportOK
    <3> QED  BY <1>1, <2>3, <2>6, <3>1 DEF ImportOK
  <2> QED  BY <2>7, <2>8, <2>10, <2>12, <2>13, <2>14 DEF BidOK
<1> QED  BY <1>12, <1>13, <1>14, <1>15, <1>16, <1>17 DEF Order

-----------------------------------------------------------------------------
(* The life of the process.                                                  *)

\* Without jobs nothing waits and nobody runs.
LEMMA WithoutJobs == ASSUME NoJobs, NEW c PROVE Waiting(c) = {} /\ Running(c) = {} /\ ~HasJob(c)
  BY DEF NoJobs, Waiting, Running, HasJob

\* While getOrphaned runs, every job is the one its loop variable names.
LEMMA BootJobs ==
  ASSUME Inv, phase = "boot"
  PROVE  /\ \A c : c # cell.id => Waiting(c) = {} /\ Running(c) = {} /\ ~HasJob(c)
         /\ ~NoJobs => cell.id \in txn["orphans"].sent \cup raced
  BY DEF Inv, BootInv, Waiting, Running, HasJob, WorkerBid, Pointee, NoJobs

\* The process ends: whatever the transactions and the workers were doing.
LEMMA OrderStop == ASSUME Inv, Stop PROVE Order'
<1>1. /\ phase' = "down" /\ orphans' = {} /\ jobCh' = <<>>
      /\ \A w \in Workers : worker'[w].pc = "idle"
      /\ \A a \in Txns : txn'[a] = Closed
      /\ UNCHANGED <<db, imports, raced>>
  BY DEF Stop, Reset, Idle
<1>2. NoJobs'  BY <1>1 DEF NoJobs, Busy
<1>3. \A a \in Txns : txn'[a].reads = {} /\ txn'[a].sent = {}  BY <1>1 DEF Closed
<1>4. PhaseInv'  BY <1>1, <1>2, Names DEF PhaseInv
<1>5. SentInv'  BY <1>3, Names DEF SentInv
<1>6. BootInv' /\ SavingInv'  BY <1>1 DEF BootInv, SavingInv
<1>7. ASSUME NEW c \in Bids \ raced' PROVE BidOK(c)'
  <2>1. BidOK(c)  BY <1>1, <1>7 DEF Inv
  <2>2. Status(c)' = Status(c)  BY <1>1 DEF Status
  <2>3. Waiting(c)' = {} /\ Running(c)' = {} /\ ~HasJob(c)'
    <3>1. Waiting(c)' = {}  BY <1>1 DEF Waiting
    <3>2. Running(c)' = {}  BY <1>1 DEF Running, Busy
    <3> QED  BY <3>1, <3>2 DEF HasJob
  <2>4. TxnOK(c)' /\ ~Pending(c)'  BY <1>3 DEF TxnOK, Pending
  <2>5. IndexOK(c)' /\ AttemptOK(c)'
    BY <1>1, <2>1, <2>2 DEF BidOK, IndexOK, AttemptOK, Resolved
  <2>6. OneJob(c)' /\ JobOK(c)'  BY <2>3 DEF OneJob, JobOK
  <2>7. KeptOK(c)' /\ ImportOK(c)'  BY <1>1, <2>1, <2>4 DEF BidOK, KeptOK, ImportOK
  <2> QED  BY <2>4, <2>5, <2>6, <2>7 DEF BidOK
<1> QED  BY <1>4, <1>5, <1>6, <1>7 DEF Order

\* The process starts; nothing is in memory yet but what getOrphaned read.
LEMMA OrderStart == ASSUME Inv, Start PROVE Order'
<1>1. /\ TypeOK /\ phase = "down" /\ NoJobs /\ orphans' = FetchingKeys
      /\ UNCHANGED <<db, jobCh, worker, cell, raced>>
      /\ \A c \in Bids : imports'[c] = 0
      /\ phase' = IF FetchingKeys = {} THEN "running" ELSE "boot"
  BY DEF Start, Inv, PhaseInv
<1>2. NoJobs' /\ FetchingKeys' = FetchingKeys /\ FetchingKeys \subseteq Bids
  BY <1>1, JobsFrame DEF FetchingKeys
<1>3. \A a \in Txns : txn[a] = Closed  BY <1>1, Names DEF Inv, PhaseInv
<1>4. txn' = [txn EXCEPT !["orphans"].reads = FetchingKeys]  BY DEF Start
<1>5. \A a \in Txns : /\ a # "orphans" => txn'[a] = Closed
                      /\ txn'[a].sent = {} /\ ~txn'[a].stale
  <2>1. Closed.sent = {} /\ ~Closed.stale  BY DEF Closed
  <2>2. \A a \in Txns : /\ a # "orphans" => txn'[a] = txn[a]
                        /\ txn'[a].sent = txn[a].sent /\ txn'[a].stale = txn[a].stale
    BY <1>1, <1>4 DEF TypeOK
  <2> QED  BY <1>3, <2>1, <2>2
<1>6. txn'["orphans"].reads = FetchingKeys /\ txn'["orphans"].sent = {}
  BY <1>1, <1>4, <1>5, Names DEF TypeOK
<1>7. PhaseInv'
  <2>1. FetchingKeys = {} => txn'["orphans"] = Closed
    <3>1. FetchingKeys = {} => [Closed EXCEPT !.reads = FetchingKeys] = Closed
      <4>1. Closed \in [reads: SUBSET Bids, sent: SUBSET Bids, stale: BOOLEAN]
        BY DEF Closed
      <4>2. Closed.reads = {}  BY DEF Closed
      <4> HIDE DEF Closed
      <4> QED  BY <4>1, <4>2
    <3>2. txn'["orphans"] = [Closed EXCEPT !.reads = FetchingKeys]
      BY <1>1, <1>3, <1>4, Names DEF TypeOK
    <3> QED  BY <3>1, <3>2
  <2> QED  BY <1>1, <1>2, <1>5, <2>1, Names DEF PhaseInv
<1>8. SentInv'  BY <1>5, Names DEF SentInv, Closed
<1>9. SavingInv'  BY <1>1 DEF Inv, SavingInv
<1>10. ASSUME NEW c \in Bids \ raced
       PROVE  c \in FetchingKeys <=> Status(c)' = "fetching_data"
  BY <1>1, <1>10 DEF Inv, BidOK, IndexOK, FetchingKeys, Status
<1>11. BootInv'
  <2>1. \A b \in FetchingKeys \ raced : Status(b)' = "fetching_data" /\ imports'[b] = 0
    BY <1>1, <1>2, <1>10
  <2>2. DOMAIN jobCh' = {} /\ \A w \in Workers : ~Busy(w)'  BY <1>2 DEF NoJobs
  <2> QED  BY <1>1, <1>2, <1>6, <2>1, <2>2 DEF BootInv
<1>12. ASSUME NEW c \in Bids \ raced' PROVE BidOK(c)'
  <2>1. BidOK(c)  BY <1>1, <1>12 DEF Inv
  <2>2. Status(c)' = Status(c)  BY <1>1 DEF Status
  <2>3. Waiting(c)' = {} /\ Running(c)' = {} /\ ~HasJob(c)'
    <3>1. Waiting(c) = {} /\ Running(c) = {} /\ ~HasJob(c)  BY <1>1, WithoutJobs
    <3> QED  BY <1>1, <3>1, JobsFrame
  <2>4. ~Pending(c)'  BY <1>5 DEF Pending
  <2>5. TxnOK(c)'
    <3>1. ASSUME NEW a \in Txns, c \in txn'[a].reads PROVE Status(c)' = Expected(a)
      <4>1. a = "orphans"  BY <1>5, <3>1 DEF Closed
      <4> QED  BY <1>1, <1>6, <1>10, <1>12, <3>1, <4>1, Names
    <3> QED  BY <3>1 DEF TxnOK, Expected
  <2>6. IndexOK(c)' /\ AttemptOK(c)'
    BY <1>1, <2>1, <2>2 DEF BidOK, IndexOK, AttemptOK, Resolved
  <2>7. OneJob(c)' /\ JobOK(c)'  BY <2>3 DEF OneJob, JobOK
  <2>8. KeptOK(c)'  BY <1>1, <1>10, <1>12, <2>4 DEF KeptOK
  <2>9. ImportOK(c)'  BY <1>1, <1>12 DEF ImportOK
  <2> QED  BY <2>5, <2>6, <2>7, <2>8, <2>9 DEF BidOK
<1> QED  BY <1>7, <1>8, <1>9, <1>11, <1>12 DEF Order

\* One iteration of getOrphaned's loop.
LEMMA OrderOrphanEnqueue == ASSUME Inv, NEW b \in Bids, OrphanEnqueue(b) PROVE Order'
<1> DEFINE O == txn["orphans"]
           f == Enqueued(db[b], db[b].bid, Room)
<1>1. /\ TypeOK /\ phase = "boot" /\ b \in orphans /\ orphans' = orphans \ {b}
      /\ BootInv /\ O \in [reads: SUBSET Bids, sent: SUBSET Bids, stale: BOOLEAN]
      /\ UNCHANGED <<db, worker, phase, imports>>
  BY Names DEF OrphanEnqueue, Oldest, Inv, TypeOK
<1>2. b \in O.reads \ O.sent /\ orphans \subseteq O.reads \ O.sent
  BY <1>1 DEF BootInv
<1>3. /\ cell' = f.bid /\ cell'.id = b
      /\ Room => cell'.status = "fetching_data" /\ cell'.attempts = db[b].bid.attempts
  <2>1. db[b] \in Entry /\ db[b].bid \in BidRecord /\ db[b].bid.id = b /\ Room \in BOOLEAN
    BY <1>1 DEF TypeOK, Entry, Room
  <2>2. /\ f.bid.id = b
        /\ Room => f.bid.status = "fetching_data" /\ f.bid.attempts = db[b].bid.attempts
    BY <2>1, EnqueuedType
  <2>3. cell' = f.bid  BY DEF OrphanEnqueue
  <2> QED  BY <2>2, <2>3
<1>4. jobCh' = IF Room THEN Append(jobCh, [shared |-> TRUE, bid |-> cell']) ELSE jobCh
  BY DEF OrphanEnqueue
<1>5. /\ \A x \in Owners : txn'[x] = Closed
      /\ txn'["orphans"].reads = O.reads /\ txn'["orphans"].stale = O.stale
      /\ txn'["orphans"].sent = IF Room THEN O.sent \cup {b} ELSE O.sent
  <2>1. txn' = [txn EXCEPT !["orphans"].sent = IF Room THEN @ \cup {b} ELSE @]
    BY DEF OrphanEnqueue
  <2>2. \A x \in Owners : txn[x] = Closed  BY <1>1 DEF Inv, PhaseInv
  <2> QED  BY <1>1, <2>1, <2>2, Names DEF TypeOK
<1>6. raced' = raced \cup (IF O.sent = {} THEN {} ELSE O.sent \cup {b})
  BY DEF OrphanEnqueue
<1> HIDE DEF f
<1>7. /\ \A c : c # cell.id => Waiting(c) = {} /\ Running(c) = {} /\ ~HasJob(c)
      /\ ~NoJobs => cell.id \in O.sent \cup raced
      /\ O.sent = {} => NoJobs
  BY <1>1, BootJobs DEF BootInv
<1>8. /\ \A i \in DOMAIN jobCh : jobCh[i].shared
      /\ \A w \in Workers : Busy(w) => worker[w].job.shared
  BY <1>1 DEF BootInv
<1>9. \A i \in DOMAIN jobCh' : jobCh'[i].shared
  <2>1. jobCh \in Seq(Job) /\ cell' \in BidRecord
    <3>1. db[b] \in Entry /\ db[b].bid \in BidRecord /\ Room \in BOOLEAN
      BY <1>1 DEF TypeOK, Entry, Room
    <3> QED  BY <1>1, <1>3, <3>1, EnqueuedType DEF TypeOK, Entry, f
  <2> DEFINE job == [shared |-> TRUE, bid |-> cell']
  <2>2. job \in Job /\ job.shared  BY <2>1 DEF Job
  <2> HIDE DEF job
  <2>3. jobCh' = IF Room THEN Append(jobCh, job) ELSE jobCh  BY <1>4 DEF job
  <2> QED  BY <1>8, <2>1, <2>2, <2>3
<1>10. \A w \in Workers : (Busy(w)' <=> Busy(w)) /\ worker'[w] = worker[w]
  BY <1>1 DEF Busy
<1>11. PhaseInv'  BY <1>1, <1>5 DEF PhaseInv
<1>12. SentInv'
  <2>1. \A x \in Owners : txn'[x].sent = {} /\ txn'[x].reads = {}  BY <1>5 DEF Closed
  <2>2. txn'["orphans"].sent \subseteq txn'["orphans"].reads
    BY <1>2, <1>5, Names DEF Inv, SentInv
  <2> QED  BY <2>1, <2>2, Names DEF SentInv
<1>13. SavingInv'  BY <1>1 DEF Inv, SavingInv
<1>14. BootInv'
  <2>1. orphans' \subseteq txn'["orphans"].reads \ txn'["orphans"].sent
    BY <1>1, <1>2, <1>5
  <2>2. txn'["orphans"].sent = {} => NoJobs'
    <3> SUFFICES ASSUME txn'["orphans"].sent = {} PROVE NoJobs'  OBVIOUS
    <3>1. ~Room /\ O.sent = {}  BY <1>5
    <3>2. NoJobs /\ jobCh' = jobCh  BY <1>4, <1>7, <3>1
    <3> QED  BY <1>10, <3>2 DEF NoJobs
  <2>3. ~NoJobs' => cell'.id \in txn'["orphans"].sent \cup raced' /\ cell'.id \notin orphans'
    <3>1. CASE Room  BY <1>1, <1>3, <1>5, <3>1
    <3>2. CASE ~Room /\ O.sent = {}  BY <1>5, <2>2, <3>2
    <3>3. CASE O.sent # {}  BY <1>1, <1>3, <1>6, <3>3
    <3> QED  BY <3>1, <3>2, <3>3
  <2>4. \A w \in Workers : Busy(w)' => worker'[w].job.shared  BY <1>8, <1>10
  <2>5. FetchingKeys' = FetchingKeys /\ \A c : Status(c)' = Status(c)
    BY <1>1 DEF FetchingKeys, Status
  <2>6. ASSUME NEW c \in txn'["orphans"].reads \ (txn'["orphans"].sent \cup raced')
        PROVE  Status(c)' = "fetching_data" /\ imports'[c] = 0
    <3>1. c \in O.reads \ (O.sent \cup raced)  BY <1>5, <1>6, <2>6
    <3> QED  BY <1>1, <2>5, <3>1 DEF BootInv
  <2> QED  BY <1>1, <1>5, <1>9, <2>1, <2>2, <2>3, <2>4, <2>5, <2>6 DEF BootInv
<1>15. ASSUME NEW c \in Bids \ raced' PROVE BidOK(c)'
  <2>1. BidOK(c) /\ c \notin raced  BY <1>6, <1>15 DEF Inv
  <2>2. TxnOK(c)'
    <3>1. ASSUME NEW x \in Txns, c \in txn'[x].reads, ~txn'[x].stale PROVE Status(c)' = Expected(x)
      <4>1. x = "orphans"  BY <1>5, <3>1, Names DEF Closed
      <4>2. c \in O.reads /\ ~O.stale  BY <1>5, <3>1, <4>1
      <4> QED  BY <1>1, <2>1, <4>1, <4>2, Names DEF BidOK, TxnOK, Status
    <3> QED  BY <3>1 DEF TxnOK, Expected
  <2>3. CASE ~(Room /\ c = b)
    <3>1. Waiting(c) = {} /\ Running(c) = {} /\ ~HasJob(c)
      <4>1. CASE NoJobs  BY <4>1, WithoutJobs
      <4>2. CASE ~NoJobs
        <5>1. cell.id \in O.sent \cup raced /\ O.sent # {}  BY <1>7, <4>2
        <5>2. cell.id \in raced'  BY <1>6, <5>1
        <5> QED  BY <1>7, <1>15, <5>2
      <4> QED  BY <4>1, <4>2
    <3>2. Pending(c)' <=> Pending(c)
      <4>1. \A x \in Owners : txn[x] = Closed  BY <1>1 DEF Inv, PhaseInv
      <4>2. Pending(c)' <=> c \in txn'["orphans"].sent /\ ~txn'["orphans"].stale
        BY <1>5, Names DEF Pending, Closed
      <4>3. Pending(c) <=> c \in O.sent /\ ~O.stale
        BY <4>1, Names DEF Pending, Closed
      <4>4. c \in txn'["orphans"].sent <=> c \in O.sent
        <5>1. CASE Room   BY <1>5, <2>3, <5>1
        <5>2. CASE ~Room  BY <1>5, <5>2
        <5> QED  BY <5>1, <5>2
      <4>5. txn'["orphans"].stale <=> O.stale  BY <1>5, Zenon
      <4> QED  BY <4>2, <4>3, <4>4, <4>5
    <3>3. Waiting(c)' = {} /\ Running(c)' = {}
      <4>1. CASE c = b
        <5>1. ~Room /\ O.sent = {}  BY <1>6, <1>15, <2>3, <4>1
        <5>2. NoJobs /\ jobCh' = jobCh  BY <1>4, <1>7, <5>1
        <5>3. Waiting(c)' = {}  BY <5>2 DEF NoJobs, Waiting
        <5>4. Running(c)' = {}  BY <1>10, <5>2 DEF NoJobs, Running
        <5> QED  BY <5>3, <5>4
      <4>2. CASE c # b
        <5>1. Waiting(c)' = {}  BY <1>3, <1>9, <4>2 DEF Waiting, Pointee
        <5>2. Running(c)' = {}
          BY <1>3, <1>8, <1>10, <4>2 DEF Running, WorkerBid, Pointee
        <5> QED  BY <5>1, <5>2
      <4> QED  BY <4>1, <4>2
    <3> QED  BY <1>1, <1>15, <2>1, <2>2, <3>1, <3>2, <3>3, JobsKept
  <2>4. CASE Room /\ c = b
    <3>1. O.sent = {} /\ NoJobs  BY <1>6, <1>7, <1>15, <2>4
    <3>2. Status(b) = "fetching_data" /\ imports[b] = 0
      BY <1>1, <1>2, <2>1, <2>4 DEF BootInv
    <3>3. Status(b)' = "fetching_data" /\ imports'[b] = 0  BY <1>1, <3>2 DEF Status
    <3>4. DOMAIN jobCh' = {1}
      <4>1. jobCh = <<>> /\ Len(jobCh') = 1 /\ DOMAIN jobCh' = 1..1
        BY <1>4, <2>4, <3>1 DEF NoJobs
      <4> QED  BY <4>1
    <3>5. Waiting(b)' = {1} /\ Pointee(jobCh[1])' = cell'
      BY <1>3, <1>9, <3>4 DEF Waiting, Pointee
    <3>6. Running(b)' = {}  BY <1>10, <3>1 DEF NoJobs, Running
    <3>7. HasJob(b)'  BY <3>5 DEF HasJob
    <3>8. IndexOK(b)' /\ AttemptOK(b)'
      BY <1>1, <2>1, <2>4 DEF BidOK, IndexOK, AttemptOK, Status, Resolved
    <3>9. OneJob(b)'  BY <3>5, <3>6 DEF OneJob
    <3>10. JobOK(b)'
      <4>1. db[b].bid.attempts < FetchAttempts
        BY <2>1, <2>4, <3>2 DEF BidOK, AttemptOK, Resolved
      <4> QED  BY <1>3, <2>4, <3>3, <3>5, <3>6, <4>1 DEF JobOK
    <3>11. KeptOK(b)' /\ ImportOK(b)'  BY <3>3, <3>7 DEF KeptOK, ImportOK
    <3> QED  BY <2>2, <2>4, <3>8, <3>9, <3>10, <3>11 DEF BidOK
  <2> QED  BY <2>3, <2>4
<1> QED  BY <1>11, <1>12, <1>13, <1>14, <1>15 DEF Order

\* getOrphaned commits: the orphans it sent are being fetched, the others are
\* back in the queue.
LEMMA OrderBootCommit == ASSUME Inv, BootCommit PROVE Order'
<1> DEFINE O == txn["orphans"]
<1>1. /\ TypeOK /\ BootInv /\ SentInv /\ phase = "boot" /\ phase' = "running" /\ ~O.stale
      /\ orphans = {}
      /\ UNCHANGED <<jobCh, worker, orphans, cell, imports, raced>>
      /\ O \in [reads: SUBSET Bids, sent: SUBSET Bids, stale: BOOLEAN]
  BY Names DEF BootCommit, Inv, TypeOK
<1>2. \A x \in Txns : txn'[x] = Closed
  <2>1. txn' = AfterWrite("orphans", O.reads)  BY DEF BootCommit
  <2>2. \A x \in Owners : txn[x] = Closed  BY <1>1 DEF Inv, PhaseInv
  <2> QED  BY <1>1, <2>1, <2>2, Names, AfterWritePoint
<1>3. \A x \in Txns : txn'[x].reads = {} /\ txn'[x].sent = {}  BY <1>2 DEF Closed
<1>4. PhaseInv'  BY <1>1, <1>2, Names DEF PhaseInv
<1>5. SentInv'  BY <1>3, Names DEF SentInv
<1>6. BootInv' /\ SavingInv'  BY <1>1 DEF BootInv, SavingInv, Inv
<1>7. ASSUME NEW c \in Bids \ raced' PROVE BidOK(c)'
  <2>1. BidOK(c) /\ c \in Bids \ raced  BY <1>1, <1>7 DEF Inv
  <2>2. /\ Waiting(c)' = Waiting(c) /\ Running(c)' = Running(c)
        /\ HasJob(c)' <=> HasJob(c)
    BY <1>1, JobsFrame
  <2>3. TxnOK(c)' /\ ~Pending(c)'  BY <1>3 DEF TxnOK, Pending
  <2>4. OneJob(c)'  BY <2>1, <2>2 DEF BidOK, OneJob
  <2>5. ASSUME IndexOK(c)', AttemptOK(c)', HasJob(c) => Status(c)' = "fetching_data",
               imports[c] = 1 => Status(c)' \in {"fetching_data", "finalized"},
               Status(c)' = "fetching_data" /\ ~StoreFails /\ phase # "closing" => HasJob(c)
        PROVE  BidOK(c)'
    <3>1. JobOK(c)'  BY <1>1, <2>1, <2>2, <2>5 DEF BidOK, JobOK, WorkerBid, Pointee
    <3>2. KeptOK(c)'  BY <1>1, <2>2, <2>3, <2>5 DEF KeptOK
    <3>3. ImportOK(c)'  BY <1>1, <2>1, <2>2, <2>5 DEF BidOK, ImportOK
    <3> QED  BY <2>3, <2>4, <2>5, <3>1, <3>2, <3>3 DEF BidOK
  <2>6. HasJob(c) => c \in O.sent
    <3>1. c # cell.id => ~HasJob(c)  BY <1>1, BootJobs
    <3>2. ~NoJobs => cell.id \in O.sent \cup raced  BY <1>1, BootJobs
    <3>3. NoJobs => ~HasJob(c)  BY WithoutJobs
    <3> QED  BY <2>1, <3>1, <3>2, <3>3
  <2>7. O.sent \subseteq O.reads  BY <1>1, Names DEF SentInv
  <2>8. Pending(c) <=> c \in O.sent
    <3>1. \A x \in Owners : txn[x].sent = {}  BY <1>1 DEF Inv, PhaseInv, Closed
    <3> QED  BY <1>1, <3>1, Names DEF Pending
  <2>9. CASE c \notin O.reads
    <3>1. db'[c] = db[c]  BY <2>9 DEF BootCommit
    <3>2. Status(c)' = Status(c)  BY <3>1 DEF Status
    <3>3. ~HasJob(c) /\ ~Pending(c)  BY <2>6, <2>7, <2>8, <2>9
    <3>4. Status(c) # "fetching_data"
      <4>1. c \notin FetchingKeys  BY <1>1, <2>9 DEF BootInv
      <4> QED  BY <2>1, <4>1 DEF BidOK, IndexOK, FetchingKeys
    <3>5. IndexOK(c)' /\ AttemptOK(c)'
      BY <2>1, <3>1, <3>2 DEF BidOK, IndexOK, AttemptOK, Resolved
    <3>6. imports[c] = 1 => Status(c)' \in {"fetching_data", "finalized"}
      BY <1>1, <2>1, <3>2, <3>3 DEF BidOK, ImportOK
    <3> QED  BY <2>5, <3>2, <3>3, <3>4, <3>5, <3>6
  <2>10. CASE c \in O.reads
    <3> DEFINE e == Enqueued(db[c], db[c].bid, c \in O.sent)
    <3>1. db'[c] = e  BY <2>1, <2>10 DEF BootCommit
    <3>2. Status(c) = "fetching_data"
      BY <1>1, <2>1, <2>10, Names DEF BidOK, TxnOK
    <3>3. db[c] \in Entry /\ db[c].bid \in BidRecord /\ (c \in O.sent) \in BOOLEAN
      BY <1>1, <2>1 DEF TypeOK, Entry
    <3>4. /\ db[c].queued <=> db[c].bid.status = "queued_data"
          /\ db[c].fetching <=> db[c].bid.status = "fetching_data"
      BY <2>1 DEF BidOK, IndexOK, Status
    <3>5. /\ e.queued <=> c \notin O.sent
          /\ e.fetching <=> c \in O.sent
      BY <3>3, <3>4, EnqueuedIndex
    <3>6. /\ e.bid.status = IF c \in O.sent THEN "fetching_data" ELSE "queued_data"
          /\ e.bid.attempts = db[c].bid.attempts
      BY <3>3, EnqueuedType
    <3> HIDE DEF e
    <3>7. IndexOK(c)'  BY <3>1, <3>5, <3>6 DEF IndexOK, Status
    <3>8. AttemptOK(c)'
      <4>1. db[c].bid.attempts < FetchAttempts  BY <2>1, <3>2 DEF BidOK, AttemptOK, Resolved
      <4> QED  BY <3>1, <3>6, <4>1 DEF AttemptOK
    <3>9. CASE c \in O.sent
      <4>1. Status(c)' = "fetching_data"  BY <3>1, <3>6, <3>9 DEF Status
      <4>2. ~StoreFails => HasJob(c)  BY <1>1, <2>1, <2>8, <3>9 DEF BidOK, KeptOK
      <4> QED  BY <2>5, <3>7, <3>8, <4>1, <4>2
    <3>10. CASE c \notin O.sent
      <4>1. Status(c)' = "queued_data"  BY <3>1, <3>6, <3>10 DEF Status
      <4>2. imports[c] = 0  BY <1>1, <2>1, <2>10, <3>10 DEF BootInv
      <4> QED  BY <2>5, <2>6, <3>7, <3>8, <3>10, <4>1, <4>2
    <3> QED  BY <3>9, <3>10
  <2> QED  BY <2>9, <2>10
<1> QED  BY <1>4, <1>5, <1>6, <1>7 DEF Order

-----------------------------------------------------------------------------
(* The theorems.                                                             *)

LEMMA OrderInit == ASSUME Init PROVE Order
<1>1. NoJobs  BY DEF Init, NoJobs, Busy, Idle
<1>2. \A a \in Txns : txn[a] = Closed /\ txn[a].reads = {} /\ txn[a].sent = {}
  BY DEF Init, Closed
<1>3. PhaseInv  BY <1>1, <1>2, Names DEF PhaseInv, Init
<1>4. SentInv  BY <1>2, Names DEF SentInv
<1>5. BootInv  BY DEF BootInv, Init
<1>6. SavingInv  BY DEF SavingInv, Init, Idle
<1>7. ASSUME NEW b \in Bids PROVE BidOK(b)
  <2>1. /\ db[b] = [bid |-> Fresh(b), queued |-> FALSE, fetching |-> FALSE]
        /\ imports[b] = 0 /\ phase = "down"
    BY DEF Init
  <2>2. Status(b) = "unspecified" /\ db[b].bid.attempts = 0 /\ ~db[b].queued /\ ~db[b].fetching
    BY <2>1 DEF Status, Fresh
  <2>3. Waiting(b) = {} /\ Running(b) = {} /\ ~HasJob(b)  BY <1>1, WithoutJobs
  <2>4. TxnOK(b) /\ ~Pending(b)  BY <1>2 DEF TxnOK, Pending
  <2>5. IndexOK(b) /\ AttemptOK(b)  BY <2>2, LimitsAssumption DEF IndexOK, AttemptOK
  <2>6. OneJob(b) /\ JobOK(b)  BY <2>3 DEF OneJob, JobOK
  <2>7. KeptOK(b) /\ ImportOK(b)  BY <2>1, <2>4 DEF KeptOK, ImportOK
  <2> QED  BY <2>4, <2>5, <2>6, <2>7 DEF BidOK
<1> QED  BY <1>3, <1>4, <1>5, <1>6, <1>7 DEF Order

LEMMA OrderNext == ASSUME Inv, [Next]_vars PROVE Order'
<1>1. ASSUME Messages PROVE Order'
  <2>1. ASSUME NEW b \in Bids, NEW h \in Handlers, SetProposalCid(h, b) PROVE Order'
    <3>1. Up /\ ~Open(h) /\ Status(b) = "awaiting_proposal" /\ OpenAndSend(h, b)
          /\ UNCHANGED <<db, worker, orphans, cell, phase, imports>>
      BY <2>1 DEF SetProposalCid, Up
    <3> QED  BY <3>1, Names, OrderOpenAndSend DEF Owners
  <2> QED  BY <1>1, <2>1, OrderMessages DEF Messages
<1>2. ASSUME Transactions PROVE Order'
  BY <1>2, OrderCommit, OrderAbort DEF Transactions, Owners
<1>3. ASSUME Dispatch PROVE Order'
  <2>1. ASSUME NextEnqueues PROVE Order'
    <3>1. PICK b \in QueuedKeys : Status(b) \notin Absent /\ OpenAndSend("next", b)
      BY <2>1 DEF NextEnqueues
    <3>2. b \in Bids  BY DEF QueuedKeys
    <3>3. Up /\ ~Open("next") /\ UNCHANGED <<db, worker, orphans, cell, phase, imports>>
      BY <2>1 DEF NextEnqueues
    <3>4. b \notin raced => Status(b) = "queued_data"
      BY <3>2 DEF Inv, BidOK, IndexOK, QueuedKeys
    <3> QED  BY <3>1, <3>2, <3>3, <3>4, Names, OrderOpenAndSend DEF Owners
  <2> QED  BY <1>3, <2>1, OrderIdle DEF Dispatch
<1>4. ASSUME NEW w \in Workers, Fetch(w) PROVE Order'
  BY <1>4, OrderTakeJob, OrderDropJob, OrderWork, OrderSaveOutcome, OrderSaveOutcomeFails DEF Fetch
<1>5. CASE Collect  BY <1>5, OrderIdle, OrderGCDelete DEF Collect
<1>6. CASE Boot
  BY <1>6, OrderStart, OrderOrphanEnqueue, OrderBootCommit, OrderStop DEF Boot, BootFails
<1>7. CASE Close \/ UNCHANGED vars  BY <1>7, OrderIdle
<1>8. CASE Exit \/ Crash  BY <1>8, OrderStop DEF Exit, Crash
<1> QED  BY <1>1, <1>2, <1>3, <1>4, <1>5, <1>6, <1>7, <1>8 DEF Next

LEMMA InvInit == ASSUME Init PROVE Inv
  BY TypeInit, OrderInit DEF Inv, Order

LEMMA InvNext == ASSUME Inv, [Next]_vars PROVE Inv'
<1>1. TypeOK'  BY TypeNext DEF Inv
<1>2. Order'   BY OrderNext
<1> QED  BY <1>1, <1>2 DEF Inv, Order

\* Inv holds in every reachable state: what the datastore, the channel, the
\* workers and the open transactions say of a bid always agrees, unless one of
\* the races counted in raced has hit it.
THEOREM InductiveInvariant == Spec => []Inv
  BY InvInit, InvNext, PTL DEF Spec

-----------------------------------------------------------------------------
(* What the invariant says.                                                  *)

\* saveAndTransitionStatus keeps the two indexes in step with the stored
\* statuses, although it finds the keys to delete in the caller's copy.
THEOREM IndexIsExact == Spec => []IndexExact
<1>1. Inv => IndexExact  BY DEF Inv, BidOK, IndexExact
<1> QED  BY <1>1, InductiveInvariant, PTL

\* enqueueDataURI never hands the same download to the workers twice.
THEOREM OneJobEach == Spec => []OneJobPerBid
<1>1. Inv => OneJobPerBid  BY DEF Inv, BidOK, OneJobPerBid
<1> QED  BY <1>1, InductiveInvariant, PTL

\* While the store runs on a datastore that works, a bid stored as being
\* fetched is with a worker or on its way to one, whatever crashes, conflicts
\* and retries came before.
THEOREM NoJobIsLost == Spec => []NoLostJob
<1>1. Inv => NoLostJob  BY DEF Inv, BidOK, KeptOK, NoLostJob
<1> QED  BY <1>1, InductiveInvariant, PTL

\* Between two starts fetchOne calls ImportData with success at most once for
\* a bid.
THEOREM ImportsOnce == Spec => []ImportedOnce
<1>1. Inv => ImportedOnce  BY DEF Inv, BidOK, ImportOK, ImportedOnce
<1> QED  BY <1>1, InductiveInvariant, PTL

\* fail never queues a bid without attempts left, and no worker starts more
\* attempts than dealDataFetchAttempts.
THEOREM RetriesAreBounded == Spec => []RetriesBounded
<1>1. ASSUME Inv PROVE RetriesBounded
  <2> SUFFICES ASSUME NEW b \in Bids \ raced
               PROVE  /\ Status(b) = "queued_data" => db[b].bid.attempts < FetchAttempts
                      /\ \A w \in Running(b) : WorkerBid(w).attempts \in 1..FetchAttempts
    BY DEF RetriesBounded
  <2>1. BidOK(b)  BY <1>1 DEF Inv
  <2> QED  BY <2>1 DEF BidOK, AttemptOK, JobOK, Resolved
<1> QED  BY <1>1, InductiveInvariant, PTL

-----------------------------------------------------------------------------
(* The stored status of a bid moves along its life cycle.                    *)

\* A step of b's status that the life cycle allows, or none at all.
Progress(b) ==
  b \notin raced' /\ Status(b)' # Status(b) => <<Status(b), Status(b)'>> \in LifeCycle

\* The messages check the status they find.
LEMMA ProgressMessages ==
  ASSUME Inv, NEW b \in Bids, SaveBid(b) \/ SetAwaitingProposalCid(b) \/ SetDealUID(b),
         NEW c \in Bids
  PROVE  Progress(c)
<1>1. db \in [Bids -> Entry] /\ \A x \in Bids : db[x].bid.id = x  BY DEF Inv, TypeOK
<1>2. CASE SaveBid(b)
  <2>1. Fresh(b) \in BidRecord /\ "submitted" \in Statuses  BY FreshType DEF Statuses
  <2>2. Status(b)' = "submitted" /\ (c # b => Status(c)' = Status(c))
    BY <1>1, <1>2, <2>1, SaveType DEF SaveBid, Write, Status
  <2> QED  BY <1>2, <2>2 DEF SaveBid, Progress, LifeCycle
<1>3. CASE SetAwaitingProposalCid(b)
  <2>1. db[b].bid \in BidRecord /\ "awaiting_proposal" \in Statuses
    BY <1>1 DEF Entry, Statuses
  <2>2. Status(b)' = "awaiting_proposal" /\ (c # b => Status(c)' = Status(c))
    BY <1>1, <1>3, <2>1, SaveType DEF SetAwaitingProposalCid, Write, Status
  <2> QED  BY <1>3, <2>2 DEF SetAwaitingProposalCid, Progress, LifeCycle
<1>4. CASE SetDealUID(b)
  <2> DEFINE r == [db[b].bid EXCEPT !.deal = "uid"]
  <2>1. r \in BidRecord /\ "finalized" \in Statuses
    BY <1>1 DEF Entry, BidRecord, Statuses
  <2>2. Write(b, Save(db[b], r, "finalized"))  BY <1>4 DEF SetDealUID
  <2> HIDE DEF r
  <2>3. Status(b)' = "finalized" /\ (c # b => Status(c)' = Status(c))
    BY <1>1, <2>1, <2>2, SaveType DEF Write, Status
  <2> QED  BY <1>4, <2>3 DEF SetDealUID, Progress, LifeCycle
<1> QED  BY <1>2, <1>3, <1>4

\* A transaction that commits finds what it has read.
LEMMA ProgressCommit ==
  ASSUME Inv, NEW a \in Owners, Commit(a), NEW c \in Bids PROVE Progress(c)
<1>1. CASE c \notin txn[a].reads  BY <1>1 DEF Commit, Status, Progress
<1>2. CASE c \in txn[a].reads
  <2> DEFINE e == Enqueued(db[c], Loaded(a, c), c \in txn[a].sent)
  <2>1. TypeOK /\ a \in Txns  BY Names DEF Inv
  <2>2. Loaded(a, c) \in BidRecord /\ db[c] \in Entry /\ (c \in txn[a].sent) \in BOOLEAN
    BY <2>1, LoadedType DEF TypeOK
  <2>3. e.bid.status \in {"fetching_data", "queued_data"}  BY <2>2, EnqueuedType
  <2>4. db'[c] = e  BY <1>2 DEF Commit
  <2> HIDE DEF e
  <2>5. Status(c)' \in {"fetching_data", "queued_data"}  BY <2>3, <2>4 DEF Status
  <2>6. ASSUME c \notin raced' PROVE Status(c) \in {"awaiting_proposal", "queued_data"}
    <3>1. BidOK(c)  BY <2>6 DEF Inv, Commit
    <3>2. Status(c) = Expected(a)  BY <1>2, <2>1, <3>1 DEF BidOK, TxnOK, Commit
    <3> QED  BY <3>2, Names DEF Owners
  <2> QED  BY <2>5, <2>6 DEF Progress, LifeCycle
<1> QED  BY <1>1, <1>2

\* GC removes a bid that still awaits its proposal; any other is raced.
LEMMA ProgressGC == ASSUME Inv, NEW b \in Bids, GCDelete(b), NEW c \in Bids PROVE Progress(c)
<1> DEFINE r == [Fresh(b) EXCEPT !.status = "removed"]
<1>1. db \in [Bids -> Entry]  BY DEF Inv, TypeOK
<1>2. r.status = "removed" /\ db' = [db EXCEPT ![b].bid = r]  BY DEF GCDelete, Fresh
<1>3. b \notin raced' => Status(b) = "awaiting_proposal"  BY DEF GCDelete
<1> HIDE DEF r
<1>4. Status(b)' = "removed" /\ (c # b => Status(c)' = Status(c))
  BY <1>1, <1>2 DEF Status, Entry
<1> QED  BY <1>3, <1>4 DEF Progress, LifeCycle

\* A worker saves over fetching_data, which it does not check.
LEMMA ProgressSaveOutcome ==
  ASSUME Inv, NEW w \in Workers, SaveOutcome(w), NEW c \in Bids PROVE Progress(c)
<1>1. TypeOK /\ Busy(w) /\ worker[w].pc = "saving"  BY DEF SaveOutcome, Inv, Busy
<1>2. PICK r \in BidRecord : r = WorkerBid(w)
  BY <1>1, PointeeType DEF TypeOK, WorkerBid
<1>3. PICK s \in Statuses : s = worker[w].status  BY <1>1 DEF TypeOK
<1>4. PICK b \in Bids : b = r.id  BY <1>2 DEF BidRecord
<1>5. s \in {"finalized", "errored", "queued_data"}  BY <1>1, <1>3 DEF Inv, SavingInv
<1>6. /\ db' = [db EXCEPT ![b] = Save(db[b], r, s)] /\ db \in [Bids -> Entry]
      /\ raced' = raced \cup Raced("none", {b})
  BY <1>1, <1>2, <1>3, <1>4 DEF SaveOutcome, Write, TypeOK
<1>7. Status(b)' = s /\ (c # b => Status(c)' = Status(c))  BY <1>6, SaveType DEF Status
<1>8. ASSUME b \notin raced' PROVE Status(b) = "fetching_data"
  <2>1. HasJob(b)  BY <1>1, <1>2, <1>4 DEF HasJob, Running
  <2> QED  BY <1>6, <1>8, <2>1, SavedIsFetching
<1> QED  BY <1>5, <1>7, <1>8 DEF Progress, LifeCycle

\* getOrphaned commits over fetching_data.
LEMMA ProgressBootCommit == ASSUME Inv, BootCommit, NEW c \in Bids PROVE Progress(c)
<1>1. CASE c \notin txn["orphans"].reads  BY <1>1 DEF BootCommit, Status, Progress
<1>2. CASE c \in txn["orphans"].reads
  <2> DEFINE e == Enqueued(db[c], db[c].bid, c \in txn["orphans"].sent)
  <2>1. TypeOK /\ "orphans" \in Txns  BY Names DEF Inv
  <2>2. /\ db[c].bid \in BidRecord /\ db[c] \in Entry
        /\ (c \in txn["orphans"].sent) \in BOOLEAN
    BY <2>1 DEF TypeOK, Entry
  <2>3. e.bid.status \in {"fetching_data", "queued_data"}  BY <2>2, EnqueuedType
  <2>4. db'[c] = e  BY <1>2 DEF BootCommit
  <2> HIDE DEF e
  <2>5. Status(c)' \in {"fetching_data", "queued_data"}  BY <2>3, <2>4 DEF Status
  <2>6. ASSUME c \notin raced' PROVE Status(c) = "fetching_data"
    <3>1. BidOK(c)  BY <2>6 DEF Inv, BootCommit
    <3> QED  BY <1>2, <2>1, <3>1, Names DEF BidOK, TxnOK, BootCommit
  <2> QED  BY <2>5, <2>6 DEF Progress, LifeCycle
<1> QED  BY <1>1, <1>2

LEMMA ProgressNext == ASSUME Inv, Next, NEW c \in Bids PROVE Progress(c)
<1>1. CASE Messages
  BY <1>1, ProgressMessages DEF Messages, SetProposalCid, Progress, Status
<1>2. CASE Transactions
  BY <1>2, ProgressCommit DEF Transactions, Owners, Abort, Progress, Status
<1>3. CASE Dispatch
  BY <1>3 DEF Dispatch, NextFindsNothing, NextEnqueues, Progress, Status
<1>4. ASSUME NEW w \in Workers, Fetch(w) PROVE Progress(c)
  BY <1>4, ProgressSaveOutcome
  DEF Fetch, TakeJob, DropJob, FetchExpired, FetchFails, FetchDone, ImportBegin,
      ImportFails, ImportDone, SaveOutcomeFails, Progress, Status
<1>5. CASE Collect  BY <1>5, ProgressGC DEF Collect, GCList, Progress, Status
<1>6. CASE Boot
  BY <1>6, ProgressBootCommit
  DEF Boot, Start, OrphanEnqueue, BootFails, Stop, Progress, Status
<1>7. CASE Close \/ Exit \/ Crash
  BY <1>7 DEF Close, Exit, Crash, Stop, Progress, Status
<1> QED  BY <1>1, <1>2, <1>3, <1>4, <1>5, <1>6, <1>7 DEF Next

\* The stored status of a bid moves only along the documented life cycle,
\* whoever writes it and in whatever order.
THEOREM StatusProgresses == Spec => StatusProgression
<1>1. Inv /\ [Next]_vars =>
        [\A b \in Bids : b \notin raced' /\ Status(b)' # Status(b) =>
           <<Status(b), Status(b)'>> \in LifeCycle]_vars
  BY ProgressNext DEF Progress
<1> QED  BY <1>1, InductiveInvariant, PTL DEF Spec, StatusProgression

-----------------------------------------------------------------------------
(* What the service built on the store may rely on.                          *)

\* Nothing is ever taken out of raced.
LEMMA RacedGrows == ASSUME Next PROVE raced \subseteq raced'
<1>1. ASSUME NEW w \in Workers, Fetch(w) PROVE raced \subseteq raced'
  BY <1>1 DEF Fetch, TakeJob, DropJob, FetchExpired, FetchFails, FetchDone, ImportBegin, ImportFails,
              ImportDone, SaveOutcome, SaveOutcomeFails, Write
<1>2. CASE Messages
  BY <1>2 DEF Messages, SaveBid, SetAwaitingProposalCid, SetDealUID, SetProposalCid,
              OpenAndSend, Write
<1>3. CASE Transactions \/ Dispatch
  BY <1>3 DEF Transactions, Commit, Abort, Dispatch, NextFindsNothing, NextEnqueues, OpenAndSend
<1>4. CASE Collect  BY <1>4 DEF Collect, GCList, GCDelete
<1>5. CASE Boot  BY <1>5 DEF Boot, Start, OrphanEnqueue, BootCommit, BootFails, Stop
<1>6. CASE Close \/ Exit \/ Crash  BY <1>6 DEF Close, Exit, Crash, Stop
<1> QED  BY <1>1, <1>2, <1>3, <1>4, <1>5, <1>6 DEF Next

\* The outcomes workers are about to save for b.
Outcomes(b) == {worker[w].status : w \in {v \in Running(b) : worker[v].pc = "saving"}}

ToDownload(b) == Status(b) \in {"queued_data", "fetching_data"}
Imported(b)   == "finalized" \in Outcomes(b) \/ (Status(b) = "finalized" /\ db[b].bid.deal = "pcid")
GivenUp(b)    == "errored" \in Outcomes(b) \/ Status(b) = "errored"
Ended(b)      == \/ Outcomes(b) \cap {"finalized", "errored"} # {}
                 \/ Status(b) \in {"finalized", "errored", "removed"}

\* A step in which no download of b comes to its end, nor back from there.
Quiet(b) ==
  /\ Imported(b)' => Imported(b)
  /\ GivenUp(b)' => GivenUp(b)
  /\ Ended(b) => Ended(b)'

\* A step in which none begins either.
Steady(b) == Quiet(b) /\ (ToDownload(b)' => ToDownload(b))

LEMMA SteadyKept ==
  ASSUME NEW b, db'[b] = db[b], Outcomes(b)' = Outcomes(b) PROVE Steady(b)
  BY DEF Quiet, Steady, ToDownload, Imported, GivenUp, Ended, Status

\* The workers are at something else.
LEMMA OutcomesKept ==
  ASSUME UNCHANGED <<worker, cell>>, NEW b PROVE Outcomes(b)' = Outcomes(b)
  BY DEF Outcomes, Running, Busy, WorkerBid, Pointee

\* A bid that has a job is on its way to being downloaded, or a handler is
\* about to commit that it is.
LEMMA JobStatus ==
  ASSUME Inv, NEW b \in Bids \ raced, HasJob(b)
  PROVE  /\ Status(b) \in {"awaiting_proposal", "queued_data", "fetching_data"}
         /\ ToDownload(b) \/ \E h \in Handlers : b \in txn[h].reads
<1>1. BidOK(b) /\ SentInv  BY DEF Inv
<1>2. CASE Pending(b)
  <2>1. PICK a \in Txns : b \in txn[a].reads /\ ~txn[a].stale  BY <1>1, <1>2 DEF Pending, SentInv
  <2>2. Status(b) = Expected(a)  BY <1>1, <2>1 DEF BidOK, TxnOK
  <2> QED  BY <2>1, <2>2, Names DEF Owners, ToDownload
<1> QED  BY <1>1, <1>2 DEF BidOK, JobOK, ToDownload

LEMMA OutcomesRunning == ASSUME NEW b, Outcomes(b) # {} PROVE Running(b) # {}
  BY DEF Outcomes

\* Two workers are not concerned with the same bid.
LEMMA OneWorker ==
  ASSUME Inv, NEW v \in Workers, NEW w \in Workers, Busy(v), Busy(w),
         WorkerBid(v).id = WorkerBid(w).id, WorkerBid(w).id \notin raced
  PROVE  v = w
<1>1. PICK b \in Bids : b = WorkerBid(w).id
  BY PointeeType DEF Inv, TypeOK, WorkerBid, BidRecord
<1>2. v \in Running(b) /\ w \in Running(b) /\ OneJob(b)  BY <1>1 DEF Running, Inv, BidOK
<1> QED  BY <1>2 DEF OneJob

\* A worker that is at something is left at it by everybody else, short of the
\* end of the process.
LEMMA WorkerElsewhere ==
  ASSUME Inv, NEW w \in Workers,
         \/ Messages \/ Transactions \/ Dispatch \/ Collect
         \/ Start \/ (\E b \in Bids : OrphanEnqueue(b)) \/ BootCommit \/ Close
         \/ \E v \in Workers \ {w} : Fetch(v)
  PROVE  worker'[w] = worker[w]
<1>1. worker \in [Workers -> [pc: PCs, job: Job, status: Statuses]]  BY DEF Inv, TypeOK
<1>2. ASSUME NEW v \in Workers \ {w}, Fetch(v) PROVE worker'[w] = worker[w]
  BY <1>1, <1>2 DEF Fetch, TakeJob, DropJob, FetchExpired, FetchFails, FetchDone, ImportBegin,
                    ImportFails, ImportDone, SaveOutcome, SaveOutcomeFails, Fail, Release
<1> QED
  BY <1>2 DEF Messages, SaveBid, SetAwaitingProposalCid, SetDealUID, SetProposalCid, Transactions,
      Commit, Abort, Dispatch, NextFindsNothing, NextEnqueues, Collect, GCList, GCDelete, Start,
      OrphanEnqueue, BootCommit, Close

\* A worker stays with its bid, unless another orphan takes the place of it.
LEMMA TargetKept ==
  ASSUME Inv, NEW w \in Workers, Busy(w), worker'[w].job = worker[w].job,
         \/ Messages \/ Transactions \/ Dispatch \/ Collect
         \/ Start \/ (\E b \in Bids : OrphanEnqueue(b)) \/ BootCommit \/ Close
         \/ \E v \in Workers : Fetch(v)
  PROVE  WorkerBid(w)'.id = WorkerBid(w).id \/ {WorkerBid(w)'.id, WorkerBid(w).id} \subseteq raced'
<1>1. TypeOK /\ cell \in BidRecord  BY DEF Inv, TypeOK
<1>2. CASE cell'.id = cell.id  BY <1>2 DEF WorkerBid, Pointee
<1>3. ASSUME NEW v \in Workers, Fetch(v) PROVE cell'.id = cell.id
  BY <1>1, <1>3 DEF Fetch, TakeJob, DropJob, FetchExpired, FetchFails, FetchDone, ImportBegin,
                    ImportFails, ImportDone, SaveOutcome, SaveOutcomeFails, BidRecord
<1>4. ASSUME NEW b \in Bids, OrphanEnqueue(b)
      PROVE  WorkerBid(w)'.id = WorkerBid(w).id
             \/ {WorkerBid(w)'.id, WorkerBid(w).id} \subseteq raced'
  <2>1. CASE ~worker[w].job.shared  BY <2>1 DEF WorkerBid, Pointee
  <2>2. CASE worker[w].job.shared
    <3>1. phase = "boot" /\ ~NoJobs  BY <1>4 DEF OrphanEnqueue, NoJobs
    <3>2. txn["orphans"].sent # {} /\ cell.id \in txn["orphans"].sent \cup raced
      BY <3>1 DEF Inv, BootInv
    <3>3. raced' = raced \cup txn["orphans"].sent \cup {b}  BY <1>4, <3>2 DEF OrphanEnqueue
    <3>4. cell'.id = b
      <4>1. db[b] \in Entry /\ db[b].bid \in BidRecord /\ db[b].bid.id = b /\ Room \in BOOLEAN
        BY <1>1 DEF TypeOK, Entry, Room
      <4>2. cell' = Enqueued(db[b], db[b].bid, Room).bid  BY <1>4 DEF OrphanEnqueue
      <4> QED  BY <4>1, <4>2, EnqueuedType
    <3> QED  BY <2>2, <3>2, <3>3, <3>4 DEF WorkerBid, Pointee
  <2> QED  BY <2>1, <2>2
<1>5. \/ cell' = cell \/ (\E b \in Bids : OrphanEnqueue(b)) \/ \E v \in Workers : Fetch(v)
  BY DEF Messages, SaveBid, SetAwaitingProposalCid, SetDealUID, SetProposalCid, Transactions,
      Commit, Abort, Dispatch, NextFindsNothing, NextEnqueues, Collect, GCList, GCDelete, Start,
      BootCommit, Close
<1> QED  BY <1>2, <1>3, <1>4, <1>5

\* A message about one bid.
LEMMA SteadyMessages ==
  ASSUME Inv, NEW b \in Bids, SaveBid(b) \/ SetAwaitingProposalCid(b) \/ SetDealUID(b),
         NEW c \in Bids, c \notin raced'
  PROVE  Steady(c)
<1>1. db \in [Bids -> Entry] /\ \A x \in Bids : db[x].bid.id = x /\ db[x].bid \in BidRecord
  BY DEF Inv, TypeOK, Entry
<1>2. Outcomes(c)' = Outcomes(c)
  BY OutcomesKept DEF SaveBid, SetAwaitingProposalCid, SetDealUID
<1>3. c \notin raced  BY DEF SaveBid, SetAwaitingProposalCid, SetDealUID, Write
<1>4. CASE c # b
  <2>1. db'[c] = db[c]
    BY <1>1, <1>4 DEF SaveBid, SetAwaitingProposalCid, SetDealUID, Write
  <2> QED  BY <1>2, <2>1, SteadyKept
<1>5. CASE SaveBid(c)
  <2>1. Fresh(c) \in BidRecord /\ "submitted" \in Statuses  BY FreshType DEF Statuses
  <2>2. Status(c)' = "submitted" /\ Status(c) = "unspecified"
    BY <1>1, <1>5, <2>1, SaveType DEF SaveBid, Write, Status
  <2>3. Outcomes(c) = {}  BY <1>3, <2>2, JobStatus, OutcomesRunning DEF HasJob
  <2> QED  BY <1>2, <2>2, <2>3 DEF Quiet, Steady, ToDownload, Imported, GivenUp, Ended
<1>6. CASE SetAwaitingProposalCid(c)
  <2>1. "awaiting_proposal" \in Statuses  BY DEF Statuses
  <2>2. Status(c)' = "awaiting_proposal" /\ Status(c) = "submitted"
    BY <1>1, <1>6, <2>1, SaveType DEF SetAwaitingProposalCid, Write, Status
  <2> QED  BY <1>2, <2>2 DEF Quiet, Steady, ToDownload, Imported, GivenUp, Ended
<1>7. CASE SetDealUID(c)
  <2> DEFINE r == [db[c].bid EXCEPT !.deal = "uid"]
  <2>1. r \in BidRecord /\ r.deal = "uid" /\ "finalized" \in Statuses
    BY <1>1 DEF BidRecord, Statuses
  <2>2. Write(c, Save(db[c], r, "finalized"))  BY <1>7 DEF SetDealUID
  <2> HIDE DEF r
  <2>3. db'[c] = Save(db[c], r, "finalized") /\ db[c] \in Entry  BY <1>1, <2>2 DEF Write
  <2>4. Save(db[c], r, "finalized").bid = [r EXCEPT !.status = "finalized"]  BY DEF Save
  <2>5. [r EXCEPT !.status = "finalized"].deal = "uid"
        /\ [r EXCEPT !.status = "finalized"].status = "finalized"
    BY <2>1 DEF BidRecord
  <2>6. Status(c)' = "finalized" /\ db'[c].bid.deal = "uid"
    BY <2>3, <2>4, <2>5 DEF Status
  <2> QED  BY <1>2, <2>6 DEF Quiet, Steady, ToDownload, Imported, GivenUp, Ended
<1> QED  BY <1>4, <1>5, <1>6, <1>7

\* A commit that writes c over the status it has read.
LEMMA SteadyEnqueued ==
  ASSUME Inv, NEW c \in Bids \ raced, Outcomes(c)' = Outcomes(c),
         NEW r \in BidRecord, NEW room \in BOOLEAN, db'[c] = Enqueued(db[c], r, room),
         Status(c) \in {"awaiting_proposal", "queued_data", "fetching_data"}
  PROVE  Quiet(c) /\ (Status(c) # "awaiting_proposal" => Steady(c))
<1>1. db[c] \in Entry  BY DEF Inv, TypeOK
<1>2. Enqueued(db[c], r, room).bid.status \in {"queued_data", "fetching_data"}
  BY <1>1, EnqueuedType
<1>3. Status(c)' \in {"queued_data", "fetching_data"}  BY <1>2 DEF Status
<1> QED  BY <1>3 DEF Quiet, Steady, ToDownload, Imported, GivenUp, Ended
\* getNext commits over queued_data, SetProposalCid over awaiting_proposal.
LEMMA SteadyCommit ==
  ASSUME Inv, NEW a \in Owners, Commit(a), NEW c \in Bids, c \notin raced'
  PROVE  Quiet(c) /\ (a = "next" \/ c \notin txn[a].reads => Steady(c))
<1>1. TypeOK /\ a \in Txns /\ c \notin raced  BY Names DEF Inv, Commit
<1>2. Outcomes(c)' = Outcomes(c)  BY OutcomesKept DEF Commit
<1>3. CASE c \notin txn[a].reads
  <2>1. db'[c] = db[c]  BY <1>3 DEF Commit
  <2> QED  BY <1>2, <2>1, SteadyKept DEF Steady
<1>4. CASE c \in txn[a].reads
  <2>1. Loaded(a, c) \in BidRecord /\ (c \in txn[a].sent) \in BOOLEAN
    BY <1>1, LoadedType DEF TypeOK
  <2>2. db'[c] = Enqueued(db[c], Loaded(a, c), c \in txn[a].sent)  BY <1>4 DEF Commit
  <2>3. BidOK(c) /\ ~txn[a].stale  BY <1>1 DEF Inv, Commit
  <2>4. Status(c) = Expected(a)  BY <1>1, <1>4, <2>3 DEF BidOK, TxnOK
  <2>5. Expected(a) \in {"awaiting_proposal", "queued_data"}  BY Names DEF Owners
  <2>6. PICK r \in BidRecord : r = Loaded(a, c)  BY <2>1
  <2>7. PICK room \in BOOLEAN : room = (c \in txn[a].sent)  BY <2>1
  <2>8. db'[c] = Enqueued(db[c], r, room)  BY <2>2, <2>6, <2>7
  <2>9. Quiet(c) /\ (Status(c) # "awaiting_proposal" => Steady(c))
    BY <1>1, <1>2, <2>4, <2>5, <2>8, SteadyEnqueued
  <2> QED  BY <1>4, <2>4, <2>9, Names
<1> QED  BY <1>3, <1>4

\* getOrphaned commits over fetching_data.
LEMMA SteadyBootCommit ==
  ASSUME Inv, BootCommit, NEW c \in Bids, c \notin raced' PROVE Steady(c)
<1>1. TypeOK /\ "orphans" \in Txns /\ c \notin raced  BY Names DEF Inv, BootCommit
<1>2. Outcomes(c)' = Outcomes(c)  BY OutcomesKept DEF BootCommit
<1>3. CASE c \notin txn["orphans"].reads
  <2>1. db'[c] = db[c]  BY <1>3 DEF BootCommit
  <2> QED  BY <1>2, <2>1, SteadyKept
<1>4. CASE c \in txn["orphans"].reads
  <2>1. db[c].bid \in BidRecord /\ (c \in txn["orphans"].sent) \in BOOLEAN
    BY <1>1 DEF TypeOK, Entry
  <2>2. db'[c] = Enqueued(db[c], db[c].bid, c \in txn["orphans"].sent)  BY <1>4 DEF BootCommit
  <2>3. BidOK(c) /\ ~txn["orphans"].stale  BY <1>1 DEF Inv, BootCommit
  <2>4. Status(c) = "fetching_data"  BY <1>1, <1>4, <2>3, Names DEF BidOK, TxnOK
  <2>5. PICK room \in BOOLEAN : room = (c \in txn["orphans"].sent)  BY <2>1
  <2>6. db'[c] = Enqueued(db[c], db[c].bid, room)  BY <2>2, <2>5
  <2> QED  BY <1>1, <1>2, <2>1, <2>4, <2>6, SteadyEnqueued
<1> QED  BY <1>3, <1>4

\* GC removes bids that await their proposal; any other is raced.
LEMMA SteadyGC ==
  ASSUME Inv, NEW b \in Bids, GCDelete(b), NEW c \in Bids, c \notin raced' PROVE Steady(c)
<1> DEFINE r == [Fresh(b) EXCEPT !.status = "removed"]
<1>1. db \in [Bids -> Entry] /\ Outcomes(c)' = Outcomes(c)
  BY OutcomesKept DEF Inv, TypeOK, GCDelete
<1>2. r.status = "removed" /\ db' = [db EXCEPT ![b].bid = r]  BY DEF GCDelete, Fresh
<1> HIDE DEF r
<1>3. CASE c # b
  <2>1. db'[c] = db[c]  BY <1>1, <1>2, <1>3
  <2> QED  BY <1>1, <2>1, SteadyKept
<1>4. CASE c = b
  <2>1. Status(c)' = "removed"  BY <1>1, <1>2, <1>4 DEF Status, Entry
  <2> QED  BY <1>1, <2>1 DEF Quiet, Steady, ToDownload, Imported, GivenUp, Ended
<1> QED  BY <1>3, <1>4

\* A worker saves the outcome it had.
LEMMA SteadySaveOutcome ==
  ASSUME Inv, NEW w \in Workers, SaveOutcome(w), NEW c \in Bids, c \notin raced' PROVE Steady(c)
<1>1. TypeOK /\ Busy(w) /\ worker[w].pc = "saving"  BY DEF SaveOutcome, Inv, Busy
<1>2. PICK r \in BidRecord : r = WorkerBid(w)
  BY <1>1, PointeeType DEF TypeOK, WorkerBid
<1>3. PICK s \in Statuses : s = worker[w].status  BY <1>1 DEF TypeOK
<1>4. PICK b \in Bids : b = r.id  BY <1>2 DEF BidRecord
<1>5. /\ db' = [db EXCEPT ![b] = Save(db[b], r, s)] /\ db \in [Bids -> Entry]
      /\ raced' = raced \cup Raced("none", {b})
  BY <1>1, <1>2, <1>3, <1>4 DEF SaveOutcome, Write, TypeOK
<1>6. PutsDown(w, s)  BY <1>3 DEF SaveOutcome, Release, PutsDown
<1>7. LosesJob(b, w)  BY <1>1, <1>2, <1>4, <1>6, JobReleased
<1>8. CASE c # b
  <2>1. Running(c)' = Running(c) /\ \A v \in Running(c) : worker'[v] = worker[v]
    BY <1>7, <1>8 DEF LosesJob, Running
  <2>2. Outcomes(c)' = Outcomes(c)  BY <2>1 DEF Outcomes
  <2>3. db'[c] = db[c]  BY <1>5, <1>8
  <2> QED  BY <2>2, <2>3, SteadyKept
<1>9. CASE c = b
  <2>1. c \notin raced /\ c \notin Raced("none", {c}) /\ w \in Running(c)
    BY <1>1, <1>2, <1>4, <1>5, <1>9 DEF Running
  <2>2. OneJob(c)  BY <2>1 DEF Inv, BidOK
  <2>3. Running(c) = {w} /\ Running(c)' = {}  BY <1>7, <2>1, <2>2 DEF OneJob, LosesJob
  <2>4. Outcomes(c) = {s} /\ Outcomes(c)' = {}  BY <1>1, <1>3, <2>3 DEF Outcomes
  <2>5. Status(c)' = s  BY <1>5, <1>9, SaveType DEF Status
  <2>6. Status(c) = "fetching_data"  BY <2>1, SavedIsFetching DEF HasJob
  <2>7. s \in {"finalized", "errored", "queued_data"}  BY <1>1, <1>3 DEF Inv, SavingInv
  <2> QED  BY <2>4, <2>5, <2>6, <2>7 DEF Quiet, Steady, ToDownload, Imported, GivenUp, Ended
<1> QED  BY <1>8, <1>9
\* A worker loses the outcome it had, since it is not saved.
LEMMA OutcomeLost ==
  ASSUME Inv, NEW w \in Workers, SaveOutcomeFails(w), NEW c \in Bids
  PROVE  /\ ToDownload(c)' => ToDownload(c)
         /\ Imported(c)' => Imported(c)
         /\ GivenUp(c)' => GivenUp(c)
         /\ c # WorkerBid(w).id => Steady(c)
<1>1. TypeOK /\ Busy(w) /\ worker[w].pc = "saving" /\ db' = db
  BY DEF SaveOutcomeFails, Inv, Busy
<1>2. PICK s \in Statuses : s = worker[w].status  BY <1>1 DEF TypeOK
<1>3. PutsDown(w, s)  BY <1>2 DEF SaveOutcomeFails, Release, PutsDown
<1>4. PICK b : b = WorkerBid(w).id  OBVIOUS
<1>5. LosesJob(b, w)  BY <1>1, <1>3, <1>4, JobReleased
<1>6. Running(c)' = Running(c) \ {w} /\ \A v \in Running(c) \ {w} : worker'[v] = worker[v]
  BY <1>5 DEF LosesJob, Running
<1>7. Outcomes(c)' \subseteq Outcomes(c)  BY <1>6 DEF Outcomes
<1>8. c # b => Steady(c)
  <2> SUFFICES ASSUME c # b PROVE Steady(c)
    OBVIOUS
  <2>1. w \notin Running(c)  BY <1>5 DEF LosesJob
  <2>2. Outcomes(c)' = Outcomes(c)  BY <1>6, <2>1 DEF Outcomes
  <2> QED  BY <1>1, <2>2, SteadyKept
<1> QED  BY <1>1, <1>4, <1>7, <1>8 DEF ToDownload, Imported, GivenUp, Status

\* A worker moves on with the job in hand: its outcome is known when it is
\* about to save it.
LEMMA OutcomesMoved ==
  ASSUME TypeOK, NEW w \in Workers, Busy(w), worker[w].pc # "saving",
         NEW pc \in PCs \ {"idle", "returned"}, NEW s \in Statuses,
         worker' = [worker EXCEPT ![w] = [@ EXCEPT !.pc = pc, !.status = s]],
         UNCHANGED <<jobCh, cell>>
  PROVE  \A c : Outcomes(c)' = Outcomes(c) \cup (IF c = WorkerBid(w).id /\ pc = "saving" THEN {s} ELSE {})
<1> SUFFICES ASSUME NEW c
             PROVE  Outcomes(c)' = Outcomes(c) \cup (IF c = WorkerBid(w).id /\ pc = "saving" THEN {s} ELSE {})
  OBVIOUS
<1>1. /\ \A v \in Workers : /\ worker'[v].job = worker[v].job
                            /\ worker'[v].pc = IF v = w THEN pc ELSE worker[v].pc
                            /\ worker'[v].status = IF v = w THEN s ELSE worker[v].status
                            /\ Busy(v)' <=> Busy(v)
                            /\ WorkerBid(v)' = WorkerBid(v)
      /\ \A x : /\ Waiting(x)' = Waiting(x)
                /\ Running(x)' = Running(x)
                /\ HasJob(x)' <=> HasJob(x)
  BY WorkerMoved
<1>2. w \in Running(c) <=> c = WorkerBid(w).id  BY DEF Running
<1> DEFINE saving == {v \in Running(c) : worker[v].pc = "saving"}
<1>3. /\ w \notin saving /\ saving \subseteq Workers
      /\ saving' = saving \cup (IF pc = "saving" /\ w \in Running(c) THEN {w} ELSE {})
  BY <1>1 DEF Running
<1>4. Outcomes(c) = {worker[v].status : v \in saving} /\ Outcomes(c)' = {worker'[v].status : v \in saving'}
  BY DEF Outcomes
<1> HIDE DEF saving
<1>5. \A v \in saving : worker'[v].status = worker[v].status  BY <1>1, <1>3
<1>6. CASE ~(c = WorkerBid(w).id /\ pc = "saving")
  <2>1. saving' = saving  BY <1>2, <1>3, <1>6
  <2> QED  BY <1>4, <1>5, <1>6, <2>1
<1>7. CASE c = WorkerBid(w).id /\ pc = "saving"
  <2>1. saving' = saving \cup {w} /\ worker'[w].status = s  BY <1>1, <1>2, <1>3, <1>7
  <2> QED  BY <1>4, <1>5, <1>7, <2>1
<1> QED  BY <1>6, <1>7

\* The bid of a worker that has no outcome yet has not ended.
LEMMA NotEnded ==
  ASSUME Inv, NEW w \in Workers, Busy(w), worker[w].pc # "saving",
         NEW c \in Bids \ raced, c = WorkerBid(w).id
  PROVE  ~Ended(c)
<1>1. w \in Running(c) /\ OneJob(c)  BY DEF Running, Inv, BidOK
<1>2. Running(c) = {w}  BY <1>1 DEF OneJob
<1>3. Outcomes(c) = {}  BY <1>2 DEF Outcomes
<1> QED  BY <1>1, <1>3, JobStatus DEF Ended, HasJob

\* Lotus has got the data.
LEMMA ImportEnds ==
  ASSUME Inv, NEW w \in Workers, ImportDone(w), NEW c \in Bids \ raced
  PROVE  /\ ToDownload(c)' => ToDownload(c)
         /\ GivenUp(c)' => GivenUp(c)
         /\ IF c = WorkerBid(w).id THEN ~Ended(c) /\ Ended(c)' ELSE Steady(c)
<1>1. /\ TypeOK /\ Busy(w) /\ worker[w].pc # "saving" /\ db' = db
      /\ worker' = [worker EXCEPT ![w] = [@ EXCEPT !.pc = "saving", !.status = "finalized"]]
      /\ UNCHANGED <<jobCh, cell>>
  BY DEF ImportDone, Inv, Busy
<1>2. "saving" \in PCs \ {"idle", "returned"} /\ "finalized" \in Statuses  BY DEF PCs, Statuses
<1>3. \A x : Outcomes(x)' = Outcomes(x) \cup (IF x = WorkerBid(w).id THEN {"finalized"} ELSE {})
  BY <1>1, <1>2, OutcomesMoved
<1>4. Status(c)' = Status(c) /\ db'[c] = db[c]  BY <1>1 DEF Status
<1>5. CASE c = WorkerBid(w).id
  BY <1>1, <1>3, <1>4, <1>5, NotEnded DEF ToDownload, GivenUp, Ended
<1>6. CASE c # WorkerBid(w).id  BY <1>3, <1>4, <1>6, SteadyKept DEF ToDownload, Steady, Quiet
<1> QED  BY <1>5, <1>6

\* An attempt fails: it is the last one, or there will be another.
LEMMA FetchEnds ==
  ASSUME Inv, NEW w \in Workers, FetchExpired(w) \/ FetchFails(w) \/ ImportFails(w),
         NEW c \in Bids \ raced
  PROVE  /\ ToDownload(c)' => ToDownload(c)
         /\ Imported(c)' => Imported(c)
         /\ IF c = WorkerBid(w).id /\ worker'[w].status = "errored" THEN Ended(c)' ELSE Steady(c)
<1>1. /\ TypeOK /\ Busy(w) /\ worker[w].pc # "saving" /\ db' = db
      /\ UNCHANGED <<jobCh, cell>>
  BY DEF FetchExpired, FetchFails, ImportFails, Inv, Busy
<1>2. PICK s \in {"errored", "queued_data"} :
        worker' = [worker EXCEPT ![w] = [@ EXCEPT !.pc = "saving", !.status = s]]
  <2>1. PICK i \in BOOLEAN : Fail(w, i)  BY DEF FetchExpired, FetchFails, ImportFails
  <2> QED  BY <2>1 DEF Fail
<1>3. "saving" \in PCs \ {"idle", "returned"} /\ s \in Statuses  BY DEF PCs, Statuses
<1>4. \A x : Outcomes(x)' = Outcomes(x) \cup (IF x = WorkerBid(w).id THEN {s} ELSE {})
  BY <1>1, <1>2, <1>3, OutcomesMoved
<1>5. Status(c)' = Status(c) /\ db'[c] = db[c] /\ worker'[w].status = s
  BY <1>1, <1>2 DEF Status, TypeOK
<1>6. CASE c = WorkerBid(w).id
  <2>1. s # "finalized" /\ (s = "errored" \/ s = "queued_data")  OBVIOUS
  <2> QED  BY <1>4, <1>5, <1>6, <2>1 DEF ToDownload, Imported, GivenUp, Ended, Steady, Quiet
<1>7. CASE c # WorkerBid(w).id
  BY <1>4, <1>5, <1>7, SteadyKept DEF ToDownload, Imported, Steady, Quiet
<1> QED  BY <1>6, <1>7

\* The other steps of a worker bring no outcome.
LEMMA SteadyWorker ==
  ASSUME Inv, NEW w \in Workers, TakeJob(w) \/ DropJob(w) \/ FetchDone(w) \/ ImportBegin(w),
         NEW c \in Bids
  PROVE  Steady(c)
<1>1. TypeOK /\ UNCHANGED db  BY DEF Inv, TakeJob, DropJob, FetchDone, ImportBegin
<1>2. CASE TakeJob(w)
  <2>1. PICK r : r = Pointee(Head(jobCh))  OBVIOUS
  <2>2. /\ worker'[w].pc = "fetching" /\ worker[w].pc = "idle"
        /\ \A v \in Workers \ {w} : worker'[v] = worker[v]
        /\ c # r.id => Running(c)' = Running(c)
        /\ Running(r.id)' = Running(r.id) \cup {w}
    BY <1>1, <1>2, <2>1, JobTaken
  <2>3. Outcomes(c)' = Outcomes(c)
    <3> DEFINE saving == {v \in Running(c) : worker[v].pc = "saving"}
    <3>1. saving' = saving /\ w \notin saving /\ saving \subseteq Workers  BY <2>2 DEF Running
    <3>2. Outcomes(c) = {worker[v].status : v \in saving} /\ Outcomes(c)' = {worker'[v].status : v \in saving'}
      BY DEF Outcomes
    <3> HIDE DEF saving
    <3> QED  BY <2>2, <3>1, <3>2
  <2> QED  BY <1>1, <2>3, SteadyKept
<1>3. CASE DropJob(w)
  <2>1. /\ worker[w].pc = "idle" /\ worker'[w].pc = "returned" /\ cell' = cell
        /\ \A v \in Workers \ {w} : worker'[v] = worker[v]
    BY <1>1, <1>3 DEF DropJob, TypeOK
  <2>2. Outcomes(c)' = Outcomes(c)
    <3> DEFINE saving == {v \in Running(c) : worker[v].pc = "saving"}
    <3>1. saving' = saving /\ w \notin saving /\ saving \subseteq Workers
      BY <2>1 DEF Running, Busy, WorkerBid, Pointee
    <3>2. Outcomes(c) = {worker[v].status : v \in saving} /\ Outcomes(c)' = {worker'[v].status : v \in saving'}
      BY DEF Outcomes
    <3> HIDE DEF saving
    <3> QED  BY <2>1, <3>1, <3>2
  <2> QED  BY <1>1, <2>2, SteadyKept
<1>4. CASE FetchDone(w) \/ ImportBegin(w)
  <2>1. PICK pc \in {"fetched", "importing"} :
          /\ worker[w].pc \in {"fetching", "fetched"}
          /\ worker' = [worker EXCEPT ![w].pc = pc]
          /\ UNCHANGED <<jobCh, cell>>
    BY <1>4 DEF FetchDone, ImportBegin
  <2>2. worker[w] \in [pc: PCs, job: Job, status: Statuses]  BY <1>1 DEF TypeOK
  <2>3. PICK s \in Statuses : s = worker[w].status  BY <2>2
  <2>4. [worker[w] EXCEPT !.pc = pc] = [worker[w] EXCEPT !.pc = pc, !.status = s]
    BY <2>2, <2>3
  <2>5. worker' = [worker EXCEPT ![w] = [@ EXCEPT !.pc = pc, !.status = s]]  BY <2>1, <2>4
  <2>6. pc \in PCs \ {"idle", "returned"} /\ pc # "saving"  BY DEF PCs
  <2>7. Busy(w) /\ worker[w].pc # "saving" /\ UNCHANGED <<jobCh, cell>>  BY <2>1 DEF Busy
  <2>8. \A x : Outcomes(x)' = Outcomes(x) \cup (IF x = WorkerBid(w).id /\ pc = "saving" THEN {s} ELSE {})
    BY <1>1, <2>5, <2>6, <2>7, OutcomesMoved
  <2>9. Outcomes(c)' = Outcomes(c)  BY <2>6, <2>8
  <2> QED  BY <1>1, <2>9, SteadyKept
<1> QED  BY <1>2, <1>3, <1>4

\* getOrphaned moves the job of its loop variable: the bids it moves it from
\* and to are raced.
LEMMA SteadyOrphan ==
  ASSUME Inv, NEW b \in Bids, OrphanEnqueue(b), NEW c \in Bids, c \notin raced' PROVE Steady(c)
<1>1. /\ TypeOK /\ BootInv /\ phase = "boot" /\ UNCHANGED <<db, worker>>
      /\ cell' = Enqueued(db[b], db[b].bid, Room).bid /\ c \notin raced
      /\ txn["orphans"].sent # {} => c \notin txn["orphans"].sent \cup {b}
  BY DEF Inv, OrphanEnqueue
<1>2. Outcomes(c)' = Outcomes(c)
  <2>1. CASE NoJobs  BY <1>1, <2>1 DEF NoJobs, Outcomes, Running, Busy
  <2>2. CASE ~NoJobs
    <3>1. c # b /\ c # cell.id  BY <1>1, <2>2 DEF BootInv
    <3>2. db[b] \in Entry /\ db[b].bid \in BidRecord /\ db[b].bid.id = b /\ Room \in BOOLEAN
      BY <1>1 DEF TypeOK, Entry, Room
    <3>3. cell'.id = b  BY <1>1, <3>2, EnqueuedType
    <3>4. \A w \in Workers : Busy(w) => worker[w].job.shared  BY <1>1 DEF BootInv
    <3>5. Running(c) = {} /\ Running(c)' = {}
      BY <1>1, <3>1, <3>3, <3>4 DEF Running, Busy, WorkerBid, Pointee
    <3> QED  BY <3>5 DEF Outcomes
  <2> QED  BY <2>1, <2>2
<1> QED  BY <1>1, <1>2, SteadyKept
\* Steps that end no download.
QuietStep ==
  \/ \E b \in Bids : \/ SaveBid(b) \/ SetAwaitingProposalCid(b) \/ SetDealUID(b)
                     \/ \E h \in Handlers : SetProposalCid(h, b)
                     \/ OrphanEnqueue(b)
  \/ \E a \in Owners : Abort(a)
  \/ Commit("next") \/ Dispatch \/ Collect \/ Start \/ BootCommit \/ Close
  \/ \E w \in Workers : TakeJob(w) \/ DropJob(w) \/ FetchDone(w) \/ ImportBegin(w) \/ SaveOutcome(w)

\* None of them begins one: a download begins with the commit of a handler.
LEMMA SteadyStep == ASSUME Inv, QuietStep, NEW c \in Bids, c \notin raced' PROVE Steady(c)
<1>1. ASSUME NEW b \in Bids, SaveBid(b) \/ SetAwaitingProposalCid(b) \/ SetDealUID(b) PROVE Steady(c)
  BY <1>1, SteadyMessages
<1>2. ASSUME NEW b \in Bids, NEW h \in Handlers, SetProposalCid(h, b) PROVE Steady(c)
  BY <1>2, OutcomesKept, SteadyKept DEF SetProposalCid
<1>3. ASSUME NEW a \in Owners, Abort(a) PROVE Steady(c)
  BY <1>3, OutcomesKept, SteadyKept DEF Abort
<1>4. CASE Commit("next")  BY <1>4, SteadyCommit DEF Owners
<1>5. CASE Dispatch
  BY <1>5, OutcomesKept, SteadyKept DEF Dispatch, NextFindsNothing, NextEnqueues
<1>6. CASE Collect
  <2>1. CASE GCList  BY <2>1, OutcomesKept, SteadyKept DEF GCList
  <2> QED  BY <1>6, <2>1, SteadyGC DEF Collect
<1>7. CASE Start \/ Close  BY <1>7, OutcomesKept, SteadyKept DEF Start, Close
<1> QED
  BY <1>1, <1>2, <1>3, <1>4, <1>5, <1>6, <1>7, SteadyOrphan, SteadyBootCommit, SteadyWorker,
     SteadySaveOutcome DEF QuietStep

\* The end of the process brings no outcome; those not saved are lost.
LEMMA StopStep ==
  ASSUME BootFails \/ Exit \/ Crash, NEW c
  PROVE  /\ ToDownload(c)' => ToDownload(c)
         /\ Imported(c)' => Imported(c)
         /\ GivenUp(c)' => GivenUp(c)
<1>1. db' = db /\ worker' = [w \in Workers |-> Idle]  BY DEF BootFails, Exit, Crash, Stop, Reset
<1>2. Outcomes(c)' = {}  BY <1>1 DEF Outcomes, Running, Busy, Idle
<1> QED  BY <1>1, <1>2 DEF ToDownload, Imported, GivenUp, Status
\* The transactions of the handlers are opened and closed by themselves.
LEMMA ReadsKept ==
  ASSUME Inv, NEW h \in Handlers,
         \/ \E b \in Bids : SaveBid(b) \/ SetAwaitingProposalCid(b) \/ SetDealUID(b) \/ OrphanEnqueue(b)
         \/ Commit("next") \/ Abort("next") \/ Dispatch \/ Collect \/ Start \/ BootCommit \/ Close
         \/ \E w \in Workers : Fetch(w)
         \/ \E a \in Handlers \ {h} : Commit(a) \/ Abort(a) \/ \E b \in Bids : SetProposalCid(a, b)
  PROVE  txn'[h].reads = txn[h].reads
<1>1. /\ TypeOK /\ h \in Txns /\ h \notin {"next", "orphans", "none"}
      /\ txn[h] \in [reads: SUBSET Bids, sent: SUBSET Bids, stale: BOOLEAN]
  BY HandlersAssumption DEF Inv, TypeOK, Txns
<1>2. ASSUME NEW a, a # h, NEW B, txn' = AfterWrite(a, B) PROVE txn'[h].reads = txn[h].reads
  BY <1>1, <1>2, AfterWritePoint
<1>3. ASSUME NEW b \in Bids, SaveBid(b) \/ SetAwaitingProposalCid(b) \/ SetDealUID(b) \/ OrphanEnqueue(b)
      PROVE  txn'[h].reads = txn[h].reads
  <2>1. CASE OrphanEnqueue(b)
    <3>1. PICK s : txn' = [txn EXCEPT !["orphans"].sent = s]  BY <2>1 DEF OrphanEnqueue
    <3> QED  BY <1>1, <3>1 DEF TypeOK
  <2> QED  BY <1>1, <1>2, <1>3, <2>1 DEF SaveBid, SetAwaitingProposalCid, SetDealUID, Write
<1>4. CASE Commit("next") \/ Abort("next") \/ BootCommit
  BY <1>1, <1>2, <1>4 DEF Commit, Abort, BootCommit, TypeOK
<1>5. CASE Dispatch
  BY <1>1, <1>5 DEF Dispatch, NextFindsNothing, NextEnqueues, OpenAndSend, TypeOK
<1>6. CASE Collect  BY <1>1, <1>2, <1>6 DEF Collect, GCList, GCDelete
<1>7. CASE Start \/ Close  BY <1>1, <1>7 DEF Start, Close, TypeOK
<1>8. ASSUME NEW w \in Workers, Fetch(w) PROVE txn'[h].reads = txn[h].reads
  BY <1>1, <1>2, <1>8 DEF Fetch, TakeJob, DropJob, FetchExpired, FetchFails, FetchDone,
                          ImportBegin, ImportFails, ImportDone, SaveOutcome, SaveOutcomeFails, Write
<1>9. ASSUME NEW a \in Handlers \ {h}, Commit(a) \/ Abort(a) \/ \E b \in Bids : SetProposalCid(a, b)
      PROVE  txn'[h].reads = txn[h].reads
  <2>1. CASE Commit(a) \/ Abort(a)  BY <1>1, <1>2, <2>1 DEF Commit, Abort, TypeOK
  <2>2. ASSUME NEW b \in Bids, SetProposalCid(a, b) PROVE txn'[h].reads = txn[h].reads
    <3>1. PICK r : txn' = [txn EXCEPT ![a] = r]  BY <2>2 DEF SetProposalCid, OpenAndSend
    <3> QED  BY <1>1, <3>1 DEF TypeOK
  <2> QED  BY <1>9, <2>1, <2>2
<1> QED  BY <1>3, <1>4, <1>5, <1>6, <1>7, <1>8, <1>9

LEMMA ReadsMoved ==
  ASSUME Inv, NEW h \in Handlers
  PROVE  /\ \A b \in Bids : SetProposalCid(h, b) => txn'[h].reads = {b} /\ txn[h].reads = {}
         /\ Commit(h) \/ Abort(h) => txn'[h].reads = {} /\ txn[h].reads # {}
         /\ BootFails \/ Exit \/ Crash => txn'[h].reads = {}
<1>1. TypeOK /\ h \in Txns  BY DEF Inv, TypeOK, Txns
<1>2. \A b \in Bids : SetProposalCid(h, b) => txn'[h].reads = {b} /\ txn[h].reads = {}
  BY <1>1 DEF SetProposalCid, OpenAndSend, TypeOK, Open
<1>3. Commit(h) \/ Abort(h) => txn'[h].reads = {} /\ txn[h].reads # {}
  BY <1>1, AfterWritePoint DEF Commit, Abort, TypeOK, Open, Closed
<1>4. BootFails \/ Exit \/ Crash => txn'[h].reads = {}
  BY <1>1 DEF BootFails, Exit, Crash, Stop, Closed
<1> QED  BY <1>2, <1>3, <1>4
=============================================================================
