------------------------- MODULE BidStoreImplements -------------------------
(***************************************************************************)
(* Proof that the bid store implements BidLifecycle.                       *)
(***************************************************************************)
EXTENDS BidStoreRefinement, BidStoreSafety

\* A worker about to save "finalized" has imported the data.
Delivered ==
  \A w \in Workers :
    worker[w].pc = "saving" /\ worker[w].status = "finalized" /\ WorkerBid(w).id \notin raced
      => imports[WorkerBid(w).id] = 1

-----------------------------------------------------------------------------
(* Delivered is an invariant.                                                *)

\* A step after which a worker that has imported had imported before.
LEMMA DeliveredKept ==
  ASSUME Delivered, raced \subseteq raced', UNCHANGED imports,
         \A v \in Workers :
           worker'[v].pc = "saving" /\ worker'[v].status = "finalized"
           /\ WorkerBid(v)'.id \notin raced'
             => worker'[v] = worker[v] /\ WorkerBid(v)'.id = WorkerBid(v).id
  PROVE  Delivered'
BY DEF Delivered

\* A worker that goes on with another step.
LEMMA DeliveredFail ==
  ASSUME TypeOK, Delivered, NEW w \in Workers, NEW i \in BOOLEAN, Fail(w, i),
         UNCHANGED <<cell, imports, raced>>
  PROVE  Delivered'
<1>1. worker'[w].status # "finalized" /\ \A v \in Workers \ {w} : worker'[v] = worker[v]
  BY DEF Fail, TypeOK
<1>2. \A v \in Workers \ {w} : WorkerBid(v)' = WorkerBid(v)  BY <1>1 DEF WorkerBid, Pointee
<1> QED  BY <1>1, <1>2, DeliveredKept

LEMMA DeliveredFetch ==
  ASSUME Inv, Delivered, NEW w \in Workers, Fetch(w), raced \subseteq raced' PROVE Delivered'
<1>1. TypeOK  BY DEF Inv
<1>2. CASE TakeJob(w)
  <2>1. worker'[w].pc = "fetching" /\ \A v \in Workers \ {w} : worker'[v] = worker[v]
    BY <1>1, <1>2 DEF TakeJob, TypeOK, Idle
  <2>2. cell'.id = cell.id  BY <1>1, <1>2 DEF TakeJob, TypeOK, BidRecord
  <2>3. \A v \in Workers \ {w} : WorkerBid(v)'.id = WorkerBid(v).id
    BY <2>1, <2>2 DEF WorkerBid, Pointee
  <2>4. UNCHANGED imports  BY <1>2 DEF TakeJob
  <2> QED  BY <2>1, <2>3, <2>4, DeliveredKept
<1>3. CASE FetchExpired(w) \/ FetchFails(w) \/ ImportFails(w)
  <2>1. UNCHANGED <<cell, imports, raced>> /\ \E i \in BOOLEAN : Fail(w, i)
    BY <1>3 DEF FetchExpired, FetchFails, ImportFails
  <2> QED  BY <1>1, <2>1, DeliveredFail
<1>4. CASE FetchDone(w) \/ ImportBegin(w)
  <2>1. worker'[w].pc # "saving" /\ \A v \in Workers \ {w} : worker'[v] = worker[v]
    BY <1>1, <1>4 DEF FetchDone, ImportBegin, TypeOK
  <2>2. UNCHANGED <<cell, imports>>  BY <1>4 DEF FetchDone, ImportBegin
  <2>3. \A v \in Workers \ {w} : WorkerBid(v)' = WorkerBid(v)
    BY <2>1, <2>2 DEF WorkerBid, Pointee
  <2> QED  BY <2>1, <2>2, <2>3, DeliveredKept
<1>5. CASE ImportDone(w)
  <2> DEFINE b == WorkerBid(w).id
  <2>1. /\ worker[w].pc = "importing" /\ UNCHANGED <<cell, raced>>
        /\ worker' = [worker EXCEPT ![w] = [@ EXCEPT !.pc = "saving", !.status = "finalized"]]
        /\ imports' = [imports EXCEPT ![b] = IF @ < 2 THEN @ + 1 ELSE @]
    BY <1>5 DEF ImportDone
  <2>2. /\ \A v \in Workers : worker'[v].job = worker[v].job
        /\ \A v \in Workers \ {w} : worker'[v] = worker[v]
    BY <1>1, <2>1 DEF TypeOK
  <2>3. \A v \in Workers : WorkerBid(v)' = WorkerBid(v)  BY <2>1, <2>2 DEF WorkerBid, Pointee
  <2>4. b \in Bids  BY <1>1, PointeeType DEF TypeOK, WorkerBid, BidRecord
  <2>5. ASSUME b \notin raced PROVE imports'[b] = 1
    <3>1. w \in Running(b) /\ phase # "down"
      BY <2>1 DEF Running, Busy, Inv, PhaseInv, NoJobs
    <3>2. imports[b] = 0  BY <2>1, <2>4, <2>5, <3>1 DEF Inv, BidOK, ImportOK
    <3> QED  BY <1>1, <2>1, <2>4, <3>2 DEF TypeOK
  <2>6. \A c : c # b => imports'[c] = imports[c]  BY <1>1, <2>1 DEF TypeOK
  <2>7. ASSUME NEW v \in Workers, worker'[v].pc = "saving", worker'[v].status = "finalized",
               WorkerBid(v)'.id \notin raced'
        PROVE  imports'[WorkerBid(v)'.id] = 1
    <3>1. CASE WorkerBid(v).id = b  BY <2>1, <2>3, <2>5, <2>7, <3>1
    <3>2. CASE WorkerBid(v).id # b
      BY <2>1, <2>2, <2>3, <2>6, <2>7, <3>2 DEF Delivered
    <3> QED  BY <3>1, <3>2
  <2> QED  BY <2>7 DEF Delivered
<1>6. CASE SaveOutcome(w) \/ SaveOutcomeFails(w)
  <2>1. worker' = [worker EXCEPT ![w] = Idle] /\ UNCHANGED imports
    BY <1>6 DEF SaveOutcome, SaveOutcomeFails, Release
  <2>2. worker'[w].pc = "idle" /\ \A v \in Workers \ {w} : worker'[v] = worker[v]
    BY <1>1, <2>1 DEF TypeOK, Idle
  <2>3. PICK s : cell' = IF worker[w].job.shared THEN [cell EXCEPT !.status = s] ELSE cell
    BY <1>6 DEF SaveOutcome, SaveOutcomeFails
  <2>4. cell'.id = cell.id  BY <1>1, <2>3 DEF TypeOK, BidRecord
  <2>5. \A v \in Workers \ {w} : WorkerBid(v)'.id = WorkerBid(v).id
    BY <2>2, <2>4 DEF WorkerBid, Pointee
  <2> QED  BY <2>1, <2>2, <2>5, DeliveredKept
<1>7. CASE DropJob(w)
  <2>1. UNCHANGED <<cell, imports>> /\ worker' = [worker EXCEPT ![w].pc = "returned"]
    BY <1>7 DEF DropJob
  <2>2. worker'[w].pc # "saving" /\ \A v \in Workers \ {w} : worker'[v] = worker[v]
    BY <1>1, <2>1 DEF TypeOK
  <2>3. \A v \in Workers \ {w} : WorkerBid(v)' = WorkerBid(v)
    BY <2>1, <2>2 DEF WorkerBid, Pointee
  <2> QED  BY <2>1, <2>2, <2>3, DeliveredKept
<1> QED  BY <1>2, <1>3, <1>4, <1>5, <1>6, <1>7 DEF Fetch

\* getOrphaned moves its loop variable on under the workers: the bids that are
\* hit by that are raced.
LEMMA DeliveredOrphan ==
  ASSUME Inv, Delivered, NEW b \in Bids, OrphanEnqueue(b) PROVE Delivered'
<1>1. /\ TypeOK /\ phase = "boot" /\ BootInv /\ UNCHANGED <<worker, imports>>
      /\ cell' = Enqueued(db[b], db[b].bid, Room).bid
      /\ raced' = raced \cup (IF txn["orphans"].sent = {} THEN {}
                              ELSE txn["orphans"].sent \cup {b})
  BY DEF OrphanEnqueue, Inv
<1>2. cell'.id = b
  <2>1. db[b] \in Entry /\ db[b].bid \in BidRecord /\ db[b].bid.id = b /\ Room \in BOOLEAN
    BY <1>1 DEF TypeOK, Entry, Room
  <2> QED  BY <1>1, <2>1, EnqueuedType
<1>3. ASSUME NEW v \in Workers, worker'[v].pc = "saving", WorkerBid(v)'.id \notin raced'
      PROVE  FALSE
  <2>1. Busy(v) /\ ~NoJobs  BY <1>1, <1>3 DEF Busy, NoJobs
  <2>2. worker[v].job.shared /\ txn["orphans"].sent # {}  BY <1>1, <2>1 DEF BootInv
  <2>3. WorkerBid(v)'.id = b  BY <1>1, <1>2, <2>2 DEF WorkerBid, Pointee
  <2> QED  BY <1>1, <1>3, <2>2, <2>3
<1> QED  BY <1>3 DEF Delivered

LEMMA DeliveredNext == ASSUME Inv, Delivered, [Next]_vars PROVE Delivered'
<1>1. CASE UNCHANGED <<worker, cell, imports>> /\ raced \subseteq raced'
  <2>1. \A v \in Workers : WorkerBid(v)' = WorkerBid(v)  BY <1>1 DEF WorkerBid, Pointee
  <2> QED  BY <1>1, <2>1, DeliveredKept
<1>2. CASE UNCHANGED vars  BY <1>1, <1>2 DEF vars
<1>3. ASSUME Next PROVE Delivered'
  <2>1. raced \subseteq raced'  BY <1>3, RacedGrows
  <2>2. CASE Messages
    BY <1>1, <2>1, <2>2 DEF Messages, SaveBid, SetAwaitingProposalCid, SetDealUID,
                            SetProposalCid
  <2>3. CASE Transactions \/ Dispatch
    BY <1>1, <2>1, <2>3 DEF Transactions, Commit, Abort, Dispatch, NextFindsNothing,
                            NextEnqueues
  <2>4. ASSUME NEW w \in Workers, Fetch(w) PROVE Delivered'  BY <2>1, <2>4, DeliveredFetch
  <2>5. CASE Collect \/ BootCommit \/ Close
    BY <1>1, <2>1, <2>5 DEF Collect, GCList, GCDelete, BootCommit, Close
  <2>6. CASE Start
    <3>1. \A v \in Workers : worker'[v].pc # "saving"
      BY <2>6 DEF Start, Inv, PhaseInv, NoJobs, Busy
    <3> QED  BY <3>1 DEF Delivered
  <2>7. CASE BootFails \/ Exit \/ Crash
    <3>1. \A v \in Workers : worker'[v].pc = "idle"
      BY <2>7 DEF BootFails, Exit, Crash, Stop, Reset, Idle
    <3> QED  BY <3>1 DEF Delivered
  <2> QED  BY <1>3, <2>2, <2>3, <2>4, <2>5, <2>6, <2>7, DeliveredOrphan DEF Next, Boot
<1> QED  BY <1>2, <1>3

-----------------------------------------------------------------------------
(* Every step is one of BidLifecycle, or none.                               *)

\* What a bid amounts to before and after its data is imported.
LEMMA LifeOf ==
  ASSUME NEW b \in Bids \ raced
  PROVE  /\ imports[b] = 1 => Life(b) = [status |-> Status(b), imported |-> TRUE]
         /\ imports[b] # 1 => Life(b) = [status |-> Status(b), imported |-> FALSE]
<1>1. Life(b) = [status |-> Status(b), imported |-> imports[b] = 1]  BY DEF Life
<1>2. CASE imports[b] = 1
  <2>1. (imports[b] = 1) = TRUE  BY <1>2
  <2>2. Life(b) = [status |-> Status(b), imported |-> TRUE]  BY <1>1, <2>1, Zenon
  <2> QED  BY <1>2, <2>2
<1>3. CASE imports[b] # 1
  <2>1. (imports[b] = 1) = FALSE  BY <1>3
  <2>2. Life(b) = [status |-> Status(b), imported |-> FALSE]  BY <1>1, <2>1, Zenon
  <2> QED  BY <1>3, <2>2
<1> QED  BY <1>2, <1>3

\* A step that changes nothing but what it makes raced.
LEMMA Lost ==
  ASSUME TypeOK', raced \subseteq raced',
         \A c \in Bids \ raced' : Status(c)' = Status(c) /\ imports'[c] = imports[c]
  PROVE  Lifecycle!Next
<1>1. raced' \in SUBSET Bids  BY DEF TypeOK
<1>2. \A c \in Bids : Life(c)' = IF c \in raced' THEN Lifecycle!Lost ELSE Life(c)
  BY DEF Life, Lifecycle!Lost
<1>3. Lifecycle!Lose(raced')  BY <1>2 DEF Lifecycle!Lose, Lives
<1> QED  BY <1>1, <1>3 DEF Lifecycle!Next

\* A step of one bid: its status moves along the life cycle, and what becomes
\* of a download depends on whether the data was imported.
LEMMA Moved ==
  ASSUME TypeOK', raced \subseteq raced', NEW b \in Bids, raced' \subseteq raced \cup {b},
         UNCHANGED imports, \A c \in Bids \ {b} : Status(c)' = Status(c),
         Progress(b),
         b \notin raced' /\ Status(b) = "fetching_data" /\ Status(b)' # Status(b)
           => (Status(b)' = "finalized" <=> imports[b] = 1)
  PROVE  Lifecycle!Next
<1>1. CASE b \in raced' \/ Status(b)' = Status(b)  BY <1>1, Lost
<1>2. CASE b \notin raced' /\ Status(b)' # Status(b)
  <2>1. <<Status(b), Status(b)'>> \in LifeCycle  BY <1>2 DEF Progress
  <2>2. raced' = raced  BY <1>2
  <2>3. Life(b) = [status |-> Status(b), imported |-> imports[b] = 1]  BY <1>2, <2>2 DEF Life
  <2>4. Lives' = [Lives EXCEPT ![b].status = Status(b)']
    <3>1. \A c \in Bids \ {b} : Life(c)' = Life(c)  BY <2>2 DEF Life
    <3>2. Life(b)' = [Life(b) EXCEPT !.status = Status(b)']
      BY <1>2, <2>2, <2>3 DEF Life
    <3> QED  BY <3>1, <3>2 DEF Lives
  <2>5. Lives[b].status = Status(b) /\ Lives[b].imported = (imports[b] = 1)
    BY <2>3 DEF Lives
  <2>6. ASSUME Status(b)' # "queued_data" \/ Status(b) # "fetching_data" PROVE Lifecycle!Next
    <3>1. \/ Lifecycle!Submit(b)       \/ Lifecycle!Win(b)   \/ Lifecycle!FinalizeDeal(b)
          \/ Lifecycle!Discard(b)      \/ Lifecycle!Fetch(b) \/ Lifecycle!Queue(b)
          \/ Lifecycle!Finalize(b)     \/ Lifecycle!Abandon(b)
      BY <1>2, <2>1, <2>4, <2>5, <2>6
      DEF LifeCycle, Lifecycle!Move, Lifecycle!Submit, Lifecycle!Win, Lifecycle!FinalizeDeal,
          Lifecycle!Discard, Lifecycle!Fetch, Lifecycle!Queue, Lifecycle!Finalize,
          Lifecycle!Abandon
    <3> QED  BY <3>1 DEF Lifecycle!Next
  <2>7. CASE Status(b)' = "queued_data" /\ Status(b) = "fetching_data"
    <3>1. imports[b] # 1  BY <1>2, <2>7
    <3>2. \A c \in Bids : Lives'[c] = IF c \in {b} THEN [Lives[c] EXCEPT !.status = "queued_data"]
                                     ELSE Lives[c]
      BY <2>4, <2>7 DEF Lives
    <3>3. Lifecycle!Requeue({b})
      BY <2>5, <2>7, <3>1, <3>2 DEF Lifecycle!Requeue, Lives
    <3> QED  BY <3>3 DEF Lifecycle!Next
  <2> QED  BY <2>6, <2>7
<1> QED  BY <1>1, <1>2

\* The auctioneer's messages and GC act on bids that are not being fetched.
LEMMA MessageStep ==
  ASSUME Inv, TypeOK', NEW b \in Bids,
         SaveBid(b) \/ SetAwaitingProposalCid(b) \/ SetDealUID(b) \/ GCDelete(b)
  PROVE  Lifecycle!Next
<1>1. Progress(b)  BY ProgressMessages, ProgressGC
<1>2. UNCHANGED imports /\ raced \subseteq raced' /\ raced' \subseteq raced \cup {b}
  BY DEF SaveBid, SetAwaitingProposalCid, SetDealUID, GCDelete, Write, Raced
<1>3. \A c \in Bids \ {b} : Status(c)' = Status(c)
  BY DEF SaveBid, SetAwaitingProposalCid, SetDealUID, GCDelete, Write, Status, Inv, TypeOK
<1>4. b \notin raced' => Status(b) # "fetching_data"
  BY DEF SaveBid, SetAwaitingProposalCid, SetDealUID, GCDelete
<1> QED  BY <1>1, <1>2, <1>3, <1>4, Moved

\* A commit of SetProposalCid or getNext.
LEMMA CommitStep == ASSUME Inv, TypeOK', NEW a \in Owners, Commit(a) PROVE Lifecycle!Next
<1>1. /\ txn[a].reads # {} /\ ~txn[a].stale /\ UNCHANGED imports
      /\ raced' = raced \cup Raced(a, txn[a].reads)
  BY DEF Commit, Open
<1>2. PICK b \in Bids : txn[a].reads = {b}
  <2>1. txn[a].reads \subseteq Bids  BY Names DEF Inv, TypeOK
  <2> QED  BY <1>1, <2>1 DEF Inv, SentInv
<1>3. Progress(b)  BY ProgressCommit
<1>4. raced \subseteq raced' /\ raced' \subseteq raced \cup {b}  BY <1>1, <1>2 DEF Raced
<1>5. \A c \in Bids \ {b} : Status(c)' = Status(c)  BY <1>2 DEF Commit, Status
<1>6. b \notin raced' => Status(b) # "fetching_data"
  <2>1. ASSUME b \notin raced' PROVE Status(b) = Expected(a)
    <3>1. TxnOK(b)  BY <1>4, <2>1 DEF Inv, BidOK
    <3> QED  BY <1>1, <1>2, <3>1, Names DEF TxnOK
  <2> QED  BY <2>1, Names DEF Owners
<1> QED  BY <1>1, <1>3, <1>4, <1>5, <1>6, Moved

\* A worker saves that it is done, that it gave up, or that it tries again.
LEMMA SaveStep ==
  ASSUME Inv, Delivered, TypeOK', NEW w \in Workers, SaveOutcome(w) PROVE Lifecycle!Next
<1>1. /\ TypeOK /\ Busy(w) /\ worker[w].pc = "saving" /\ UNCHANGED imports
  BY DEF SaveOutcome, Inv, Busy
<1>2. PICK r \in BidRecord : r = WorkerBid(w)  BY <1>1, PointeeType DEF TypeOK, WorkerBid
<1>3. PICK s \in Statuses : s = worker[w].status  BY <1>1 DEF TypeOK
<1>4. PICK b \in Bids : b = r.id  BY <1>2 DEF BidRecord
<1>5. /\ db' = [db EXCEPT ![b] = Save(db[b], r, s)] /\ db \in [Bids -> Entry]
      /\ raced' = raced \cup Raced("none", {b})
  BY <1>1, <1>2, <1>3, <1>4 DEF SaveOutcome, Write, TypeOK
<1>6. Status(b)' = s /\ \A c \in Bids \ {b} : Status(c)' = Status(c)
  BY <1>5, SaveType DEF Status
<1>7. raced \subseteq raced' /\ raced' \subseteq raced \cup {b}  BY <1>5 DEF Raced
<1>8. Progress(b)  BY ProgressSaveOutcome
<1>9. ASSUME b \notin raced' PROVE s = "finalized" <=> imports[b] = 1
  <2>1. w \in Running(b) /\ phase # "down"
    BY <1>1, <1>2, <1>4 DEF Running, Inv, PhaseInv, NoJobs
  <2>2. imports[b] = 1 => s = "finalized"
    <3>1. ImportOK(b)  BY <1>7, <1>9 DEF Inv, BidOK
    <3> QED  BY <1>3, <2>1, <3>1 DEF ImportOK
  <2>3. s = "finalized" => imports[b] = 1
    BY <1>1, <1>2, <1>3, <1>4, <1>7, <1>9 DEF Delivered
  <2> QED  BY <2>2, <2>3
<1> QED  BY <1>1, <1>6, <1>7, <1>8, <1>9, Moved

\* Lotus has the data: for the first time since the start, and only of a bid
\* whose deal was accepted.
LEMMA ImportStep ==
  ASSUME Inv, TypeOK', NEW w \in Workers, ImportDone(w) PROVE Lifecycle!Next
<1>1. PICK b \in Bids : b = WorkerBid(w).id
  BY PointeeType DEF Inv, TypeOK, WorkerBid, BidRecord
<1>2. /\ TypeOK /\ worker[w].pc = "importing" /\ UNCHANGED <<db, raced>>
      /\ imports' = [imports EXCEPT ![b] = IF @ < 2 THEN @ + 1 ELSE @]
  BY <1>1 DEF ImportDone, Inv
<1>3. /\ \A c \in Bids : Status(c)' = Status(c)
      /\ \A c \in Bids \ {b} : imports'[c] = imports[c]
  BY <1>2 DEF Status, TypeOK
<1>4. CASE b \in raced  BY <1>2, <1>3, <1>4, Lost
<1>5. CASE b \notin raced
  <2>1. BidOK(b) /\ w \in Running(b) /\ phase # "down"
    BY <1>2, <1>1, <1>5 DEF Inv, Running, Busy, PhaseInv, NoJobs
  <2>2. imports[b] = 0  BY <1>2, <2>1 DEF BidOK, ImportOK
  <2>3. imports'[b] = 1  BY <1>2, <1>1, <2>2 DEF TypeOK
  <2>4. Status(b) \in {"awaiting_proposal", "queued_data", "fetching_data"}
    <3>1. CASE Pending(b)
      <4>1. PICK a \in Txns : b \in txn[a].reads /\ ~txn[a].stale
        BY <3>1 DEF Pending, Inv, SentInv
      <4>2. Status(b) = Expected(a)  BY <2>1, <4>1 DEF BidOK, TxnOK
      <4> QED  BY <4>2, Names DEF Txns
    <3> QED  BY <2>1, <3>1 DEF BidOK, JobOK, HasJob
  <2>5. /\ Life(b) = [status |-> Status(b), imported |-> FALSE]
        /\ Life(b)' = [status |-> Life(b).status, imported |-> TRUE]
        /\ \A c \in Bids \ {b} : Life(c)' = Life(c)
    <3>1. Life(b) = [status |-> Status(b), imported |-> FALSE]
      <4>1. imports[b] # 1  BY <2>2
      <4> QED  BY <1>1, <1>5, <4>1, LifeOf, Zenon
    <3>2. Life(b)' = [status |-> Status(b), imported |-> TRUE]
      <4>1. b \in Bids \ raced' /\ imports'[b] = 1 /\ Status(b)' = Status(b)
        BY <1>2, <1>1, <1>3, <1>5, <2>3
      <4>2. Life(b)' = [status |-> Status(b)', imported |-> (imports[b] = 1)']
        BY <4>1 DEF Life
      <4>3. (imports[b] = 1)' = TRUE  BY <4>1
      <4> QED  BY <4>1, <4>2, <4>3, Zenon
    <3>3. \A c \in Bids \ {b} : Life(c)' = Life(c)  BY <1>2, <1>3 DEF Life
    <3> HIDE DEF Life
    <3>4. Life(b).status = Status(b)  BY <3>1
    <3> QED  BY <3>1, <3>2, <3>3, <3>4, Zenon
  <2>6. Lifecycle!Import(b)
    <3>1. Lives[b] = [status |-> Status(b), imported |-> FALSE]  BY <1>1, <2>5 DEF Lives
    <3>2. Lives' = [Lives EXCEPT ![b] = [status |-> @.status, imported |-> TRUE]]  BY <1>1, <2>5 DEF Lives
    <3> QED  BY <2>4, <3>1, <3>2 DEF Lifecycle!Import
  <2> QED  BY <1>1, <2>6 DEF Lifecycle!Next
<1> QED  BY <1>4, <1>5

\* The process starts: nothing has been imported yet.
LEMMA StartStep == ASSUME Start PROVE Lifecycle!Next
<1>1. UNCHANGED <<db, raced>> /\ \A c \in Bids : imports'[c] = 0  BY DEF Start
<1>2. ASSUME NEW c \in Bids PROVE Life(c)' = [status |-> Life(c).status, imported |-> FALSE]
  <2>1. CASE c \in raced
    <3>1. Life(c) = [status |-> "lost", imported |-> FALSE] /\ Life(c)' = Life(c)
      BY <1>1, <2>1 DEF Life
    <3>2. Life(c).status = "lost"  BY <3>1
    <3> QED  BY <3>1, <3>2, Zenon
  <2>2. CASE c \notin raced
    <3> DEFINE u == imports[c] = 1
    <3>1. Life(c) = [status |-> Status(c), imported |-> u]  BY <2>2 DEF Life
    <3>2. Life(c)' = [status |-> Status(c), imported |-> (imports[c] = 1)']
      BY <1>1, <2>2 DEF Life, Status
    <3>3. (imports[c] = 1)' = FALSE  BY <1>1
    <3>4. Life(c)' = [status |-> Status(c), imported |-> FALSE]  BY <3>2, <3>3, Zenon
    <3> HIDE DEF u
    <3>5. Life(c).status = Status(c)  BY <3>1
    <3> QED  BY <3>4, <3>5, Zenon
  <2> QED  BY <2>1, <2>2
<1>3. Lifecycle!Restart  BY <1>2 DEF Lifecycle!Restart, Lives
<1> QED  BY <1>3 DEF Lifecycle!Next

\* getOrphaned has put back into the queue what found no room in jobCh.
LEMMA BootCommitStep == ASSUME Inv, TypeOK', BootCommit PROVE Lifecycle!Next
<1> DEFINE O == txn["orphans"]
           B == {c \in Bids \ raced : Status(c)' # Status(c)}
<1>1. /\ TypeOK /\ BootInv /\ phase = "boot" /\ ~O.stale /\ O.reads \subseteq Bids
      /\ UNCHANGED <<imports, raced>>
      /\ \A c \in Bids : db'[c] = IF c \in O.reads
                                  THEN Enqueued(db[c], db[c].bid, c \in O.sent) ELSE db[c]
  BY Names DEF BootCommit, Inv, TypeOK
<1>2. ASSUME NEW c \in B
      PROVE  Status(c) = "fetching_data" /\ Status(c)' = "queued_data" /\ imports[c] # 1
  <2>1. Progress(c)  BY ProgressBootCommit
  <2>2. c \in O.reads  BY <1>1 DEF Status
  <2>3. Status(c) = "fetching_data"
    <3>1. TxnOK(c)  BY DEF Inv, BidOK
    <3> QED  BY <1>1, <2>2, <3>1, Names DEF TxnOK
  <2>4. /\ db[c] \in Entry /\ db[c].bid \in BidRecord /\ (c \in O.sent) \in BOOLEAN
    BY <1>1 DEF TypeOK, Entry
  <2>5. /\ c \in O.sent => Status(c)' = "fetching_data"
        /\ Status(c)' \in {"fetching_data", "queued_data"}
    <3> DEFINE e == Enqueued(db[c], db[c].bid, c \in O.sent)
    <3>1. /\ e.bid.status \in {"fetching_data", "queued_data"}
          /\ c \in O.sent => e.bid.status = "fetching_data"
      BY <2>4, EnqueuedType
    <3>2. db'[c] = e  BY <1>1, <2>2
    <3> HIDE DEF e
    <3> QED  BY <3>1, <3>2 DEF Status
  <2>6. c \notin O.sent  BY <2>3, <2>5
  <2>7. imports[c] = 0  BY <1>1, <2>2, <2>6 DEF BootInv
  <2> QED  BY <2>3, <2>5, <2>7
<1>3. \A c \in Bids : Life(c)' = IF c \in B THEN [Life(c) EXCEPT !.status = "queued_data"]
                                 ELSE Life(c)
  BY <1>1, <1>2 DEF Life
<1>4. \A c \in B : Life(c).status = "fetching_data" /\ ~Life(c).imported
  BY <1>2 DEF Life
<1> HIDE DEF B
<1>5. B \in SUBSET Bids  BY DEF B
<1>6. Lifecycle!Requeue(B)  BY <1>3, <1>4, <1>5 DEF Lifecycle!Requeue, Lives
<1> QED  BY <1>5, <1>6 DEF Lifecycle!Next

LEMMA LifeStep == ASSUME Inv, Delivered, TypeOK', [Next]_vars PROVE [Lifecycle!Next]_Lives
<1>1. ASSUME UNCHANGED <<db, imports>>, raced \subseteq raced' PROVE Lifecycle!Next
  BY <1>1, Lost DEF Status
<1>2. CASE UNCHANGED vars  BY <1>2 DEF vars, Lives, Life, Status
<1>3. ASSUME Next PROVE Lifecycle!Next
  <2>1. raced \subseteq raced'  BY <1>3, RacedGrows
  <2>2. CASE Messages
    BY <1>1, <2>1, <2>2, MessageStep DEF Messages, SetProposalCid
  <2>3. CASE Transactions
    BY <1>1, <2>1, <2>3, CommitStep DEF Transactions, Owners, Abort
  <2>4. CASE Dispatch
    BY <1>1, <2>1, <2>4 DEF Dispatch, NextFindsNothing, NextEnqueues
  <2>5. ASSUME NEW w \in Workers, Fetch(w) PROVE Lifecycle!Next
    BY <1>1, <2>1, <2>5, SaveStep, ImportStep
    DEF Fetch, TakeJob, DropJob, FetchExpired, FetchFails, FetchDone, ImportBegin, ImportFails,
        SaveOutcomeFails
  <2>6. CASE Collect  BY <1>1, <2>1, <2>6, MessageStep DEF Collect, GCList
  <2>7. CASE Boot
    BY <1>1, <2>1, <2>7, StartStep, BootCommitStep DEF Boot, OrphanEnqueue, BootFails, Stop
  <2>8. CASE Close \/ Exit \/ Crash
    BY <1>1, <2>1, <2>8 DEF Close, Exit, Crash, Stop
  <2> QED  BY <1>3, <2>2, <2>3, <2>4, <2>5, <2>6, <2>7, <2>8 DEF Next
<1> QED  BY <1>2, <1>3

\* The store, with all that goes on in it at once and in whatever order it
\* stops and starts, does to a bid no more than BidLifecycle lets it.
THEOREM Implements == Spec => ImplementsLifecycle
<1>1. Init => Lifecycle!Init
  <2> SUFFICES ASSUME Init PROVE Lifecycle!Init
    OBVIOUS
  <2>1. ASSUME NEW b \in Bids
        PROVE  Life(b) = [status |-> "unspecified", imported |-> FALSE]
    <3>1. b \notin raced /\ imports[b] # 1 /\ Status(b) = "unspecified"
      BY DEF Init, Status, Fresh
    <3> QED  BY <3>1, LifeOf
  <2> QED  BY <2>1 DEF Lifecycle!Init, Lives
<1>2. Init => Delivered  BY DEF Init, Delivered, Idle
<1>3. Inv /\ Delivered /\ [Next]_vars => Delivered'  BY DeliveredNext
<1>4. Inv /\ Delivered /\ TypeOK' /\ [Next]_vars => [Lifecycle!Next]_Lives  BY LifeStep
<1>5. Inv => TypeOK  BY DEF Inv
<1> QED  BY <1>1, <1>2, <1>3, <1>4, <1>5, InductiveInvariant, PTL
         DEF Spec, ImplementsLifecycle, Lifecycle!Spec
=============================================================================
