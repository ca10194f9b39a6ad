------------------------------ MODULE BidStore ------------------------------
(***************************************************************************)
(* The bid store (service/store/store.go): the persisted bids, the two     *)
(* indexes of bids to download, the pool of fetch workers fed through      *)
(* jobCh, the dispatcher that moves queued bids to the workers, orphan     *)
(* recovery at start-up, garbage collection, and crashes between any two   *)
(* steps.                                                                  *)
(*                                                                         *)
(* A datastore transaction spans two steps here, because code outside the  *)
(* datastore (a send on jobCh) happens inside it: Begin* opens it, runs    *)
(* the code up to the commit and makes the send; Commit or Abort closes    *)
(* it.  Transactions that do nothing but read and write the datastore are  *)
(* one step each.  The datastore (badger) refuses a commit when a key the  *)
(* transaction read has been written since it began.                       *)
(***************************************************************************)
EXTENDS Integers, Sequences, FiniteSets

CONSTANTS Bids,              \* bid ids; ids are ULIDs, so key order is age
          Workers,           \* the fetchWorker goroutines
          Handlers,          \* deliveries of a proposal handled concurrently
          FetchAttempts,     \* dealDataFetchAttempts
          ConcurrentImports, \* size of semImports; 0: no semaphore
          ListLimit,         \* defaultListLimit of ListBids
          DiscardOrphans,    \* is discardOrphanDealsAfter non-zero?
          StoreFails,        \* may a datastore commit fail for no reason?
          MaxBoots           \* bound: after this many starts no crash and no Close

ASSUME BidsAssumption     == Bids \subseteq Nat /\ Bids # {} /\ IsFiniteSet(Bids)
ASSUME WorkersAssumption  == IsFiniteSet(Workers)
ASSUME HandlersAssumption == {"next", "orphans", "none"} \cap Handlers = {}
ASSUME LimitsAssumption   ==
  /\ FetchAttempts \in Nat \ {0}
  /\ ConcurrentImports \in Nat
  /\ ListLimit \in Nat
  /\ MaxBoots \in Nat \ {0}
ASSUME FlagsAssumption    == DiscardOrphans \in BOOLEAN /\ StoreFails \in BOOLEAN

VARIABLES
  db,      \* the datastore: per bid its record and its keys in the two indexes
  jobCh,   \* buffered channel of jobs for the workers
  tickCh,  \* tokens in the buffered channel that wakes the dispatcher
  timer,   \* is the dispatcher's start delay still to fire?
  worker,  \* what each fetchWorker does
  txn,     \* open transactions of the handlers, the dispatcher, getOrphaned
  orphans, \* bids getOrphaned still has to enqueue
  cell,    \* the loop variable of getOrphaned, shared by the jobs it sends
  gc,      \* bids the running GC pass still has to delete
  phase,   \* life of the process
  boots,   \* starts so far, counted up to MaxBoots
  imports, \* history: successful imports of a bid since the last start
  raced    \* history: bids hit by one of the races named in Raced

vars == <<db, jobCh, tickCh, timer, worker, txn, orphans, cell, gc, phase,
          boots, imports, raced>>

Statuses == {"unspecified", "submitted", "awaiting_proposal", "queued_data",
             "fetching_data", "finalized", "errored", "removed"}
Absent   == {"unspecified", "removed"}   \* no record under the bid's key
Phases   == {"down", "boot", "running", "closing"}
PCs      == {"idle", "returned", "fetching", "fetched", "importing", "saving"}

\* Attempts are counted up to the first value above the configured maximum.
AttemptCap == FetchAttempts + 1

\* The fields of Bid the life cycle depends on.  deal says which identifier
\* is set: "pcid" for ProposalCid, "uid" for DealUID.
BidRecord == [id: Bids, status: Statuses, attempts: 0..AttemptCap,
              deal: {"none", "pcid", "uid"}]
Entry     == [bid: BidRecord, queued: BOOLEAN, fetching: BOOLEAN]
Job       == [shared: BOOLEAN, bid: BidRecord]

Txns   == Handlers \cup {"next", "orphans"}
Closed == [reads |-> {}, sent |-> {}, stale |-> FALSE]

Fresh(b) == [id |-> b, status |-> "unspecified", attempts |-> 0, deal |-> "none"]
NilBid   == Fresh(CHOOSE b \in Bids : TRUE)   \* stands for no bid at all
Idle     == [pc |-> "idle", job |-> [shared |-> FALSE, bid |-> NilBid],
             status |-> "unspecified"]
Busy(w)  == worker[w].pc \notin {"idle", "returned"}
Up       == phase \in {"running", "closing"}

Status(b) == db[b].bid.status
Open(a)   == txn[a].reads # {}
Room      == Len(jobCh) < Cardinality(Workers)

Oldest(b, S) == b \in S /\ \A c \in S : b <= c
Newest(b, S) == b \in S /\ \A c \in S : c <= b

QueuedKeys   == {b \in Bids : db[b].queued}
FetchingKeys == {b \in Bids : db[b].fetching}

\* The jobs that jobs and workers point at: a *Bid is either private to the
\* job or the address of getOrphaned's loop variable.
Pointee(j)   == IF j.shared THEN cell ELSE j.bid
WorkerBid(w) == Pointee(worker[w].job)

-----------------------------------------------------------------------------
(* Definitions named Mutant* are plausible wrong versions of the definition  *)
(* that follows them; no specification uses them.                            *)
-----------------------------------------------------------------------------
(* saveAndTransitionStatus, on the entry e of the datastore, of the          *)
(* in-memory bid r: the keys to delete are found from r's own status.        *)
MutantSaveKeepsKey(e, r, s) ==       \* the key of the old status stays
  [bid      |-> [r EXCEPT !.status = s],
   queued   |-> s = "queued_data" \/ e.queued,
   fetching |-> s = "fetching_data" \/ e.fetching]

Save(e, r, s) ==
  [bid      |-> [r EXCEPT !.status = s],
   queued   |-> IF r.status = s THEN e.queued
                ELSE s = "queued_data" \/ (e.queued /\ r.status # "queued_data"),
   fetching |-> IF r.status = s THEN e.fetching
                ELSE s = "fetching_data" \/ (e.fetching /\ r.status # "fetching_data")]

MutantEnqueuedStuck(e, r, room) ==   \* not set back when jobCh is full
  Save(e, r, "fetching_data")
MutantEnqueuedEarly(e, r, room) ==   \* left in the queue although it was sent
  Save(e, r, "queued_data")

\* What enqueueDataURI writes: fetching_data, and then queued_data over it
\* when jobCh had no room.
Enqueued(e, r, room) ==
  LET f == Save(e, r, "fetching_data")
  IN  IF room THEN f ELSE Save(f, f.bid, "queued_data")

\* The bid as the owner a of a transaction has it in memory before the enqueue.
Loaded(a, b) ==
  IF a \in Handlers THEN [db[b].bid EXCEPT !.deal = "pcid"] ELSE db[b].bid

\* The bids that a write of B by actor a leaves damaged: another open
\* transaction, now bound to abort, has already sent a job for them.
Raced(a, B) ==
  {b \in B : \E x \in Txns \ {a, "orphans"} : b \in txn[x].sent /\ ~txn[x].stale}

\* Transactions after actor a wrote the bids B: a's own is over, those that
\* read one of B can no longer commit.
AfterWrite(a, B) ==
  [x \in Txns |-> IF x = a THEN Closed
                  ELSE [txn[x] EXCEPT !.stale = @ \/ txn[x].reads \cap B # {}]]

\* One complete write of bid b by an actor that holds no transaction open.
Write(b, entry) ==
  /\ db'    = [db EXCEPT ![b] = entry]
  /\ txn'   = AfterWrite("none", {b})
  /\ raced' = raced \cup Raced("none", {b})

\* enqueueDataURI up to the commit, by actor a for bid b in its transaction.
OpenAndSend(a, b) ==
  LET job == [shared |-> FALSE,
              bid    |-> [Loaded(a, b) EXCEPT !.status = "fetching_data"]]
  IN  /\ jobCh' = IF Room THEN Append(jobCh, job) ELSE jobCh
      /\ txn'   = [txn EXCEPT ![a] = [reads |-> {b},
                                      sent  |-> IF Room THEN {b} ELSE {},
                                      stale |-> FALSE]]
      /\ raced' = raced \cup (IF Room THEN Raced(a, {b}) ELSE {})

-----------------------------------------------------------------------------
(* Messages from the auctioneer.  They go on being handled while Close waits *)
(* for the workers, since the channel is closed after the store.             *)

\* SaveBid, after the auctioneer acknowledged the bid.
SaveBid(b) ==
  /\ Up
  /\ Status(b) = "unspecified"
  /\ Write(b, Save(db[b], Fresh(b), "submitted"))
  /\ UNCHANGED <<jobCh, tickCh, timer, worker, orphans, cell, gc, phase, boots, imports>>

\* SetAwaitingProposalCid: the bid won.
SetAwaitingProposalCid(b) ==
  /\ Up
  /\ Status(b) = "submitted"
  /\ Write(b, Save(db[b], db[b].bid, "awaiting_proposal"))
  /\ UNCHANGED <<jobCh, tickCh, timer, worker, orphans, cell, gc, phase, boots, imports>>

\* SetDealUID: a deal made through Boost needs no download.
SetDealUID(b) ==
  /\ Up
  /\ Status(b) = "awaiting_proposal"
  /\ Write(b, Save(db[b], [db[b].bid EXCEPT !.deal = "uid"], "finalized"))
  /\ UNCHANGED <<jobCh, tickCh, timer, worker, orphans, cell, gc, phase, boots, imports>>

MutantSetProposalCid(h, b) ==        \* does not look at the bid's status
  /\ Up
  /\ ~Open(h)
  /\ Status(b) \notin Absent
  /\ OpenAndSend(h, b)
  /\ UNCHANGED <<db, tickCh, timer, worker, orphans, cell, gc, phase, boots, imports>>

\* SetProposalCid, handled by h, up to its commit.
SetProposalCid(h, b) ==
  /\ Up
  /\ ~Open(h)
  /\ Status(b) = "awaiting_proposal"
  /\ OpenAndSend(h, b)
  /\ UNCHANGED <<db, tickCh, timer, worker, orphans, cell, gc, phase, boots, imports>>

-----------------------------------------------------------------------------
(* The end of SetProposalCid and of getNext.                                 *)

Commit(a) ==
  LET B == txn[a].reads
  IN  /\ Open(a)
      /\ ~txn[a].stale
      /\ db'    = [b \in Bids |-> IF b \in B
                                  THEN Enqueued(db[b], Loaded(a, b), b \in txn[a].sent)
                                  ELSE db[b]]
      /\ txn'   = AfterWrite(a, B)
      /\ raced' = raced \cup Raced(a, B)
      /\ UNCHANGED <<jobCh, tickCh, timer, worker, orphans, cell, gc, phase, boots, imports>>

\* The commit is refused; the jobs already sent stay in jobCh.
Abort(a) ==
  /\ Open(a)
  /\ txn[a].stale \/ StoreFails
  /\ txn'   = [txn EXCEPT ![a] = Closed]
  /\ raced' = raced \cup txn[a].sent
  /\ UNCHANGED <<db, jobCh, tickCh, timer, worker, orphans, cell, gc, phase, boots, imports>>

-----------------------------------------------------------------------------
(* startFetching: the dispatcher calls getNext on the timer and on a tick.   *)

MutantWakeTimer == timer /\ timer' = FALSE /\ tickCh' = tickCh   \* deaf to ticks

Wake ==
  \/ timer /\ timer' = FALSE /\ tickCh' = tickCh
  \/ tickCh > 0 /\ tickCh' = tickCh - 1 /\ timer' = timer

\* getNext finds nothing queued, or an index key without its bid.
NextFindsNothing ==
  /\ Up /\ ~Open("next")
  /\ Wake
  /\ \A b \in QueuedKeys : Oldest(b, QueuedKeys) => Status(b) \in Absent
  /\ UNCHANGED <<db, jobCh, worker, txn, orphans, cell, gc, phase, boots, imports, raced>>

\* getNext enqueues the first key of the queue.
NextEnqueues ==
  /\ Up /\ ~Open("next")
  /\ Wake
  /\ \E b \in QueuedKeys :
       /\ Oldest(b, QueuedKeys)
       /\ Status(b) \notin Absent
       /\ OpenAndSend("next", b)
  /\ UNCHANGED <<db, worker, orphans, cell, gc, phase, boots, imports>>

-----------------------------------------------------------------------------
(* fetchWorker.                                                              *)

\* Receive a job and count the attempt, in memory only.
TakeJob(w) ==
  LET j == Head(jobCh)
      Counted(r) == [r EXCEPT !.attempts = IF @ < AttemptCap THEN @ + 1 ELSE @]
      mine == IF j.shared THEN j ELSE [j EXCEPT !.bid = Counted(@)]
  IN  /\ phase \in {"boot", "running"}
      /\ worker[w].pc = "idle"
      /\ jobCh # <<>>
      /\ jobCh'  = Tail(jobCh)
      /\ worker' = [worker EXCEPT ![w] = [Idle EXCEPT !.pc = "fetching", !.job = mine]]
      /\ cell'   = IF j.shared THEN Counted(cell) ELSE cell
      /\ UNCHANGED <<db, tickCh, timer, txn, orphans, gc, phase, boots, imports, raced>>

\* After Close a worker that waits may still receive a job: it returns, and the
\* job is gone.  What is left of it is the key in the fetching index.
DropJob(w) ==
  /\ phase = "closing"
  /\ worker[w].pc = "idle"
  /\ jobCh # <<>>
  /\ jobCh'  = Tail(jobCh)
  /\ worker' = [worker EXCEPT ![w].pc = "returned"]
  /\ UNCHANGED <<db, tickCh, timer, txn, orphans, cell, gc, phase, boots, imports, raced>>

MutantFailLate(w, immediate) ==      \* one attempt too many
  worker' = [worker EXCEPT ![w] =
    [@ EXCEPT !.pc = "saving",
              !.status = IF immediate \/ WorkerBid(w).attempts > FetchAttempts
                         THEN "errored" ELSE "queued_data"]]

\* fail: give up at once or after the last attempt, else queue a retry.
Fail(w, immediate) ==
  worker' = [worker EXCEPT ![w] =
    [@ EXCEPT !.pc = "saving",
              !.status = IF immediate \/ WorkerBid(w).attempts >= FetchAttempts
                         THEN "errored" ELSE "queued_data"]]

\* fetchOne: the start epoch is already in the past.
FetchExpired(w) ==
  /\ worker[w].pc = "fetching"
  /\ Fail(w, TRUE)
  /\ UNCHANGED <<db, jobCh, tickCh, timer, txn, orphans, cell, gc, phase, boots, imports, raced>>

FetchFails(w) ==
  /\ worker[w].pc = "fetching"
  /\ Fail(w, FALSE)
  /\ UNCHANGED <<db, jobCh, tickCh, timer, txn, orphans, cell, gc, phase, boots, imports, raced>>

FetchDone(w) ==
  /\ worker[w].pc = "fetching"
  /\ worker' = [worker EXCEPT ![w].pc = "fetched"]
  /\ UNCHANGED <<db, jobCh, tickCh, timer, txn, orphans, cell, gc, phase, boots, imports, raced>>

Importing == {w \in Workers : worker[w].pc = "importing"}

\* semImports, when there is one, has a free slot.
ImportSlot == ConcurrentImports = 0 \/ Cardinality(Importing) < ConcurrentImports

\* Acquire semImports and call ImportData.
ImportBegin(w) ==
  /\ worker[w].pc = "fetched"
  /\ ImportSlot
  /\ worker' = [worker EXCEPT ![w].pc = "importing"]
  /\ UNCHANGED <<db, jobCh, tickCh, timer, txn, orphans, cell, gc, phase, boots, imports, raced>>

MutantImportFails(w) ==              \* the error of ImportData is dropped
  /\ worker[w].pc = "importing"
  /\ worker' = [worker EXCEPT ![w] = [@ EXCEPT !.pc = "saving", !.status = "finalized"]]
  /\ UNCHANGED <<db, jobCh, tickCh, timer, txn, orphans, cell, gc, phase, boots, imports, raced>>

ImportFails(w) ==
  /\ worker[w].pc = "importing"
  /\ Fail(w, FALSE)
  /\ UNCHANGED <<db, jobCh, tickCh, timer, txn, orphans, cell, gc, phase, boots, imports, raced>>

ImportDone(w) ==
  LET b == WorkerBid(w).id
  IN  /\ worker[w].pc = "importing"
      /\ worker'  = [worker EXCEPT ![w] = [@ EXCEPT !.pc = "saving", !.status = "finalized"]]
      /\ imports' = [imports EXCEPT ![b] = IF @ < 2 THEN @ + 1 ELSE @]
      /\ UNCHANGED <<db, jobCh, tickCh, timer, txn, orphans, cell, gc, phase, boots, raced>>

MutantReleaseSilent(w) == worker' = [worker EXCEPT ![w] = Idle] /\ tickCh' = tickCh
MutantReleaseFull(w) == worker' = [worker EXCEPT ![w] = Idle] /\ tickCh' = tickCh + 1

\* Back to the loop: a tick, dropped when tickCh is full.
Release(w) ==
  /\ worker' = [worker EXCEPT ![w] = Idle]
  /\ tickCh' = IF tickCh < Cardinality(Workers) THEN tickCh + 1 ELSE tickCh

\* The outcome is saved; the save reads nothing, so it is never refused.
SaveOutcome(w) ==
  LET r == WorkerBid(w)
  IN  /\ worker[w].pc = "saving"
      /\ Write(r.id, Save(db[r.id], r, worker[w].status))
      /\ cell' = IF worker[w].job.shared THEN [cell EXCEPT !.status = worker[w].status]
                 ELSE cell
      /\ Release(w)
      /\ UNCHANGED <<jobCh, timer, orphans, gc, phase, boots, imports>>

\* The error of the save is only logged.
SaveOutcomeFails(w) ==
  /\ StoreFails
  /\ worker[w].pc = "saving"
  /\ cell' = IF worker[w].job.shared THEN [cell EXCEPT !.status = worker[w].status]
             ELSE cell
  /\ Release(w)
  /\ UNCHANGED <<db, jobCh, timer, txn, orphans, gc, phase, boots, imports, raced>>

-----------------------------------------------------------------------------
(* GC of bids.  It lists bids outside any transaction and deletes later.     *)

Listed == LET live == {b \in Bids : Status(b) \notin Absent}
          IN  {b \in live : Cardinality({c \in live : c > b}) < ListLimit}

Discardable == {b \in Listed : Status(b) = "awaiting_proposal"}

\* ListBids; which bids have waited for too long is up to the clock.
GCList ==
  /\ Up /\ DiscardOrphans
  /\ gc = {}
  /\ \E S \in SUBSET Discardable \ {{}} : gc' = S
  /\ UNCHANGED <<db, jobCh, tickCh, timer, worker, txn, orphans, cell, phase, boots, imports, raced>>

\* Delete the next listed bid: its record goes, its index keys do not.
GCDelete(b) ==
  /\ Up
  /\ Newest(b, gc)
  /\ gc'    = gc \ {b}
  /\ db'    = [db EXCEPT ![b].bid = [Fresh(b) EXCEPT !.status = "removed"]]
  /\ txn'   = AfterWrite("none", {b})
  /\ raced' = raced \cup Raced("none", {b})
                    \cup (IF Status(b) = "awaiting_proposal" THEN {} ELSE {b})
  /\ UNCHANGED <<jobCh, tickCh, timer, worker, orphans, cell, phase, boots, imports>>

-----------------------------------------------------------------------------
(* The life of the process.                                                  *)

Reset ==
  /\ jobCh'   = <<>>
  /\ tickCh'  = 0
  /\ worker'  = [w \in Workers |-> Idle]
  /\ orphans' = {}
  /\ cell'    = NilBid
  /\ gc'      = {}

\* NewStore: the workers start, getOrphaned opens its transaction and loads
\* the bids in the fetching index.  One that has no record fails the start.
Start ==
  /\ phase = "down"
  /\ \A b \in FetchingKeys : Status(b) \notin Absent
  /\ phase'   = IF FetchingKeys = {} THEN "running" ELSE "boot"
  /\ timer'   = (FetchingKeys = {})
  /\ txn'     = [txn EXCEPT !["orphans"].reads = FetchingKeys]
  /\ orphans' = FetchingKeys
  /\ boots'   = IF boots < MaxBoots THEN boots + 1 ELSE boots
  /\ imports' = [b \in Bids |-> 0]
  /\ UNCHANGED <<db, jobCh, tickCh, worker, cell, gc, raced>>

\* One iteration of getOrphaned's loop.  The job is the address of the loop
\* variable: the jobs sent before now point at this bid as well.
OrphanEnqueue(b) ==
  LET f == Enqueued(db[b], db[b].bid, Room)
  IN  /\ phase = "boot"
      /\ Oldest(b, orphans)
      /\ orphans' = orphans \ {b}
      /\ cell'    = f.bid
      /\ jobCh'   = IF Room THEN Append(jobCh, [shared |-> TRUE, bid |-> f.bid]) ELSE jobCh
      /\ txn'     = [txn EXCEPT !["orphans"].sent = IF Room THEN @ \cup {b} ELSE @]
      /\ raced'   = raced \cup (IF txn["orphans"].sent = {} THEN {}
                                ELSE txn["orphans"].sent \cup {b})
      /\ UNCHANGED <<db, tickCh, timer, worker, gc, phase, boots, imports>>

\* getOrphaned commits, and NewStore returns the store.
BootCommit ==
  LET B == txn["orphans"].reads
  IN  /\ phase = "boot"
      /\ orphans = {}
      /\ ~txn["orphans"].stale
      /\ db'    = [b \in Bids |-> IF b \in B
                                  THEN Enqueued(db[b], db[b].bid, b \in txn["orphans"].sent)
                                  ELSE db[b]]
      /\ txn'   = AfterWrite("orphans", B)
      /\ phase' = "running"
      /\ timer' = TRUE
      /\ UNCHANGED <<jobCh, tickCh, worker, orphans, cell, gc, boots, imports, raced>>

\* The process ends: nothing in memory survives.
Stop ==
  /\ phase' = "down"
  /\ Reset
  /\ timer' = FALSE
  /\ txn'   = [a \in Txns |-> Closed]
  /\ UNCHANGED <<db, boots, imports, raced>>

\* getOrphaned's commit is refused, and the daemon exits.
BootFails ==
  /\ phase = "boot"
  /\ orphans = {}
  /\ txn["orphans"].stale \/ StoreFails
  /\ Stop

\* Close cancels the context: workers finish the job in hand and take no other.
Close ==
  /\ phase = "running"
  /\ boots < MaxBoots
  /\ phase' = "closing"
  /\ UNCHANGED <<db, jobCh, tickCh, timer, worker, txn, orphans, cell, gc, boots, imports, raced>>

Exit ==
  /\ phase = "closing"
  /\ \A w \in Workers : ~Busy(w)
  /\ Stop

Crash ==
  /\ phase # "down"
  /\ boots < MaxBoots
  /\ Stop

-----------------------------------------------------------------------------
Init ==
  /\ db      = [b \in Bids |-> [bid |-> Fresh(b), queued |-> FALSE, fetching |-> FALSE]]
  /\ jobCh   = <<>>
  /\ tickCh  = 0
  /\ timer   = FALSE
  /\ worker  = [w \in Workers |-> Idle]
  /\ txn     = [a \in Txns |-> Closed]
  /\ orphans = {}
  /\ cell    = NilBid
  /\ gc      = {}
  /\ phase   = "down"
  /\ boots   = 0
  /\ imports = [b \in Bids |-> 0]
  /\ raced   = {}

Messages ==
  \E b \in Bids : \/ SaveBid(b)
                  \/ SetAwaitingProposalCid(b)
                  \/ SetDealUID(b)
                  \/ \E h \in Handlers : SetProposalCid(h, b)

Transactions == \E a \in Handlers \cup {"next"} : Commit(a) \/ Abort(a)

Dispatch == NextFindsNothing \/ NextEnqueues

Fetch(w) ==
  \/ TakeJob(w)
  \/ DropJob(w)
  \/ FetchExpired(w)
  \/ FetchFails(w)
  \/ FetchDone(w)
  \/ ImportBegin(w)
  \/ ImportFails(w)
  \/ ImportDone(w)
  \/ SaveOutcome(w)
  \/ SaveOutcomeFails(w)

Collect == GCList \/ \E b \in Bids : GCDelete(b)

Boot == Start \/ (\E b \in Bids : OrphanEnqueue(b)) \/ BootCommit \/ BootFails

Next ==
  \/ Messages
  \/ Transactions
  \/ Dispatch
  \/ \E w \in Workers : Fetch(w)
  \/ Collect
  \/ Boot
  \/ Close
  \/ Exit
  \/ Crash

Spec == Init /\ [][Next]_vars

-----------------------------------------------------------------------------
(* The actions the Go scheduler, the timers and the I/O underneath always    *)
(* get to, once they stay possible: the goroutines of the store, and calls   *)
(* to Lotus and to the data source, which end by a timeout at the latest.    *)
(* Messages, GC, faults, Close and crashes are never owed.                   *)

WorkerFairness(w) ==
  /\ WF_vars(TakeJob(w))
  /\ WF_vars(FetchExpired(w) \/ FetchFails(w) \/ FetchDone(w))
  /\ SF_vars(ImportBegin(w))
  /\ WF_vars(ImportFails(w) \/ ImportDone(w))
  /\ WF_vars(SaveOutcome(w) \/ SaveOutcomeFails(w))

Fairness ==
  /\ \A w \in Workers : WorkerFairness(w)
  /\ \A a \in Handlers \cup {"next"} : WF_vars(Commit(a) \/ Abort(a))
  /\ WF_vars(Dispatch)
  /\ WF_vars(Start)
  /\ WF_vars(\E b \in Bids : OrphanEnqueue(b))
  /\ WF_vars(BootCommit \/ BootFails)
  /\ WF_vars(Exit)

FairSpec == Spec /\ Fairness
=============================================================================
