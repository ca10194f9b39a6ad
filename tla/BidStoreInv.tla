----------------------------- MODULE BidStoreInv -----------------------------
(***************************************************************************)
(* The inductive invariant of the bid store, from which its safety         *)
(* properties follow.                                                      *)
(***************************************************************************)
EXTENDS BidStoreProps

Owners == Handlers \cup {"next"}

NoJobs == jobCh = <<>> /\ \A w \in Workers : ~Busy(w)

\* An open transaction that may still commit has sent a job for b.
Pending(b) == \E a \in Txns : b \in txn[a].sent /\ ~txn[a].stale

\* What memory holds in each phase of the process.
PhaseInv ==
  /\ phase = "down" => NoJobs
  /\ phase \in {"down", "boot"} => \A a \in Owners : txn[a] = Closed
  /\ phase # "boot" => txn["orphans"] = Closed /\ orphans = {}

\* A job is sent only for a bid the transaction has read, and only getOrphaned
\* deals with several bids in one transaction.
SentInv ==
  /\ \A a \in Txns : txn[a].sent \subseteq txn[a].reads
  /\ \A a \in Owners : \A b, c \in txn[a].reads : b = c

\* getOrphaned: all jobs share its loop variable, which names a bid already
\* enqueued.
BootInv ==
  phase = "boot" =>
    /\ orphans \subseteq txn["orphans"].reads \ txn["orphans"].sent
    /\ txn["orphans"].sent = {} => NoJobs
    /\ ~NoJobs => cell.id \in txn["orphans"].sent \cup raced /\ cell.id \notin orphans
    /\ \A i \in DOMAIN jobCh : jobCh[i].shared
    /\ \A w \in Workers : Busy(w) => worker[w].job.shared
    /\ ~txn["orphans"].stale => FetchingKeys \subseteq txn["orphans"].reads
    /\ \A b \in txn["orphans"].reads \ (txn["orphans"].sent \cup raced) :
         Status(b) = "fetching_data" /\ imports[b] = 0

\* A worker saves one of the three outcomes.
SavingInv ==
  \A w \in Workers : worker[w].pc = "saving"
    => worker[w].status \in {"finalized", "errored", "queued_data"}

\* The status a transaction of a found in the bid it acts on.
Expected(a) == CASE a \in Handlers -> "awaiting_proposal"
                 [] a = "next"     -> "queued_data"
                 [] a = "orphans"  -> "fetching_data"

\* A transaction that may still commit has read what is stored.
TxnOK(b) ==
  \A a \in Txns : b \in txn[a].reads /\ ~txn[a].stale => Status(b) = Expected(a)

\* The job of b: what the worker will save agrees with what is stored, or with
\* what the transaction that sent the job is about to store.
JobOK(b) ==
  /\ \A i \in Waiting(b) : /\ Pointee(jobCh[i]).status = "fetching_data"
                           /\ Pointee(jobCh[i]).attempts < FetchAttempts
  /\ \A w \in Running(b) :
       /\ WorkerBid(w).status = "fetching_data"
       /\ WorkerBid(w).attempts \in 1..FetchAttempts
       /\ worker[w].pc = "saving" /\ worker[w].status = "queued_data" =>
            WorkerBid(w).attempts < FetchAttempts
  /\ HasJob(b) => Status(b) = "fetching_data" \/ Pending(b)

\* Without datastore faults and until Close, a sent job stays until its outcome
\* is saved.
KeptOK(b) ==
  ~StoreFails /\ phase # "closing" =>
    (Pending(b) \/ (phase = "running" /\ Status(b) = "fetching_data") => HasJob(b))

\* A bid imported since the last start is on its way to finalized.
ImportOK(b) ==
  /\ imports[b] \in {0, 1}
  /\ imports[b] = 1 /\ phase # "down" =>
       /\ Waiting(b) = {}
       /\ \A w \in Running(b) : worker[w].pc = "saving" /\ worker[w].status = "finalized"
       /\ Status(b) \in {"fetching_data", "finalized"} \/ Pending(b)

AttemptOK(b) == ~Resolved(b) => db[b].bid.attempts < FetchAttempts

BidOK(b) ==
  TxnOK(b) /\ IndexOK(b) /\ OneJob(b) /\ JobOK(b) /\ KeptOK(b) /\ ImportOK(b) /\ AttemptOK(b)

\* The inductive invariant: every step of the store preserves it.
Inv ==
  /\ TypeOK
  /\ PhaseInv
  /\ SentInv
  /\ BootInv
  /\ SavingInv
  /\ \A b \in Bids \ raced : BidOK(b)
=============================================================================
