---------------------------- MODULE BidStoreProps ----------------------------
(***************************************************************************)
(* What the bid store has to guarantee.  Most properties are about the     *)
(* bids outside raced: raced collects the bids hit by the races that the   *)
(* violation runs exhibit, and the properties say that the damage stays    *)
(* with them.                                                              *)
(***************************************************************************)
EXTENDS BidStore

TypeOK ==
  /\ db \in [Bids -> Entry]
  /\ \A b \in Bids : db[b].bid.id = b
  /\ jobCh \in Seq(Job)
  /\ Len(jobCh) <= Cardinality(Workers)
  /\ tickCh \in 0..Cardinality(Workers)
  /\ timer \in BOOLEAN
  /\ worker \in [Workers -> [pc: PCs, job: Job, status: Statuses]]
  /\ txn \in [Txns -> [reads: SUBSET Bids, sent: SUBSET Bids, stale: BOOLEAN]]
  /\ orphans \in SUBSET Bids
  /\ cell \in BidRecord
  /\ gc \in SUBSET Bids
  /\ phase \in Phases
  /\ boots \in Nat
  /\ imports \in [Bids -> 0..2]
  /\ raced \in SUBSET Bids

-----------------------------------------------------------------------------
\* The index /data_queued holds exactly the bids in queued_data, and
\* /data_fetching exactly those in fetching_data (saveAndTransitionStatus
\* keeps them in step although it derives the keys to delete from the
\* in-memory bid, not from the stored one).
IndexOK(b) ==
  /\ db[b].queued   <=> Status(b) = "queued_data"
  /\ db[b].fetching <=> Status(b) = "fetching_data"
IndexExact == \A b \in Bids \ raced : IndexOK(b)

\* The jobs for b in jobCh and with the workers.
Waiting(b) == {i \in DOMAIN jobCh : Pointee(jobCh[i]).id = b}
Running(b) == {w \in Workers : Busy(w) /\ WorkerBid(w).id = b}
HasJob(b)  == Waiting(b) # {} \/ Running(b) # {}

\* A bid has at most one job: never two workers on the same data file.
OneJob(b) ==
  /\ \A i, k \in Waiting(b) : i = k
  /\ \A v, w \in Running(b) : v = w
  /\ Waiting(b) = {} \/ Running(b) = {}
OneJobPerBid == \A b \in Bids \ raced : OneJob(b)

\* No download is forgotten: while the store runs, a bid in fetching_data
\* has a job, also after a crash (getOrphaned) and after a failed attempt.
NoLostJob ==
  \A b \in Bids \ raced :
    phase = "running" /\ ~StoreFails /\ Status(b) = "fetching_data" => HasJob(b)

\* Lotus is given the data of a bid at most once between two starts.
ImportedOnce == \A b \in Bids \ raced : imports[b] <= 1

\* A bid waits for a retry only while it has attempts left, and a worker
\* never makes more than the configured number of attempts.
RetriesBounded ==
  \A b \in Bids \ raced :
    /\ Status(b) = "queued_data" => db[b].bid.attempts < FetchAttempts
    /\ \A w \in Running(b) : WorkerBid(w).attempts \in 1..FetchAttempts

\* The documented life cycle of a bid (BidStatus).
LifeCycle ==
  {<<"unspecified", "submitted">>, <<"submitted", "awaiting_proposal">>,
   <<"awaiting_proposal", "queued_data">>, <<"awaiting_proposal", "fetching_data">>,
   <<"awaiting_proposal", "finalized">>, <<"awaiting_proposal", "removed">>,
   <<"queued_data", "fetching_data">>, <<"fetching_data", "queued_data">>,
   <<"fetching_data", "finalized">>, <<"fetching_data", "errored">>}

\* The stored status of a bid only moves along the life cycle: a finalized or
\* errored bid is never revived, although workers save without reading.
StatusProgression ==
  [][\A b \in Bids : b \notin raced' /\ Status(b)' # Status(b) =>
       <<Status(b), Status(b)'>> \in LifeCycle]_vars

-----------------------------------------------------------------------------
Resolved(b) == Status(b) \in {"finalized", "errored"}

\* A download never hangs: a bid in fetching_data is imported, given up on or
\* queued again, across failed attempts, Close and crashes at any step.
FetchingEnds ==
  \A b \in Bids : Status(b) = "fetching_data"
                 ~> (Resolved(b) \/ Status(b) = "queued_data" \/ raced # {})

\* A bid that is in the queue while the dispatcher has a wake-up pending is
\* taken out of it, even if the workers are busy, other bids go first or the
\* process stops in between (the next start brings a wake-up of its own).
WakeupServed ==
  \A b \in Bids :
    Status(b) = "queued_data" /\ (tickCh > 0 \/ timer)
      ~> (Status(b) # "queued_data" \/ raced # {})

-----------------------------------------------------------------------------
(* Statements of the documentation that the code does not keep: no bid is    *)
(* exempt from them.                                                         *)

\* "Re-enqueue jobs that may have been orphaned": when getOrphaned's loop is
\* over, every bid it enqueued has a job of its own.
OrphansReenqueued ==
  phase = "boot" /\ orphans = {} /\ ~txn["orphans"].stale =>
    \A b \in txn["orphans"].sent : Waiting(b) # {} \/ Running(b) # {}

\* "After acceptance, your bidbot will automatically download the PayloadCid
\* data": an accepted bid does not stay in the queue for ever.
AcceptedIsDownloaded ==
  \A b \in Bids : Status(b) = "queued_data" ~> (Status(b) # "queued_data" \/ raced # {})
=============================================================================
