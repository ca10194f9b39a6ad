------------------------------- MODULE Bidbot -------------------------------
(***************************************************************************)
(* The service (service/service.go): makeBid and the handlers of the       *)
(* auctioneer's messages, over the bid store and the bytes limiter.        *)
(*                                                                         *)
(* Each handler is a goroutine; between its calls of the store and of the  *)
(* limiter, which are the steps of those components, anything may happen.  *)
(* Messages arrive late, repeatedly and in any order.  The limiter and the *)
(* handlers live in memory only: when the process ends they are gone, and  *)
(* the store recovers without them.  A bid stands for its auction: the     *)
(* limiter's ids are auction ids, and one bid is made in each.  Pausing    *)
(* and the calls of makeBid are the subject of Bidding.                    *)
(***************************************************************************)
EXTENDS Integers, Sequences, FiniteSets

CONSTANTS Bids, Workers, Handlers, FetchAttempts, ConcurrentImports, ListLimit,
          DiscardOrphans, StoreFails, MaxBoots,               \* of the store
          Limit, Period, Expiration, Word, MaxLag, MaxTime, MaxGrants,  \* of the limiter
          DealSize,  \* the size of the deal of each bid
          Winners    \* deliveries of a win handled concurrently

ASSUME BidsAssumption     == Bids \subseteq Nat /\ Bids # {} /\ IsFiniteSet(Bids)
ASSUME WorkersAssumption  == IsFiniteSet(Workers)
ASSUME HandlersAssumption == {"next", "orphans", "none"} \cap Handlers = {}
ASSUME LimitsAssumption   ==
  /\ FetchAttempts \in Nat \ {0}
  /\ ConcurrentImports \in Nat
  /\ ListLimit \in Nat
  /\ MaxBoots \in Nat \ {0}
ASSUME FlagsAssumption    == DiscardOrphans \in BOOLEAN /\ StoreFails \in BOOLEAN
ASSUME LimiterAssumption  ==
  /\ DealSize \in [Bids -> Nat \ {0}]
  /\ Limit \in Nat /\ Period \in Nat /\ Expiration \in Nat
  /\ Word \in Nat /\ Limit < Word /\ \A b \in Bids : Limit + DealSize[b] < Word
  /\ MaxLag \in Nat /\ MaxTime \in Nat /\ MaxGrants \in Nat

VARIABLES
  db, jobCh, tickCh, timer, worker, txn, orphans, cell, gc, phase, boots,
  imports, raced,                                             \* of the store
  now, total, requested, committed, timers, secured, leaked, log,  \* of the limiter
  bidder,   \* how far makeBid is for each bid
  known,    \* the auctioneer: bids it has received
  won,      \* the auctioneer: bids whose win was handled without error
  winner,   \* the WinsHandler goroutines
  proposer, \* the ProposalsHandler goroutines
  rewon,    \* history: bids whose win was granted quota a second time
  lapsed,   \* history: bids that lost quota to a timer, with the process, or to
            \* an outcome that was not saved
  counted   \* history: imported bids whose quota was committed

Store   == INSTANCE BidStore
Limiter == INSTANCE RunningTotalLimiter
             WITH Ids <- Bids, Sizes <- {DealSize[b] : b \in Bids}

storeVars   == <<db, jobCh, tickCh, timer, worker, txn, orphans, cell, gc, phase, boots,
                 imports, raced>>
limiterVars == <<now, total, requested, committed, timers, secured, leaked, log>>
bidderVars  == <<bidder, known>>
handlerVars == <<won, winner, proposer>>
historyVars == <<rewon, lapsed, counted>>
vars        == <<storeVars, limiterVars, bidderVars, handlerVars, historyVars>>

Free == [pc |-> "free", bid |-> 0]

Status(b)      == Store!Status(b)
Downloading(b) == Status(b) \in {"queued_data", "fetching_data"}

-----------------------------------------------------------------------------
(* The limiter's methods that do nothing for an id without a request.        *)

MutantCommitQuota(b) == UNCHANGED limiterVars      \* never committed
CommitQuota(b) ==
  IF Limiter!Requested(b) THEN Limiter!Commit(b) ELSE UNCHANGED limiterVars

MutantWithdrawQuota(b) == UNCHANGED limiterVars    \* never withdrawn
WithdrawQuota(b) ==
  IF Limiter!Requested(b) THEN Limiter!Withdraw(b) ELSE UNCHANGED limiterVars

MutantSecureQuota(b) == UNCHANGED limiterVars      \* never secured
SecureQuota(b) ==
  IF Limiter!Requested(b) THEN Limiter!Secure(b) ELSE UNCHANGED limiterVars

-----------------------------------------------------------------------------
(* Bidding.                                                                  *)

\* AuctionsHandler starts makeBid, which may give up for many reasons.
AuctionsHandler(b) ==
  /\ Store!Up
  /\ bidder[b] = "none"
  /\ \E pc \in {"publishing", "gave_up"} : bidder' = [bidder EXCEPT ![b] = pc]
  /\ UNCHANGED <<storeVars, limiterVars, known, handlerVars, historyVars>>

\* The bid reaches the auctioneer.
PublishBid(b) ==
  /\ bidder[b] = "publishing"
  /\ bidder' = [bidder EXCEPT ![b] = "published"]
  /\ known'  = known \cup {b}
  /\ UNCHANGED <<storeVars, limiterVars, handlerVars, historyVars>>

\* The bid or its acknowledgement is lost: nothing is saved.
PublishFails(b) ==
  /\ bidder[b] \in {"publishing", "published"}
  /\ bidder' = [bidder EXCEPT ![b] = "gave_up"]
  /\ UNCHANGED <<storeVars, limiterVars, known, handlerVars, historyVars>>

\* The acknowledgement brings the id of the bid: only now it is saved.
BidAcknowledged(b) ==
  /\ bidder[b] = "published"
  /\ Store!SaveBid(b)
  /\ bidder' = [bidder EXCEPT ![b] = "saved"]
  /\ UNCHANGED <<limiterVars, known, handlerVars, historyVars>>

-----------------------------------------------------------------------------
(* WinsHandler.                                                              *)

MutantGranted == TRUE              \* a refusal is not noticed
Granted == requested' # requested

\* GetBid finds the bid, and the limiter is asked for its size.
WinRequest(v, b) ==
  /\ Store!Up
  /\ winner[v].pc = "free"
  /\ b \in known /\ Status(b) \notin Store!Absent
  /\ Limiter!Request(b, DealSize[b])
  /\ \/ /\ ~Granted                   \* errWouldExceedRunningBytesLimit
        /\ UNCHANGED <<winner, rewon>>
     \/ /\ Granted
        /\ winner' = [winner EXCEPT ![v] = [pc |-> "validating", bid |-> b]]
        /\ rewon'  = IF requested[b].t # 0 \/ b \in lapsed \cup counted \/ Status(b) # "submitted"
                     THEN rewon \cup {b} ELSE rewon
  /\ UNCHANGED <<storeVars, bidderVars, won, proposer, lapsed, counted>>

\* Decrypting or validating the sources fails; the quota is left to expire.
WinInvalid(v) ==
  /\ winner[v].pc = "validating"
  /\ winner' = [winner EXCEPT ![v] = Free]
  /\ UNCHANGED <<storeVars, limiterVars, bidderVars, won, proposer, historyVars>>

\* SetAwaitingProposalCid; a repeated win of an awaiting bid is no error.
WinAccepted(v) ==
  LET b == winner[v].bid
  IN  /\ winner[v].pc = "validating"
      /\ \/ Store!SetAwaitingProposalCid(b)
         \/ Status(b) = "awaiting_proposal" /\ UNCHANGED storeVars
      /\ winner' = [winner EXCEPT ![v] = Free]
      /\ won'    = won \cup {b}
      /\ UNCHANGED <<limiterVars, bidderVars, proposer, historyVars>>

\* SetAwaitingProposalCid finds another status, or no bid.
WinRefused(v) ==
  /\ winner[v].pc = "validating"
  /\ Status(winner[v].bid) \notin {"submitted", "awaiting_proposal"}
  /\ winner' = [winner EXCEPT ![v] = Free]
  /\ UNCHANGED <<storeVars, limiterVars, bidderVars, won, proposer, historyVars>>

-----------------------------------------------------------------------------
(* ProposalsHandler.                                                         *)

MutantPropose(h, b, pc) ==         \* secured before the store has accepted it
  proposer' = [proposer EXCEPT ![h] = [pc |-> "securing", bid |-> b]]

Propose(h, b, pc) == proposer' = [proposer EXCEPT ![h] = [pc |-> pc, bid |-> b]]

\* The deal was made with Boost.
ProposalDealUID(h, b) ==
  /\ proposer[h].pc = "free" /\ b \in won
  /\ Store!SetDealUID(b)
  /\ Propose(h, b, "securing")
  /\ UNCHANGED <<limiterVars, bidderVars, won, winner, historyVars>>

\* SetProposalCid begins its transaction and sends the job.
ProposalCid(h, b) ==
  /\ proposer[h].pc = "free" /\ b \in won
  /\ Store!SetProposalCid(h, b)
  /\ Propose(h, b, "committing")
  /\ UNCHANGED <<limiterVars, bidderVars, won, winner, historyVars>>

\* A repeated proposal: "already in ..., duplicated message?" is no error.
ProposalRepeated(h, b) ==
  /\ Store!Up
  /\ proposer[h].pc = "free" /\ b \in won
  /\ Status(b) \in {"queued_data", "fetching_data", "finalized", "errored"}
  /\ Propose(h, b, "securing")
  /\ UNCHANGED <<storeVars, limiterVars, bidderVars, won, winner, historyVars>>

ProposalCommits(h) ==
  /\ proposer[h].pc = "committing"
  /\ Store!Commit(h)
  /\ Propose(h, proposer[h].bid, "securing")
  /\ UNCHANGED <<limiterVars, bidderVars, won, winner, historyVars>>

ProposalAborts(h) ==
  /\ proposer[h].pc = "committing"
  /\ Store!Abort(h)
  /\ proposer' = [proposer EXCEPT ![h] = Free]
  /\ UNCHANGED <<limiterVars, bidderVars, won, winner, historyVars>>

\* "ready to fetch data, so the requested quota is actually in use".
ProposalSecures(h) ==
  /\ proposer[h].pc = "securing"
  /\ SecureQuota(proposer[h].bid)
  /\ proposer' = [proposer EXCEPT ![h] = Free]
  /\ UNCHANGED <<storeVars, bidderVars, won, winner, historyVars>>

-----------------------------------------------------------------------------
(* The workers of the store, which commit and withdraw quota.                *)

FetchSucceeds(w) ==
  LET b == Store!WorkerBid(w).id
  IN  /\ Store!ImportDone(w)
      /\ CommitQuota(b)
      /\ counted' = IF log' # log THEN counted \cup {b} ELSE counted
      /\ UNCHANGED <<bidderVars, handlerVars, rewon, lapsed>>

\* fail withdraws the quota when it gives up.
FetchGoesWrong(w) ==
  /\ Store!FetchExpired(w) \/ Store!FetchFails(w) \/ Store!ImportFails(w)
  /\ IF worker'[w].status = "errored" THEN WithdrawQuota(Store!WorkerBid(w).id)
     ELSE UNCHANGED limiterVars
  /\ UNCHANGED <<bidderVars, handlerVars, historyVars>>

StoreAlone ==
  /\ \/ \E w \in Workers : \/ Store!TakeJob(w)     \/ Store!DropJob(w)
                           \/ Store!FetchDone(w)
                           \/ Store!ImportBegin(w) \/ Store!SaveOutcome(w)
     \/ Store!Commit("next") \/ Store!Abort("next") \/ Store!Dispatch
     \/ Store!Collect
     \/ Store!Start \/ Store!BootCommit \/ Store!Close
     \/ \E b \in Bids : Store!OrphanEnqueue(b)
  /\ UNCHANGED <<limiterVars, bidderVars, handlerVars, historyVars>>

\* The outcome is settled with the limiter, but not saved: its error is logged.
OutcomeUnsaved(w) ==
  LET b == Store!WorkerBid(w).id
  IN  /\ Store!SaveOutcomeFails(w)
      /\ lapsed' = IF Limiter!Requested(b) THEN lapsed ELSE lapsed \cup {b}
      /\ UNCHANGED <<limiterVars, bidderVars, handlerVars, rewon, counted>>

-----------------------------------------------------------------------------
(* The clock and the limiter's timers.                                       *)

Clock ==
  /\ Limiter!Tick \/ \E t \in DOMAIN timers : Limiter!Fire(t)
  /\ UNCHANGED <<storeVars, bidderVars, handlerVars, historyVars>>

QuotaExpires(t) ==
  /\ Limiter!Expire(t)
  /\ lapsed' = IF Limiter!Requested(timers[t].id) THEN lapsed \cup {timers[t].id} ELSE lapsed
  /\ UNCHANGED <<storeVars, bidderVars, handlerVars, rewon, counted>>

-----------------------------------------------------------------------------
(* The end of the process.                                                   *)

\* The limiter of the next start.  The timers of this one never fire again.
NewRunningTotalLimiter ==
  /\ total'     = 0
  /\ requested' = [b \in Bids |-> Limiter!NoRequest]
  /\ committed' = <<>>
  /\ timers'    = [t \in DOMAIN timers |-> [timers[t] EXCEPT !.state = "done"]]
  /\ secured' = {} /\ leaked' = 0 /\ log' = <<>>
  /\ now' = now

\* Bids won before go on without quota after the restart.
Stop ==
  /\ Store!BootFails \/ Store!Exit \/ Store!Crash
  /\ NewRunningTotalLimiter
  /\ bidder'   = [b \in Bids |-> IF bidder[b] \in {"publishing", "published"}
                                 THEN "gave_up" ELSE bidder[b]]
  /\ winner'   = [v \in Winners |-> Free]
  /\ proposer' = [h \in Handlers |-> Free]
  /\ lapsed'   = lapsed \cup won \cup {b \in Bids : Limiter!Requested(b)}
  /\ UNCHANGED <<known, won, rewon, counted>>

-----------------------------------------------------------------------------
Init ==
  /\ Store!Init
  /\ Limiter!Init
  /\ bidder   = [b \in Bids |-> "none"]
  /\ known    = {}
  /\ won      = {}
  /\ winner   = [v \in Winners |-> Free]
  /\ proposer = [h \in Handlers |-> Free]
  /\ rewon = {} /\ lapsed = {} /\ counted = {}

Bid(b) == AuctionsHandler(b) \/ PublishBid(b) \/ PublishFails(b) \/ BidAcknowledged(b)

WinsHandler(v) ==
  (\E b \in Bids : WinRequest(v, b)) \/ WinInvalid(v) \/ WinAccepted(v) \/ WinRefused(v)

ProposalsHandler(h) ==
  \/ \E b \in Bids : ProposalDealUID(h, b) \/ ProposalCid(h, b) \/ ProposalRepeated(h, b)
  \/ ProposalCommits(h) \/ ProposalAborts(h) \/ ProposalSecures(h)

Next ==
  \/ \E b \in Bids : Bid(b)
  \/ \E v \in Winners : WinsHandler(v)
  \/ \E h \in Handlers : ProposalsHandler(h)
  \/ \E w \in Workers : FetchSucceeds(w) \/ FetchGoesWrong(w) \/ OutcomeUnsaved(w)
  \/ StoreAlone
  \/ Clock
  \/ \E t \in DOMAIN timers : QuotaExpires(t)
  \/ Stop

Spec == Init /\ [][Next]_vars

-----------------------------------------------------------------------------
TypeOK ==
  /\ bidder \in [Bids -> {"none", "publishing", "published", "saved", "gave_up"}]
  /\ known \in SUBSET Bids /\ won \in SUBSET known
  /\ winner \in [Winners -> [pc: {"free", "validating"}, bid: Bids \cup {0}]]
  /\ proposer \in [Handlers -> [pc: {"free", "committing", "securing"}, bid: Bids \cup {0}]]
  /\ \A h \in Handlers : proposer[h].pc = "committing" <=> Store!Open(h)

Serving(b) == {w \in Workers : Store!Busy(w) /\ Store!WorkerBid(w).id = b}

\* Bids outside the races of the store whose quota was asked for once.
Plain == Bids \ (raced \cup rewon)

\* A download that nobody is still accepting holds secured quota: unless the
\* timer had fired by the time of Secure, nothing but the outcome of the
\* download takes the quota back.
DownloadSecured ==
  \A b \in Plain :
    Downloading(b) /\ Limiter!Requested(b)
      /\ (\A h \in Handlers : proposer[h].bid # b \/ proposer[h].pc = "free")
    => timers[requested[b].t].state # "armed"

\* The limiter forgets no import: a bid finalized by a download was counted in
\* the period's total, unless its quota had lapsed before.
ImportsCounted ==
  \A b \in Plain :
    Status(b) = "finalized" /\ db[b].bid.deal = "pcid" => b \in counted \cup lapsed

\* A download that ended holds no quota any more.
OutcomeSettles ==
  \A b \in Plain :
    Status(b) = "errored" \/ (Status(b) = "finalized" /\ db[b].bid.deal = "pcid")
      => ~Limiter!Requested(b)

\* Whatever is being downloaded is in the running total, which the limiter
\* keeps under the limit: from acceptance until the outcome the quota is held,
\* unless a timer took it back, the process ended or the outcome was not saved.
QuotaHeld ==
  \A b \in Plain \ lapsed :
    Downloading(b) /\ (\A w \in Serving(b) : worker[w].pc # "saving")
      => Limiter!Requested(b)
=============================================================================
