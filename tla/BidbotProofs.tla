---------------------------- MODULE BidbotProofs ----------------------------
(***************************************************************************)
(* Proofs about the service over the store and the limiter, for every set  *)
(* of bids, workers and handlers, every limit and every number of starts:  *)
(* the quota of a bid follows its download.                                *)
(***************************************************************************)
EXTENDS Bidbot, SequenceTheorems, TLAPS

\* The store and the limiter again, with their theorems.  Store and Safety are
\* two instances of one module, and so are Limiter and Limits; the first two
\* sections show that their definitions agree.
Safety == INSTANCE BidStoreSafety
Limits == INSTANCE RunningTotalLimiterProofs
            WITH Ids <- Bids, Sizes <- {DealSize[b] : b \in Bids}

LEMMA StoreAssumptions ==
  /\ Bids \subseteq Nat /\ Bids # {} /\ Safety!IsFiniteSet(Bids)
  /\ Safety!IsFiniteSet(Workers)
  /\ {"next", "orphans", "none"} \cap Handlers = {}
  /\ FetchAttempts \in Nat \ {0} /\ ConcurrentImports \in Nat
  /\ ListLimit \in Nat /\ MaxBoots \in Nat \ {0}
  /\ DiscardOrphans \in BOOLEAN /\ StoreFails \in BOOLEAN
  BY BidsAssumption, WorkersAssumption, HandlersAssumption, LimitsAssumption, FlagsAssumption
  DEF IsFiniteSet, Safety!IsFiniteSet

-----------------------------------------------------------------------------
(* The two instances of the store.                                           *)

LEMMA SameRoom == Store!Room <=> Safety!Room
  BY DEF Store!Room, Safety!Room, Store!Cardinality, Safety!Cardinality

LEMMA SameInit == Store!Init <=> Safety!Init
  BY DEF Store!Init, Safety!Init, Store!Txns, Safety!Txns, Store!Closed, Safety!Closed,
      Store!Fresh, Safety!Fresh, Store!NilBid, Safety!NilBid, Store!Idle, Safety!Idle

LEMMA SameData ==
  /\ \A e, r, s : Store!Save(e, r, s) = Safety!Save(e, r, s)
  /\ \A a, b : Store!Loaded(a, b) = Safety!Loaded(a, b)
  /\ \A b : Store!Status(b) = Safety!Status(b) /\ Store!Fresh(b) = Safety!Fresh(b)
  /\ \A b, S : /\ Store!Oldest(b, S) <=> Safety!Oldest(b, S)
               /\ Store!Newest(b, S) <=> Safety!Newest(b, S)
  /\ \A w : /\ Store!WorkerBid(w) = Safety!WorkerBid(w)
            /\ Store!Busy(w) <=> Safety!Busy(w)
  /\ \A a : Store!Open(a) <=> Safety!Open(a)
  /\ Store!QueuedKeys = Safety!QueuedKeys /\ Store!FetchingKeys = Safety!FetchingKeys
  /\ Store!Up <=> Safety!Up
  /\ Store!Idle = Safety!Idle /\ Store!NilBid = Safety!NilBid
  /\ Store!Closed = Safety!Closed /\ Store!Absent = Safety!Absent
  BY DEF Store!Save, Safety!Save, Store!Loaded, Safety!Loaded, Store!Status, Safety!Status,
      Store!Fresh, Safety!Fresh, Store!Oldest, Safety!Oldest, Store!Newest, Safety!Newest,
      Store!WorkerBid, Safety!WorkerBid, Store!Pointee, Safety!Pointee, Store!Busy, Safety!Busy,
      Store!Open, Safety!Open, Store!QueuedKeys, Safety!QueuedKeys, Store!FetchingKeys,
      Safety!FetchingKeys, Store!Up, Safety!Up, Store!Idle, Safety!Idle, Store!NilBid,
      Safety!NilBid, Store!Closed, Safety!Closed, Store!Absent, Safety!Absent

LEMMA SameWrites ==
  /\ \A e, r, s : Store!Enqueued(e, r, s) = Safety!Enqueued(e, r, s)
  /\ \A a, B : Store!Raced(a, B) = Safety!Raced(a, B) /\ Store!AfterWrite(a, B) = Safety!AfterWrite(a, B)
  /\ \A b, e : Store!Write(b, e) <=> Safety!Write(b, e)
  /\ \A a, b : Store!OpenAndSend(a, b) <=> Safety!OpenAndSend(a, b)
  BY SameData, SameRoom DEF Store!Enqueued, Safety!Enqueued, Store!Raced, Safety!Raced,
      Store!AfterWrite, Safety!AfterWrite, Store!Txns, Safety!Txns, Store!Write, Safety!Write,
      Store!OpenAndSend, Safety!OpenAndSend

LEMMA SameMessages ==
  \A b : /\ Store!SaveBid(b) <=> Safety!SaveBid(b)
         /\ Store!SetAwaitingProposalCid(b) <=> Safety!SetAwaitingProposalCid(b)
         /\ Store!SetDealUID(b) <=> Safety!SetDealUID(b)
         /\ \A h : Store!SetProposalCid(h, b) <=> Safety!SetProposalCid(h, b)
  BY SameData, SameWrites DEF Store!SaveBid, Safety!SaveBid, Store!SetAwaitingProposalCid,
      Safety!SetAwaitingProposalCid, Store!SetDealUID, Safety!SetDealUID, Store!SetProposalCid,
      Safety!SetProposalCid

LEMMA SameCommits ==
  /\ \A a : (Store!Commit(a) <=> Safety!Commit(a)) /\ (Store!Abort(a) <=> Safety!Abort(a))
  /\ Store!Dispatch <=> Safety!Dispatch
  BY SameData, SameWrites DEF Store!Commit, Safety!Commit, Store!Abort, Safety!Abort,
      Store!Dispatch, Safety!Dispatch, Store!NextFindsNothing, Safety!NextFindsNothing,
      Store!NextEnqueues, Safety!NextEnqueues, Store!Wake, Safety!Wake

LEMMA SameWork ==
  \A w : /\ Store!TakeJob(w) <=> Safety!TakeJob(w)
         /\ Store!DropJob(w) <=> Safety!DropJob(w)
         /\ Store!FetchExpired(w) <=> Safety!FetchExpired(w)
         /\ Store!FetchFails(w) <=> Safety!FetchFails(w)
         /\ Store!FetchDone(w) <=> Safety!FetchDone(w)
         /\ Store!ImportFails(w) <=> Safety!ImportFails(w)
         /\ Store!ImportDone(w) <=> Safety!ImportDone(w)
  BY SameData DEF Store!TakeJob, Safety!TakeJob, Store!DropJob, Safety!DropJob, Store!Pointee,
      Safety!Pointee, Store!AttemptCap, Safety!AttemptCap, Store!FetchExpired,
      Safety!FetchExpired, Store!FetchFails, Safety!FetchFails, Store!FetchDone, Safety!FetchDone,
      Store!ImportFails, Safety!ImportFails, Store!ImportDone, Safety!ImportDone, Store!Fail,
      Safety!Fail

LEMMA SameImportBegin == \A w : Store!ImportBegin(w) <=> Safety!ImportBegin(w)
  BY DEF Store!ImportBegin, Safety!ImportBegin, Store!ImportSlot, Safety!ImportSlot,
      Store!Importing, Safety!Importing, Store!Cardinality, Safety!Cardinality

LEMMA SameSaveOutcome ==
  \A w : /\ Store!SaveOutcome(w) <=> Safety!SaveOutcome(w)
         /\ Store!SaveOutcomeFails(w) <=> Safety!SaveOutcomeFails(w)
  BY SameData, SameWrites DEF Store!SaveOutcome, Safety!SaveOutcome, Store!SaveOutcomeFails,
      Safety!SaveOutcomeFails, Store!Release, Safety!Release, Store!Cardinality, Safety!Cardinality

LEMMA SameListed == Store!Discardable = Safety!Discardable
  BY DEF Store!Discardable, Safety!Discardable, Store!Listed, Safety!Listed, Store!Cardinality,
      Safety!Cardinality, Store!Status, Safety!Status, Store!Absent, Safety!Absent

LEMMA SameCollect == Store!Collect <=> Safety!Collect
  BY SameData, SameListed, SameWrites DEF Store!Collect, Safety!Collect, Store!GCList,
      Safety!GCList, Store!GCDelete, Safety!GCDelete

LEMMA SameLife ==
  /\ Store!Start <=> Safety!Start
  /\ \A b : Store!OrphanEnqueue(b) <=> Safety!OrphanEnqueue(b)
  /\ Store!BootCommit <=> Safety!BootCommit
  /\ Store!Close <=> Safety!Close
  /\ Store!BootFails <=> Safety!BootFails
  /\ Store!Exit <=> Safety!Exit
  /\ Store!Crash <=> Safety!Crash
  BY SameData, SameRoom, SameWrites DEF Store!Start, Safety!Start, Store!OrphanEnqueue,
      Safety!OrphanEnqueue, Store!BootCommit, Safety!BootCommit, Store!Close, Safety!Close,
      Store!BootFails, Safety!BootFails, Store!Exit, Safety!Exit, Store!Crash, Safety!Crash,
      Store!Stop, Safety!Stop, Store!Reset, Safety!Reset, Store!Txns, Safety!Txns

-----------------------------------------------------------------------------
(* The two instances of the limiter.                                         *)

LEMMA LimitsAssumed ==
  LET Sizes == {DealSize[b] : b \in Bids}
  IN  /\ Sizes \subseteq Nat \ {0}
      /\ Limit \in Nat /\ Period \in Nat /\ Expiration \in Nat
      /\ Word \in Nat /\ Limit < Word /\ \A n \in Sizes : Limit + n < Word
      /\ MaxLag \in Nat /\ MaxTime \in Nat /\ MaxGrants \in Nat
  BY LimiterAssumption

LEMMA SameTokens == \A list : Limiter!Tokens(list) = Limits!Tokens(list)
  BY DEF Limiter!Tokens, Limits!Tokens, Limiter!Sum, Limits!Sum, Limiter!MapThenSumSet,
      Limits!MapThenSumSet, Limiter!MapThenFoldSet, Limits!MapThenFoldSet

LEMMA SameSums ==
  /\ \A seen : Limiter!Expired(seen) = Limits!Expired(seen)
  /\ \A a, b : Limiter!Minus(a, b) = Limits!Minus(a, b) /\ Limiter!Plus(a, b) = Limits!Plus(a, b)
  /\ \A a, b : Limiter!Fits(a, b) <=> Limits!Fits(a, b)
  BY DEF Limiter!Expired, Limits!Expired, Limiter!Fits, Limits!Fits, Limiter!Minus, Limits!Minus,
      Limiter!Plus, Limits!Plus

LEMMA SameRequest == \A b, n : Limiter!Request(b, n) <=> Limits!Request(b, n)
  BY SameTokens, SameSums, Zenon DEF Limiter!Request, Limits!Request

LEMMA SameCalls ==
  /\ \A b : /\ Limiter!Requested(b) <=> Limits!Requested(b)
            /\ Limiter!Secure(b) <=> Limits!Secure(b)
            /\ Limiter!Commit(b) <=> Limits!Commit(b)
            /\ Limiter!Withdraw(b) <=> Limits!Withdraw(b)
  /\ \A t : /\ Limiter!Fire(t) <=> Limits!Fire(t)
            /\ Limiter!Expire(t) <=> Limits!Expire(t)
  /\ Limiter!Tick <=> Limits!Tick
  /\ Limiter!Init <=> Limits!Init
  /\ Limiter!NoRequest = Limits!NoRequest
  BY DEF Limiter!Requested, Limits!Requested, Limiter!Secure, Limits!Secure, Limiter!Stopped,
      Limits!Stopped, Limiter!Commit, Limits!Commit, Limiter!Withdraw, Limits!Withdraw,
      Limiter!Drop, Limits!Drop, Limiter!Without, Limits!Without, Limiter!Minus, Limits!Minus,
      Limiter!Fire, Limits!Fire, Limiter!Expire, Limits!Expire, Limiter!Tick, Limits!Tick,
      Limiter!Init, Limits!Init, Limiter!NoRequest, Limits!NoRequest
-----------------------------------------------------------------------------
(* The handlers: a handler at work has the bid it was sent, and the           *)
(* transaction of a proposal is open exactly while it waits to commit.        *)

HandlersOK ==
  /\ bidder \in [Bids -> {"none", "publishing", "published", "saved", "gave_up"}]
  /\ known \in SUBSET Bids /\ won \in SUBSET known
  /\ winner \in [Winners -> [pc: {"free", "validating"}, bid: Bids \cup {0}]]
  /\ \A v \in Winners : winner[v].pc = "validating" => winner[v].bid \in known
  /\ proposer \in [Handlers -> [pc: {"free", "committing", "securing"}, bid: Bids \cup {0}]]
  /\ \A h \in Handlers : proposer[h].pc # "free" => proposer[h].bid \in won
  /\ \A h \in Handlers :
       txn[h].reads = IF proposer[h].pc = "committing" THEN {proposer[h].bid} ELSE {}

\* The steps of the store that no handler takes.
StoreQuiet ==
  \/ \E w \in Workers : \/ Safety!TakeJob(w)     \/ Safety!DropJob(w)
                        \/ Safety!FetchDone(w)
                        \/ Safety!ImportBegin(w) \/ Safety!SaveOutcome(w)
  \/ Safety!Commit("next") \/ Safety!Abort("next") \/ Safety!Dispatch
  \/ Safety!Collect
  \/ Safety!Start \/ Safety!BootCommit \/ Safety!Close
  \/ \E b \in Bids : Safety!OrphanEnqueue(b)

LEMMA SameAlone ==
  StoreAlone <=> StoreQuiet /\ UNCHANGED <<limiterVars, bidderVars, handlerVars, historyVars>>
  BY SameWork, SameImportBegin, SameSaveOutcome, SameCommits, SameCollect, SameLife
  DEF StoreAlone, StoreQuiet


LEMMA BidMoves ==
  ASSUME NEW b \in Bids, Bid(b)
  PROVE  /\ Safety!SaveBid(b) \/ UNCHANGED storeVars
         /\ UNCHANGED <<limiterVars, handlerVars, historyVars>>
         /\ known' = known \/ known' = known \cup {b}
         /\ \E pc \in {"publishing", "published", "saved", "gave_up"} :
              bidder' = [bidder EXCEPT ![b] = pc]
  BY SameMessages DEF Bid, AuctionsHandler, PublishBid, PublishFails, BidAcknowledged, bidderVars
\* Steps in which no proposal is handled.
LEMMA HandlersElsewhere ==
  ASSUME HandlersOK, UNCHANGED proposer, \A h \in Handlers : txn'[h].reads = txn[h].reads,
         bidder' \in [Bids -> {"none", "publishing", "published", "saved", "gave_up"}],
         known' \in SUBSET Bids, won' \in SUBSET known', won \subseteq won',
         winner' \in [Winners -> [pc: {"free", "validating"}, bid: Bids \cup {0}]],
         \A v \in Winners : winner'[v].pc = "validating" => winner'[v].bid \in known'
  PROVE  HandlersOK'
<1>1. \A h \in Handlers : proposer'[h].pc # "free" => proposer'[h].bid \in won'
  BY DEF HandlersOK
<1>2. \A h \in Handlers :
        txn'[h].reads = IF proposer'[h].pc = "committing" THEN {proposer'[h].bid} ELSE {}
  BY DEF HandlersOK
<1> QED  BY <1>1, <1>2 DEF HandlersOK

LEMMA HandlersBid == ASSUME Safety!Inv, HandlersOK, NEW b \in Bids, Bid(b) PROVE HandlersOK'
<1>1. /\ Safety!SaveBid(b) \/ UNCHANGED storeVars
      /\ UNCHANGED <<limiterVars, handlerVars, historyVars>>
      /\ known' = known \/ known' = known \cup {b}
  BY BidMoves
<1>2. bidder' \in [Bids -> {"none", "publishing", "published", "saved", "gave_up"}]
  BY BidMoves DEF HandlersOK
<1>3. \A h \in Handlers : txn'[h].reads = txn[h].reads
  BY <1>1, StoreAssumptions, Safety!ReadsKept DEF storeVars
<1> QED  BY <1>1, <1>2, <1>3, HandlersElsewhere DEF HandlersOK, handlerVars

LEMMA HandlersWin == ASSUME Safety!Inv, HandlersOK, NEW v \in Winners, WinsHandler(v) PROVE HandlersOK'
<1>1. \A h \in Handlers : txn'[h].reads = txn[h].reads
  <2>1. CASE WinAccepted(v)
    <3>1. winner[v].bid \in Bids  BY <2>1 DEF WinAccepted, HandlersOK
    <3>2. Safety!SetAwaitingProposalCid(winner[v].bid) \/ UNCHANGED storeVars
      BY <2>1, SameMessages DEF WinAccepted
    <3> QED  BY <3>1, <3>2, StoreAssumptions, Safety!ReadsKept DEF storeVars
  <2>2. CASE ~WinAccepted(v)
    BY <2>2 DEF WinsHandler, WinRequest, WinInvalid, WinRefused, storeVars
  <2> QED  BY <2>1, <2>2
<1>2. UNCHANGED <<bidder, known, proposer>>
  BY DEF WinsHandler, WinRequest, WinInvalid, WinAccepted, WinRefused, bidderVars
<1>3. CASE winner' = [winner EXCEPT ![v] = Free]
  <2>1. winner' \in [Winners -> [pc: {"free", "validating"}, bid: Bids \cup {0}]]
    BY <1>3 DEF HandlersOK, Free
  <2>2. \A u \in Winners : winner'[u].pc = "validating" => winner'[u].bid \in known'
    BY <1>2, <1>3 DEF HandlersOK, Free
  <2>3. won' = won \/ (won' = won \cup {winner[v].bid} /\ winner[v].pc = "validating")
    BY DEF WinsHandler, WinRequest, WinInvalid, WinAccepted, WinRefused
  <2>4. won' \in SUBSET known' /\ won \subseteq won'  BY <1>2, <2>3 DEF HandlersOK
  <2> QED  BY <1>1, <1>2, <2>1, <2>2, <2>4, HandlersElsewhere DEF HandlersOK
<1>4. CASE \E b \in known : winner' = [winner EXCEPT ![v] = [pc |-> "validating", bid |-> b]] /\ won' = won
  <2>1. winner' \in [Winners -> [pc: {"free", "validating"}, bid: Bids \cup {0}]]
    BY <1>4 DEF HandlersOK
  <2>2. \A u \in Winners : winner'[u].pc = "validating" => winner'[u].bid \in known'
    BY <1>2, <1>4 DEF HandlersOK
  <2> QED  BY <1>1, <1>2, <1>4, <2>1, <2>2, HandlersElsewhere DEF HandlersOK
<1>5. CASE winner' = winner /\ won' = won
  BY <1>1, <1>2, <1>5, HandlersElsewhere DEF HandlersOK
<1> QED  BY <1>3, <1>4, <1>5 DEF WinsHandler, WinRequest, WinInvalid, WinAccepted, WinRefused
\* One handler moves on: with its transaction, if it has one.
LEMMA HandlersMove ==
  ASSUME HandlersOK, NEW h \in Handlers, UNCHANGED <<bidder, known, won, winner>>,
         NEW pc \in {"free", "committing", "securing"}, NEW b \in Bids \cup {0}, pc # "free" => b \in won,
         proposer' = [proposer EXCEPT ![h] = [pc |-> pc, bid |-> b]],
         \A a \in Handlers \ {h} : txn'[a].reads = txn[a].reads,
         txn'[h].reads = IF pc = "committing" THEN {b} ELSE {}
  PROVE  HandlersOK'
<1>1. /\ proposer' \in [Handlers -> [pc: {"free", "committing", "securing"}, bid: Bids \cup {0}]]
      /\ proposer'[h] = [pc |-> pc, bid |-> b]
      /\ \A a \in Handlers \ {h} : proposer'[a] = proposer[a]
  BY DEF HandlersOK
<1>2. \A a \in Handlers : proposer'[a].pc # "free" => proposer'[a].bid \in won'
  BY <1>1 DEF HandlersOK
<1>3. ASSUME NEW a \in Handlers
      PROVE  txn'[a].reads = IF proposer'[a].pc = "committing" THEN {proposer'[a].bid} ELSE {}
  BY <1>1 DEF HandlersOK
<1> QED  BY <1>1, <1>2, <1>3 DEF HandlersOK

LEMMA HandlersProposal ==
  ASSUME Safety!Inv, HandlersOK, NEW h \in Handlers, ProposalsHandler(h) PROVE HandlersOK'
<1>1. UNCHANGED <<bidder, known, won, winner>>
  BY DEF ProposalsHandler, ProposalDealUID, ProposalCid, ProposalRepeated, ProposalCommits,
         ProposalAborts, ProposalSecures, bidderVars
<1>2. txn[h].reads = IF proposer[h].pc = "committing" THEN {proposer[h].bid} ELSE {}
  BY DEF HandlersOK
<1>3. ASSUME NEW b \in Bids, ProposalDealUID(h, b) \/ ProposalRepeated(h, b) PROVE HandlersOK'
  <2>1. /\ proposer[h].pc = "free" /\ b \in won
        /\ proposer' = [proposer EXCEPT ![h] = [pc |-> "securing", bid |-> b]]
    BY <1>3 DEF ProposalDealUID, ProposalRepeated, Propose
  <2>2. Safety!SetDealUID(b) \/ UNCHANGED storeVars
    BY <1>3, SameMessages DEF ProposalDealUID, ProposalRepeated
  <2>3. \A a \in Handlers : txn'[a].reads = txn[a].reads
    BY <2>2, StoreAssumptions, Safety!ReadsKept DEF storeVars
  <2> QED  BY <1>1, <1>2, <2>1, <2>3, HandlersMove
<1>4. ASSUME NEW b \in Bids, ProposalCid(h, b) PROVE HandlersOK'
  <2>1. /\ b \in won /\ Safety!SetProposalCid(h, b)
        /\ proposer' = [proposer EXCEPT ![h] = [pc |-> "committing", bid |-> b]]
    BY <1>4, SameMessages DEF ProposalCid, Propose
  <2>2. /\ \A a \in Handlers \ {h} : txn'[a].reads = txn[a].reads
        /\ txn'[h].reads = {b}
    BY <2>1, StoreAssumptions, Safety!ReadsKept, Safety!ReadsMoved
  <2> QED  BY <1>1, <2>1, <2>2, HandlersMove
<1>5. CASE ProposalCommits(h) \/ ProposalAborts(h)
  <2>1. Safety!Commit(h) \/ Safety!Abort(h)
    BY <1>5, SameCommits DEF ProposalCommits, ProposalAborts
  <2>2. /\ \A a \in Handlers \ {h} : txn'[a].reads = txn[a].reads
        /\ txn'[h].reads = {}
    BY <2>1, StoreAssumptions, Safety!ReadsKept, Safety!ReadsMoved
  <2>3. CASE ProposalCommits(h)
    <3>1. /\ proposer[h].bid \in won
          /\ proposer' = [proposer EXCEPT ![h] = [pc |-> "securing", bid |-> proposer[h].bid]]
      BY <2>3 DEF ProposalCommits, Propose, HandlersOK
    <3>2. proposer[h].bid \in Bids \cup {0}  BY DEF HandlersOK
    <3> QED  BY <1>1, <2>2, <3>1, <3>2, HandlersMove
  <2>4. CASE ProposalAborts(h)
    <3>1. proposer' = [proposer EXCEPT ![h] = [pc |-> "free", bid |-> 0]]
      BY <2>4 DEF ProposalAborts, Free
    <3> QED  BY <1>1, <2>2, <3>1, HandlersMove
  <2> QED  BY <1>5, <2>3, <2>4
<1>6. CASE ProposalSecures(h)
  <2>1. proposer[h].pc = "securing" /\ UNCHANGED storeVars
        /\ proposer' = [proposer EXCEPT ![h] = [pc |-> "free", bid |-> 0]]
    BY <1>6 DEF ProposalSecures, Free
  <2>2. \A a \in Handlers : txn'[a].reads = txn[a].reads  BY <2>1 DEF storeVars
  <2> QED  BY <1>1, <1>2, <2>1, <2>2, HandlersMove
<1> QED  BY <1>3, <1>4, <1>5, <1>6 DEF ProposalsHandler

LEMMA HandlersStore ==
  ASSUME Safety!Inv, HandlersOK,
         \/ \E w \in Workers : FetchSucceeds(w) \/ FetchGoesWrong(w) \/ OutcomeUnsaved(w)
         \/ StoreAlone \/ Clock \/ \E t \in DOMAIN timers : QuotaExpires(t)
  PROVE  HandlersOK'
<1>1. UNCHANGED <<bidder, known, won, winner, proposer>>
  BY DEF FetchSucceeds, FetchGoesWrong, OutcomeUnsaved, StoreAlone, Clock, QuotaExpires, bidderVars,
         handlerVars
<1>2. ASSUME NEW h \in Handlers PROVE txn'[h].reads = txn[h].reads
  <2>1. CASE \E w \in Workers : FetchSucceeds(w) \/ FetchGoesWrong(w) \/ OutcomeUnsaved(w)
    <3>1. \E w \in Workers : Safety!Fetch(w)
      BY <2>1, SameWork, SameSaveOutcome DEF FetchSucceeds, FetchGoesWrong, OutcomeUnsaved, Safety!Fetch
    <3> QED  BY <3>1, StoreAssumptions, Safety!ReadsKept
  <2>2. CASE StoreAlone
    <3>1. \/ \E b \in Bids : Safety!OrphanEnqueue(b)
          \/ Safety!Commit("next") \/ Safety!Abort("next") \/ Safety!Dispatch
          \/ Safety!Collect \/ Safety!Start \/ Safety!BootCommit \/ Safety!Close
          \/ \E w \in Workers : Safety!Fetch(w)
      BY <2>2, SameAlone DEF StoreQuiet, Safety!Fetch
    <3> QED  BY <3>1, StoreAssumptions, Safety!ReadsKept
  <2>3. CASE Clock \/ \E t \in DOMAIN timers : QuotaExpires(t)
    BY <2>3 DEF Clock, QuotaExpires, storeVars
  <2> QED  BY <2>1, <2>2, <2>3
<1> QED  BY <1>1, <1>2, HandlersElsewhere DEF HandlersOK

LEMMA HandlersStop == ASSUME Safety!Inv, HandlersOK, Stop PROVE HandlersOK'
<1>1. \A h \in Handlers : txn'[h].reads = {}
  BY SameLife, StoreAssumptions, Safety!ReadsMoved DEF Stop
<1>2. UNCHANGED <<known, won>> /\ winner' = [v \in Winners |-> Free]
      /\ proposer' = [h \in Handlers |-> Free]
      /\ bidder' \in [Bids -> {"none", "publishing", "published", "saved", "gave_up"}]
  BY DEF Stop, HandlersOK
<1> QED  BY <1>1, <1>2 DEF HandlersOK, Free

LEMMA HandlersNext == ASSUME Safety!Inv, HandlersOK, [Next]_vars PROVE HandlersOK'
<1>1. CASE UNCHANGED vars
  BY <1>1 DEF vars, storeVars, bidderVars, handlerVars, HandlersOK
<1>2. CASE Next
  BY <1>2, HandlersBid, HandlersWin, HandlersProposal, HandlersStore, HandlersStop DEF Next
<1> QED  BY <1>1, <1>2
-----------------------------------------------------------------------------
(* What a step of the service is to the store and to the limiter.            *)

LEMMA StoreMoves ==
  ASSUME HandlersOK, Next PROVE Safety!Next \/ UNCHANGED Safety!vars
<1> USE DEF Safety!Next, Safety!Messages, Safety!Transactions, Safety!Fetch, Safety!Boot, Safety!vars
<1>1. ASSUME NEW b \in Bids, Bid(b) PROVE Safety!Next \/ UNCHANGED Safety!vars
  BY <1>1, BidMoves DEF storeVars
<1>2. ASSUME NEW v \in Winners, WinsHandler(v) PROVE Safety!Next \/ UNCHANGED Safety!vars
  <2>1. CASE WinAccepted(v)
    <3>1. winner[v].bid \in Bids  BY <2>1 DEF WinAccepted, HandlersOK
    <3> QED  BY <2>1, <3>1, SameMessages DEF WinAccepted, storeVars
  <2> QED  BY <1>2, <2>1 DEF WinsHandler, WinRequest, WinInvalid, WinRefused, storeVars
<1>3. ASSUME NEW h \in Handlers, ProposalsHandler(h) PROVE Safety!Next \/ UNCHANGED Safety!vars
  BY <1>3, SameMessages, SameCommits
  DEF ProposalsHandler, ProposalDealUID, ProposalCid, ProposalRepeated, ProposalCommits,
      ProposalAborts, ProposalSecures, storeVars
<1>4. ASSUME NEW w \in Workers, FetchSucceeds(w) \/ FetchGoesWrong(w) \/ OutcomeUnsaved(w)
      PROVE  Safety!Next
  BY <1>4, SameWork, SameSaveOutcome DEF FetchSucceeds, FetchGoesWrong, OutcomeUnsaved
<1>5. CASE StoreAlone  BY <1>5, SameAlone DEF StoreQuiet
<1>6. CASE Clock \/ \E t \in DOMAIN timers : QuotaExpires(t)
  BY <1>6 DEF Clock, QuotaExpires, storeVars
<1>7. CASE Stop  BY <1>7, SameLife DEF Stop
<1> QED  BY <1>1, <1>2, <1>3, <1>4, <1>5, <1>6, <1>7 DEF Next

\* The bid of a worker at work is one of Bids.
LEMMA WorkerHasBid ==
  ASSUME Safety!Inv, NEW w \in Workers
  PROVE  Safety!WorkerBid(w) = Store!WorkerBid(w) /\ Safety!WorkerBid(w).id \in Bids
  BY SameData DEF Safety!Inv, Safety!TypeOK, Safety!Job, Safety!BidRecord, Safety!WorkerBid, Safety!Pointee

LEMMA LimiterMoves ==
  ASSUME Safety!Inv, HandlersOK, Next
  PROVE  Limits!Next \/ UNCHANGED Limits!vars \/ NewRunningTotalLimiter
<1> USE DEF Limits!Next, Limits!Call, Limits!vars
<1>1. ASSUME NEW b \in Bids, CommitQuota(b) \/ WithdrawQuota(b) \/ SecureQuota(b)
      PROVE  Limits!Next \/ UNCHANGED Limits!vars
  BY <1>1, SameCalls DEF CommitQuota, WithdrawQuota, SecureQuota, limiterVars
<1>2. ASSUME NEW v \in Winners, WinsHandler(v) PROVE Limits!Next \/ UNCHANGED Limits!vars
  <2>1. ASSUME NEW b \in Bids, WinRequest(v, b) PROVE Limits!Next
    <3>1. Limits!Request(b, DealSize[b])  BY <2>1, SameRequest DEF WinRequest
    <3> QED  BY <3>1
  <2> QED  BY <1>2, <2>1 DEF WinsHandler, WinInvalid, WinAccepted, WinRefused, limiterVars
<1>3. ASSUME NEW h \in Handlers, ProposalsHandler(h) PROVE Limits!Next \/ UNCHANGED Limits!vars
  <2>1. CASE ProposalSecures(h)
    <3>1. proposer[h].bid \in Bids  BY <2>1 DEF ProposalSecures, HandlersOK
    <3> QED  BY <1>1, <2>1, <3>1 DEF ProposalSecures
  <2> QED
    BY <1>3, <2>1
    DEF ProposalsHandler, ProposalDealUID, ProposalCid, ProposalRepeated, ProposalCommits,
        ProposalAborts, limiterVars
<1>4. ASSUME NEW w \in Workers, FetchSucceeds(w) \/ FetchGoesWrong(w) \/ OutcomeUnsaved(w)
      PROVE  Limits!Next \/ UNCHANGED Limits!vars
  <2>1. Store!WorkerBid(w).id \in Bids  BY WorkerHasBid
  <2> QED  BY <1>1, <1>4, <2>1 DEF FetchSucceeds, FetchGoesWrong, OutcomeUnsaved, limiterVars
<1>5. ASSUME NEW b \in Bids, Bid(b) PROVE UNCHANGED Limits!vars  BY <1>5, BidMoves DEF limiterVars
<1>6. CASE StoreAlone  BY <1>6 DEF StoreAlone, limiterVars
<1>7. CASE Clock  BY <1>7, SameCalls DEF Clock
<1>8. CASE \E t \in DOMAIN timers : QuotaExpires(t)  BY <1>8, SameCalls DEF QuotaExpires
<1>9. CASE Stop  BY <1>9 DEF Stop
<1> QED  BY <1>1, <1>2, <1>3, <1>4, <1>5, <1>6, <1>7, <1>8, <1>9 DEF Next

-----------------------------------------------------------------------------
(* The parts of the service stay in order together.                          *)

PartsOK == Safety!Inv /\ Limits!Inv /\ HandlersOK

LEMMA PartsInit == ASSUME Init PROVE PartsOK
<1>1. Safety!Inv  BY SameInit, StoreAssumptions, Safety!InvInit DEF Init
<1>2. Limits!Inv  BY SameCalls, LimitsAssumed, Limits!InvInit DEF Init
<1>3. HandlersOK
  <2>1. \A h \in Handlers : txn[h].reads = {}
    BY SameInit DEF Init, Safety!Init, Safety!Txns, Safety!Closed
  <2> QED  BY <2>1 DEF Init, HandlersOK, Free
<1> QED  BY <1>1, <1>2, <1>3 DEF PartsOK

LEMMA PartsNext == ASSUME PartsOK, [Next]_vars PROVE PartsOK'
<1>1. Safety!Next \/ UNCHANGED Safety!vars
  BY StoreMoves DEF PartsOK, vars, storeVars, Safety!vars
<1>2. Safety!Inv'  BY <1>1, StoreAssumptions, Safety!InvNext DEF PartsOK
<1>3. Limits!Next \/ UNCHANGED Limits!vars \/ NewRunningTotalLimiter
  BY LimiterMoves DEF PartsOK, vars, limiterVars, Limits!vars
<1>4. ASSUME Limits!Next \/ UNCHANGED Limits!vars PROVE Limits!Inv'
  BY <1>4, LimitsAssumed, Limits!InvNext DEF PartsOK
<1>5. ASSUME NewRunningTotalLimiter PROVE Limits!Inv'
  BY <1>5, LimitsAssumed, SameCalls, Limits!InvReset DEF PartsOK, NewRunningTotalLimiter
<1>6. Limits!Inv'  BY <1>3, <1>4, <1>5
<1>7. HandlersOK'  BY HandlersNext DEF PartsOK
<1> QED  BY <1>2, <1>6, <1>7 DEF PartsOK

LEMMA PartsHold == Spec => []PartsOK
  BY PartsInit, PartsNext, PTL DEF Spec

\* The handlers' variables keep their types, and a proposal's transaction is
\* open exactly while its handler waits to commit it, whatever the workers, GC
\* and the end of the process do to the transactions meanwhile.
THEOREM ServiceTypes == Spec => []TypeOK
<1>1. PartsOK => TypeOK
  BY SameData DEF PartsOK, HandlersOK, TypeOK, Safety!Open
<1> QED  BY <1>1, PartsHold, PTL

\* Every behaviour of the service is one of the store: the handlers call it
\* only as its own specification allows, so all its theorems hold here.
THEOREM ServiceUsesStore == Spec => Safety!Spec
<1>1. Init => Safety!Init  BY SameInit DEF Init
<1>2. ASSUME PartsOK, [Next]_vars PROVE [Safety!Next]_Safety!vars
  BY <1>2, StoreMoves DEF PartsOK, vars, storeVars, Safety!vars
<1> QED  BY <1>1, <1>2, PartsHold, PTL DEF Spec, Safety!Spec

\* In the service too the limiter loses no token and caps every window of a
\* process: the handlers and the workers call it in no order it cannot bear,
\* and a new process starts it afresh while old timers are dead.
THEOREM ServiceUsesLimiter ==
  Spec => [](Limits!TimersOwned /\ Limits!Accounting /\ Limits!WindowCapped)
<1>1. PartsOK => Limits!TimersOwned /\ Limits!Accounting /\ Limits!WindowCapped
  BY DEF PartsOK, Limits!Inv, Limits!Owned, Limits!OwnedBy, Limits!TimersOwned, Limits!Books
<1> QED  BY <1>1, PartsHold, PTL

-----------------------------------------------------------------------------
(* The quota of a bid.                                                       *)

Requested(b)  == requested[b].t # 0
Armed(b)      == Requested(b) /\ timers[requested[b].t].state = "armed"
Securing(b)   == \E h \in Handlers : proposer[h] = [pc |-> "securing", bid |-> b]
Validating(b) == \E v \in Winners : winner[v] = [pc |-> "validating", bid |-> b]
Accepted(b)   == b \in won \/ Validating(b)

\* What the quota of a bid has to do with its download: it is requested from
\* the win to the outcome, it cannot expire once a handler has secured it, and
\* an outcome settles it.
QuotaOK(b) ==
  /\ Armed(b) /\ Safety!ToDownload(b) => Securing(b)
  /\ Accepted(b) /\ b \notin lapsed => Requested(b) \/ Safety!Ended(b)
  /\ Safety!Imported(b) => b \in counted \cup lapsed
  /\ Safety!Imported(b) \/ Safety!GivenUp(b) => ~Requested(b)
  /\ Requested(b) => requested[b].n = DealSize[b]

\* Only bids that were won are downloaded.
BidQuotaOK(b) ==
  /\ Safety!ToDownload(b) => b \in won
  /\ b \notin rewon => QuotaOK(b)

Quota == \A b \in Bids \ raced : BidQuotaOK(b)

\* Steps after which b has no more to answer for than before.
LEMMA QuotaFrame ==
  ASSUME NEW b, BidQuotaOK(b), Safety!Quiet(b),
         \/ (Safety!ToDownload(b)' => Safety!ToDownload(b)) /\ (Securing(b) => Securing(b)')
         \/ Securing(b)' /\ b \in won,
         requested'[b] = requested[b], Armed(b)' => Armed(b), Accepted(b)' => Accepted(b),
         won \subseteq won', rewon \subseteq rewon', counted \subseteq counted', lapsed \subseteq lapsed'
  PROVE  BidQuotaOK(b)'
<1>1. Requested(b)' <=> Requested(b)  BY DEF Requested
<1>2. Safety!ToDownload(b)' => b \in won'  BY DEF BidQuotaOK
<1>3. b \notin rewon' => QuotaOK(b)'
  BY <1>1 DEF BidQuotaOK, QuotaOK, Safety!Quiet
<1> QED  BY <1>2, <1>3 DEF BidQuotaOK

\* The bids of the limiter's requests.
LEMMA QuotaTypes ==
  ASSUME Limits!Inv
  PROVE  /\ requested \in [Bids -> [n: {DealSize[b] : b \in Bids} \cup {0}, t: Nat]]
         /\ timers \in Seq([id: Bids, at: Nat, state: Limits!TimerStates])
         /\ \A b \in Bids : Requested(b) => requested[b].t \in DOMAIN timers
                                            /\ timers[requested[b].t].id = b
         /\ \A b : (Limiter!Requested(b) <=> Requested(b)) /\ (Limits!Requested(b) <=> Requested(b))
  BY DEF Limits!Inv, Limits!Owned, Limits!Typed, Limits!OwnedBy, Limits!Requested, Limiter!Requested,
         Requested

LEMMA StoreSteady ==
  ASSUME PartsOK, Safety!QuietStep \/ UNCHANGED storeVars, NEW c \in Bids, c \notin raced'
  PROVE  Safety!Steady(c)
<1>1. CASE Safety!QuietStep
  BY <1>1, StoreAssumptions, Safety!SteadyStep DEF PartsOK
<1>2. CASE UNCHANGED storeVars
  <2>1. UNCHANGED <<worker, cell>> /\ db'[c] = db[c]  BY <1>2 DEF storeVars
  <2>2. Safety!Outcomes(c)' = Safety!Outcomes(c)  BY <2>1, StoreAssumptions, Safety!OutcomesKept
  <2> QED  BY <2>1, <2>2, StoreAssumptions, Safety!SteadyKept
<1> QED  BY <1>1, <1>2

LEMMA RacedKept == ASSUME PartsOK, [Next]_vars PROVE raced \subseteq raced'
  BY StoreMoves, StoreAssumptions, Safety!RacedGrows DEF PartsOK, vars, storeVars, Safety!vars

\* Steps that leave quotas alone, and the downloads as far as they have come.
LEMMA QuotaCalm ==
  ASSUME PartsOK, Quota, [Next]_vars, Safety!QuietStep \/ UNCHANGED storeVars,
         UNCHANGED <<limiterVars, historyVars>>, won \subseteq won',
         \A c \in Bids : (Securing(c) => Securing(c)') /\ (Accepted(c)' => Accepted(c))
  PROVE  Quota'
<1> SUFFICES ASSUME NEW c \in Bids, c \notin raced' PROVE BidQuotaOK(c)'
  BY DEF Quota
<1>1. BidQuotaOK(c)  BY RacedKept DEF Quota
<1>2. Safety!Steady(c)  BY StoreSteady
<1>3. requested'[c] = requested[c] /\ (Armed(c)' => Armed(c))
  BY DEF limiterVars, Armed, Requested
<1> QED  BY <1>1, <1>2, <1>3, QuotaFrame DEF Safety!Steady, historyVars

\* A handler that begins or finishes something else keeps the others' bids.
LEMMA SecuringKept ==
  ASSUME HandlersOK, NEW h \in Handlers, proposer[h].pc # "securing", NEW p,
         proposer' = [proposer EXCEPT ![h] = p], NEW c, Securing(c)
  PROVE  Securing(c)'
<1>1. PICK a \in Handlers : proposer[a] = [pc |-> "securing", bid |-> c]  BY DEF Securing
<1>2. proposer'[a] = proposer[a]  BY <1>1 DEF HandlersOK
<1> QED  BY <1>1, <1>2 DEF Securing

LEMMA AcceptedKept ==
  ASSUME HandlersOK, NEW v \in Winners, winner' = [winner EXCEPT ![v] = Free],
         won' = won \/ (won' = won \cup {winner[v].bid} /\ winner[v].pc = "validating"),
         NEW c, Accepted(c)'
  PROVE  Accepted(c)
<1>1. CASE c \in won'
  <2>1. winner[v] = [pc |-> winner[v].pc, bid |-> winner[v].bid]  BY DEF HandlersOK
  <2> QED  BY <1>1, <2>1 DEF Accepted, Validating
<1>2. CASE c \notin won'
  <2>1. PICK u \in Winners : winner'[u] = [pc |-> "validating", bid |-> c]
    BY <1>2 DEF Accepted, Validating
  <2>2. u # v /\ winner'[u] = winner[u]  BY <2>1 DEF HandlersOK, Free
  <2> QED  BY <2>1, <2>2 DEF Accepted, Validating
<1> QED  BY <1>1, <1>2

LEMMA QuotaBid == ASSUME PartsOK, Quota, NEW b \in Bids, Bid(b) PROVE Quota'
<1>1. Safety!QuietStep \/ UNCHANGED storeVars  BY BidMoves DEF Safety!QuietStep
<1>2. UNCHANGED <<limiterVars, handlerVars, historyVars>>  BY BidMoves
<1>3. \A c \in Bids : (Securing(c) => Securing(c)') /\ (Accepted(c)' => Accepted(c))
  BY <1>2 DEF handlerVars, Securing, Accepted, Validating
<1>4. Next  BY DEF Next
<1> QED  BY <1>1, <1>2, <1>3, <1>4, QuotaCalm DEF handlerVars

LEMMA QuotaStoreAlone == ASSUME PartsOK, Quota, StoreAlone PROVE Quota'
<1>1. /\ StoreQuiet /\ UNCHANGED <<limiterVars, handlerVars, historyVars>>
  BY SameAlone
<1>2. Safety!QuietStep  BY <1>1 DEF StoreQuiet, Safety!QuietStep, Safety!Owners
<1>3. \A c \in Bids : (Securing(c) => Securing(c)') /\ (Accepted(c)' => Accepted(c))
  BY <1>1 DEF handlerVars, Securing, Accepted, Validating
<1>4. Next  BY DEF Next
<1> QED  BY <1>1, <1>2, <1>3, <1>4, QuotaCalm DEF handlerVars

LEMMA QuotaWinEnds ==
  ASSUME PartsOK, Quota, NEW v \in Winners, WinInvalid(v) \/ WinAccepted(v) \/ WinRefused(v)
  PROVE  Quota'
<1>1. HandlersOK  BY DEF PartsOK
<1>2. Safety!QuietStep \/ UNCHANGED storeVars
  <2>1. winner[v].bid \in Bids
    BY <1>1 DEF HandlersOK, WinInvalid, WinAccepted, WinRefused
  <2> QED  BY <2>1, SameMessages DEF WinInvalid, WinAccepted, WinRefused, Safety!QuietStep
<1>3. /\ UNCHANGED <<limiterVars, historyVars, proposer>> /\ winner' = [winner EXCEPT ![v] = Free]
      /\ won' = won \/ (won' = won \cup {winner[v].bid} /\ winner[v].pc = "validating")
  BY DEF WinInvalid, WinAccepted, WinRefused
<1>4. \A c \in Bids : (Securing(c) => Securing(c)') /\ (Accepted(c)' => Accepted(c))
  BY <1>1, <1>3, AcceptedKept DEF Securing
<1>5. Next  BY DEF Next, WinsHandler
<1> QED  BY <1>2, <1>3, <1>4, <1>5, QuotaCalm
LEMMA QuotaProposalBegins ==
  ASSUME PartsOK, Quota, NEW h \in Handlers,
         ProposalAborts(h) \/ \E b \in Bids : ProposalDealUID(h, b) \/ ProposalCid(h, b) \/ ProposalRepeated(h, b)
  PROVE  Quota'
<1>1. HandlersOK  BY DEF PartsOK
<1>2. Safety!QuietStep \/ UNCHANGED storeVars
  BY SameMessages, SameCommits
  DEF ProposalAborts, ProposalDealUID, ProposalCid, ProposalRepeated, Safety!QuietStep, Safety!Owners
<1>3. /\ UNCHANGED <<limiterVars, historyVars, won, winner>>
      /\ proposer[h].pc # "securing" /\ \E p : proposer' = [proposer EXCEPT ![h] = p]
  BY DEF ProposalAborts, ProposalDealUID, ProposalCid, ProposalRepeated, Propose
<1>4. \A c \in Bids : (Securing(c) => Securing(c)') /\ (Accepted(c)' => Accepted(c))
  BY <1>1, <1>3, SecuringKept DEF Accepted, Validating
<1>5. Next  BY DEF Next, ProposalsHandler
<1> QED  BY <1>2, <1>3, <1>4, <1>5, QuotaCalm

\* The store has accepted the proposal: now the quota is to be secured.
LEMMA QuotaProposalCommits == ASSUME PartsOK, Quota, NEW h \in Handlers, ProposalCommits(h) PROVE Quota'
<1> DEFINE b == proposer[h].bid
<1>1. HandlersOK /\ Safety!Inv  BY DEF PartsOK
<1>2. /\ proposer[h].pc = "committing" /\ Safety!Commit(h)
      /\ proposer' = [proposer EXCEPT ![h] = [pc |-> "securing", bid |-> b]]
      /\ UNCHANGED <<limiterVars, historyVars, won, winner>>
  BY SameCommits DEF ProposalCommits, Propose
<1>3. b \in won /\ txn[h].reads = {b}  BY <1>1, <1>2 DEF HandlersOK
<1>4. Next  BY DEF Next, ProposalsHandler
<1> SUFFICES ASSUME NEW c \in Bids, c \notin raced' PROVE BidQuotaOK(c)'
  BY DEF Quota
<1>5. BidQuotaOK(c)  BY <1>4, RacedKept DEF Quota
<1>6. Safety!Quiet(c) /\ (c # b => Safety!Steady(c))
  BY <1>1, <1>2, <1>3, StoreAssumptions, Safety!SteadyCommit DEF Safety!Owners
<1>7. requested'[c] = requested[c] /\ (Armed(c)' => Armed(c)) /\ (Accepted(c)' => Accepted(c))
  BY <1>2 DEF limiterVars, Armed, Requested, Accepted, Validating
<1>8. c = b => Securing(c)' /\ c \in won
  <2>1. proposer'[h] = [pc |-> "securing", bid |-> b]  BY <1>1, <1>2 DEF HandlersOK
  <2> QED  BY <1>3, <2>1 DEF Securing
<1>9. c # b => (Securing(c) => Securing(c)') /\ (Safety!ToDownload(c)' => Safety!ToDownload(c))
  BY <1>1, <1>2, <1>6, SecuringKept DEF Safety!Steady
<1> QED  BY <1>2, <1>5, <1>6, <1>7, <1>8, <1>9, QuotaFrame DEF historyVars

\* Secure stops the timer of the bid, and no other.
LEMMA SecureStops ==
  ASSUME Limits!Inv, NEW b \in Bids, SecureQuota(b)
  PROVE  /\ requested' = requested
         /\ ~Armed(b)'
         /\ \A c \in Bids : Armed(c)' => Armed(c)
<1>1. CASE ~Requested(b)
  BY <1>1, QuotaTypes DEF SecureQuota, limiterVars, Armed, Requested
<1>2. CASE Requested(b)
  <2>1. Limiter!Secure(b)  BY <1>2, QuotaTypes DEF SecureQuota
  <2>2. requested' = requested /\ timers' = Limiter!Stopped(requested[b].t)
    BY <2>1 DEF Limiter!Secure
  <2>3. requested[b].t \in DOMAIN timers  BY <1>2, QuotaTypes
  <2>4. \A t \in DOMAIN timers : /\ timers'[t].state = "armed" => timers[t].state = "armed"
                                 /\ t = requested[b].t => timers'[t].state # "armed"
    <3>1. CASE timers[requested[b].t].state = "armed"
      <4>1. timers' = [timers EXCEPT ![requested[b].t].state = "stopped"]
        BY <2>2, <3>1 DEF Limiter!Stopped
      <4>2. \A t \in DOMAIN timers : timers[t] \in [id: Bids, at: Nat, state: Limits!TimerStates]
        BY LimitsAssumed, Limits!TimerType DEF Limits!Inv, Limits!Owned
      <4> QED  BY <2>3, <4>1, <4>2
    <3>2. CASE timers[requested[b].t].state # "armed"
      BY <2>2, <3>2 DEF Limiter!Stopped
    <3> QED  BY <3>1, <3>2
  <2> QED  BY <1>2, <2>2, <2>3, <2>4, QuotaTypes DEF Armed, Requested
<1> QED  BY <1>1, <1>2

LEMMA QuotaProposalSecures == ASSUME PartsOK, Quota, NEW h \in Handlers, ProposalSecures(h) PROVE Quota'
<1>1. HandlersOK /\ Limits!Inv  BY DEF PartsOK
<1>2. PICK b \in Bids :
      /\ b = proposer[h].bid /\ SecureQuota(b)
      /\ proposer' = [proposer EXCEPT ![h] = Free]
      /\ UNCHANGED <<storeVars, historyVars, won, winner>>
  BY <1>1 DEF ProposalSecures, HandlersOK
<1>3. Next  BY DEF Next, ProposalsHandler
<1> SUFFICES ASSUME NEW c \in Bids, c \notin raced' PROVE BidQuotaOK(c)'
  BY DEF Quota
<1>4. BidQuotaOK(c)  BY <1>3, RacedKept DEF Quota
<1>5. Safety!Steady(c)  BY <1>2, StoreSteady
<1>6. requested' = requested /\ ~Armed(b)' /\ (Armed(c)' => Armed(c))
  BY <1>1, <1>2, SecureStops
<1>7. Accepted(c)' => Accepted(c)  BY <1>2 DEF Accepted, Validating
<1>8. CASE c # b
  <2>1. Securing(c) => Securing(c)'
    <3> SUFFICES ASSUME Securing(c) PROVE Securing(c)'
      OBVIOUS
    <3>1. PICK a \in Handlers : proposer[a] = [pc |-> "securing", bid |-> c]  BY DEF Securing
    <3>2. a # h /\ proposer'[a] = proposer[a]  BY <1>1, <1>2, <1>8, <3>1 DEF HandlersOK
    <3> QED  BY <3>1, <3>2 DEF Securing
  <2> QED  BY <1>2, <1>4, <1>5, <1>6, <1>7, <2>1, QuotaFrame DEF historyVars, Safety!Steady
<1>9. CASE c = b
  <2>1. Requested(c)' <=> Requested(c)  BY <1>6 DEF Requested
  <2> QED  BY <1>2, <1>4, <1>5, <1>6, <1>7, <1>9, <2>1
         DEF historyVars, BidQuotaOK, QuotaOK, Safety!Steady, Safety!Quiet
<1> QED  BY <1>8, <1>9
\* A request is refused, or granted with a timer of its own.
LEMMA RequestOutcome ==
  ASSUME Limits!Inv, NEW b \in Bids, NEW n, Limiter!Request(b, n)
  PROVE  \/ UNCHANGED <<requested, timers>>
         \/ /\ Granted
            /\ Requested(b)' /\ requested'[b].n = n
            /\ \A c \in Bids \ {b} : requested'[c] = requested[c] /\ (Armed(c)' => Armed(c))
<1>1. \/ UNCHANGED <<requested, timers>>
      \/ \E T : /\ timers' = Append(timers, T)
                /\ requested' = [requested EXCEPT ![b] = [n |-> n, t |-> Len(timers) + 1]]
  BY DEF Limiter!Request
<1>2. ASSUME NEW T, timers' = Append(timers, T),
             requested' = [requested EXCEPT ![b] = [n |-> n, t |-> Len(timers) + 1]]
      PROVE  /\ Granted
             /\ Requested(b)' /\ requested'[b].n = n
             /\ \A c \in Bids \ {b} : requested'[c] = requested[c] /\ (Armed(c)' => Armed(c))
  <2>1. /\ Len(timers) \in Nat /\ DOMAIN timers = 1..Len(timers)
        /\ \A t \in DOMAIN timers : timers'[t] = timers[t]
    BY <1>2, QuotaTypes
  <2>2. requested'[b] = [n |-> n, t |-> Len(timers) + 1]
        /\ \A c \in Bids \ {b} : requested'[c] = requested[c]
    BY <1>2, QuotaTypes
  <2>3. requested[b].t # Len(timers) + 1  BY <2>1, QuotaTypes DEF Requested
  <2>4. Requested(b)' /\ requested'[b].n = n /\ requested' # requested
    BY <2>1, <2>2, <2>3 DEF Requested
  <2>5. ASSUME NEW c \in Bids \ {b}, Armed(c)' PROVE Armed(c)
    <3>1. Requested(c) /\ requested[c].t \in DOMAIN timers
      BY <2>2, <2>5, QuotaTypes DEF Armed, Requested
    <3> QED  BY <2>1, <2>2, <2>5, <3>1 DEF Armed, Requested
  <2> QED  BY <2>2, <2>4, <2>5 DEF Granted
<1> QED  BY <1>1, <1>2

LEMMA QuotaWinRequest == ASSUME PartsOK, Quota, NEW v \in Winners, NEW b \in Bids, WinRequest(v, b) PROVE Quota'
<1>1. HandlersOK /\ Limits!Inv /\ Safety!Inv  BY DEF PartsOK
<1>2. /\ winner[v].pc = "free"
      /\ Limiter!Request(b, DealSize[b])
      /\ UNCHANGED <<storeVars, won, proposer, lapsed, counted>>
      /\ \/ ~Granted /\ UNCHANGED <<winner, rewon>>
         \/ /\ Granted
            /\ winner' = [winner EXCEPT ![v] = [pc |-> "validating", bid |-> b]]
            /\ rewon' = IF Requested(b) \/ b \in lapsed \cup counted \/ Safety!Status(b) # "submitted"
                        THEN rewon \cup {b} ELSE rewon
  BY SameData DEF WinRequest, Status, Requested
<1>3. Next  BY DEF Next, WinsHandler
<1> SUFFICES ASSUME NEW c \in Bids, c \notin raced' PROVE BidQuotaOK(c)'
  BY DEF Quota
<1>4. BidQuotaOK(c) /\ c \notin raced  BY <1>3, RacedKept DEF Quota
<1>5. Safety!Steady(c)  BY <1>2, StoreSteady
<1>6. Securing(c) => Securing(c)'  BY <1>2 DEF Securing
<1>7. CASE ~Granted
  <2>1. UNCHANGED <<requested, timers>>  BY <1>1, <1>2, <1>7, RequestOutcome
  <2>2. Accepted(c)' => Accepted(c)  BY <1>2, <1>7 DEF Accepted, Validating
  <2> QED  BY <1>2, <1>4, <1>5, <1>6, <1>7, <2>1, <2>2, QuotaFrame DEF Safety!Steady, Armed, Requested
<1>8. CASE Granted /\ c # b
  <2>1. requested'[c] = requested[c] /\ (Armed(c)' => Armed(c))
    <3>1. requested' # requested  BY <1>8 DEF Granted
    <3> QED  BY <1>1, <1>2, <1>8, <3>1, RequestOutcome
  <2>2. Accepted(c)' => Accepted(c)
    <3> SUFFICES ASSUME NEW u \in Winners, winner'[u] = [pc |-> "validating", bid |-> c]
                 PROVE  Validating(c)
      BY <1>2 DEF Accepted, Validating
    <3>1. u # v /\ winner'[u] = winner[u]  BY <1>1, <1>2, <1>8 DEF HandlersOK
    <3> QED  BY <3>1 DEF Validating
  <2> QED  BY <1>2, <1>4, <1>5, <1>6, <1>8, <2>1, <2>2, QuotaFrame DEF Safety!Steady
<1>9. CASE Granted /\ c = b
  <2>1. Requested(c)' /\ requested'[c].n = DealSize[c]
    <3>1. requested' # requested  BY <1>9 DEF Granted
    <3> QED  BY <1>1, <1>2, <1>9, <3>1, RequestOutcome
  <2>2. Safety!ToDownload(c)' => c \in won'
    BY <1>2, <1>4, <1>5 DEF BidQuotaOK, Safety!Steady
  <2>3. c \notin rewon' => c \notin rewon /\ Safety!Status(c) = "submitted"
    BY <1>2, <1>9
  <2>4. Safety!Status(c) = "submitted" =>
          ~Safety!ToDownload(c) /\ ~Safety!Imported(c) /\ ~Safety!GivenUp(c)
    <3> SUFFICES ASSUME Safety!Status(c) = "submitted"
                 PROVE  ~Safety!ToDownload(c) /\ ~Safety!Imported(c) /\ ~Safety!GivenUp(c)
      OBVIOUS
    <3>1. Safety!Running(c) = {}  BY <1>1, <1>4, StoreAssumptions, Safety!JobStatus DEF Safety!HasJob
    <3>2. Safety!Outcomes(c) = {}  BY <3>1, StoreAssumptions, Safety!OutcomesRunning
    <3> QED  BY <3>2 DEF Safety!ToDownload, Safety!Imported, Safety!GivenUp
  <2>5. c \notin rewon' => QuotaOK(c)'
    BY <1>5, <2>1, <2>3, <2>4 DEF QuotaOK, Safety!Steady, Safety!Quiet
  <2> QED  BY <2>2, <2>5 DEF BidQuotaOK
<1> QED  BY <1>7, <1>8, <1>9
\* The quota of b is settled, and no other.
LEMMA Settled ==
  ASSUME Limits!Inv, NEW b \in Bids, CommitQuota(b) \/ WithdrawQuota(b)
  PROVE  /\ ~Requested(b)'
         /\ \A c \in Bids \ {b} : requested'[c] = requested[c]
         /\ \A c \in Bids : Armed(c)' => Armed(c)
<1>1. timers' = timers /\ (requested' = requested \/ requested' = Limiter!Without(b))
  BY DEF CommitQuota, WithdrawQuota, Limiter!Commit, Limiter!Withdraw, Limiter!Drop, limiterVars
<1>2. CASE ~Requested(b)
  <2>1. requested' = requested
    BY <1>2, QuotaTypes DEF CommitQuota, WithdrawQuota, limiterVars
  <2> QED  BY <1>1, <1>2, <2>1 DEF Requested, Armed
<1>3. CASE Requested(b)
  <2>1. requested' = [requested EXCEPT ![b] = [n |-> 0, t |-> 0]]
    BY <1>3, QuotaTypes
    DEF CommitQuota, WithdrawQuota, Limiter!Commit, Limiter!Withdraw, Limiter!Drop, Limiter!Without,
        Limiter!NoRequest
  <2>2. requested'[b].t = 0 /\ \A c \in Bids \ {b} : requested'[c] = requested[c]
    BY <2>1, QuotaTypes
  <2> QED  BY <1>1, <2>2 DEF Requested, Armed
<1> QED  BY <1>2, <1>3

\* A finished import is counted.
LEMMA CommitLogged ==
  ASSUME Limits!Inv, NEW b \in Bids, CommitQuota(b), Requested(b) PROVE log' # log
<1>1. log' = Append(log, [n |-> requested[b].n, ts |-> now])
  BY QuotaTypes DEF CommitQuota, Limiter!Commit
<1>2. Len(log) \in Nat /\ log \in Seq(Limits!Entry)  BY DEF Limits!Inv, Limits!Books
<1>3. Len(log') = Len(log) + 1  BY <1>1, <1>2
<1> QED  BY <1>2, <1>3

\* A download in hand is of a bid that was won.
LEMMA ServedIsWon ==
  ASSUME PartsOK, Quota, NEW c \in Bids \ raced, NEW w \in Workers, Safety!Busy(w),
         c = Safety!WorkerBid(w).id
  PROVE  c \in won
<1>1. Safety!Running(c) # {}  BY DEF Safety!Running
<1>2. Safety!ToDownload(c) \/ \E h \in Handlers : c \in txn[h].reads
  BY <1>1, StoreAssumptions, Safety!JobStatus DEF PartsOK, Safety!HasJob
<1> QED  BY <1>2 DEF Quota, BidQuotaOK, PartsOK, HandlersOK

LEMMA QuotaFetchSucceeds == ASSUME PartsOK, Quota, NEW w \in Workers, FetchSucceeds(w) PROVE Quota'
<1>1. Limits!Inv /\ Safety!Inv  BY DEF PartsOK
<1>2. PICK b \in Bids :
        /\ b = Safety!WorkerBid(w).id /\ Safety!ImportDone(w) /\ CommitQuota(b)
        /\ counted' = IF log' # log THEN counted \cup {b} ELSE counted
        /\ UNCHANGED <<won, winner, proposer, rewon, lapsed>>
  BY <1>1, WorkerHasBid, SameWork DEF FetchSucceeds, handlerVars
<1>3. Next  BY DEF Next
<1> SUFFICES ASSUME NEW c \in Bids, c \notin raced' PROVE BidQuotaOK(c)'
  BY DEF Quota
<1>4. BidQuotaOK(c) /\ c \notin raced  BY <1>3, RacedKept DEF Quota
<1>5. /\ Safety!ToDownload(c)' => Safety!ToDownload(c)
      /\ Safety!GivenUp(c)' => Safety!GivenUp(c)
      /\ IF c = b THEN ~Safety!Ended(c) /\ Safety!Ended(c)' ELSE Safety!Steady(c)
  BY <1>1, <1>2, <1>4, StoreAssumptions, Safety!ImportEnds
<1>6. /\ ~Requested(b)'
      /\ \A d \in Bids \ {b} : requested'[d] = requested[d]
      /\ \A d \in Bids : Armed(d)' => Armed(d)
  BY <1>1, <1>2, Settled
<1>7. (Securing(c) => Securing(c)') /\ (Accepted(c)' => Accepted(c))
  BY <1>2 DEF Securing, Accepted, Validating
<1>8. CASE c # b
  BY <1>2, <1>4, <1>5, <1>6, <1>7, <1>8, QuotaFrame DEF Safety!Steady
<1>9. CASE c = b
  <2>1. c \notin rewon => c \in counted' \cup lapsed'
    <3> SUFFICES ASSUME c \notin rewon, c \notin lapsed PROVE log' # log
      BY <1>2, <1>9
    <3>1. Safety!Busy(w)  BY <1>2 DEF Safety!ImportDone, Safety!Busy
    <3>2. c \in won  BY <1>2, <1>4, <1>9, <3>1, ServedIsWon
    <3>3. Requested(c)  BY <1>4, <1>5, <1>9, <3>2 DEF BidQuotaOK, QuotaOK, Accepted
    <3> QED  BY <1>1, <1>2, <1>9, <3>3, CommitLogged
  <2>2. c \notin rewon' => QuotaOK(c)'
    BY <1>2, <1>5, <1>6, <1>9, <2>1 DEF QuotaOK, Armed
  <2> QED  BY <1>2, <1>4, <1>5, <2>2 DEF BidQuotaOK
<1> QED  BY <1>8, <1>9

LEMMA QuotaFetchGoesWrong == ASSUME PartsOK, Quota, NEW w \in Workers, FetchGoesWrong(w) PROVE Quota'
<1>1. Limits!Inv /\ Safety!Inv  BY DEF PartsOK
<1>2. PICK b \in Bids :
        /\ b = Safety!WorkerBid(w).id
        /\ Safety!FetchExpired(w) \/ Safety!FetchFails(w) \/ Safety!ImportFails(w)
        /\ IF worker'[w].status = "errored" THEN WithdrawQuota(b) ELSE UNCHANGED limiterVars
        /\ UNCHANGED <<won, winner, proposer, rewon, lapsed, counted>>
  BY <1>1, WorkerHasBid, SameWork DEF FetchGoesWrong, handlerVars, historyVars
<1>3. Next  BY DEF Next
<1> SUFFICES ASSUME NEW c \in Bids, c \notin raced' PROVE BidQuotaOK(c)'
  BY DEF Quota
<1>4. BidQuotaOK(c) /\ c \notin raced  BY <1>3, RacedKept DEF Quota
<1>5. /\ Safety!ToDownload(c)' => Safety!ToDownload(c)
      /\ Safety!Imported(c)' => Safety!Imported(c)
      /\ IF c = b /\ worker'[w].status = "errored" THEN Safety!Ended(c)' ELSE Safety!Steady(c)
  BY <1>1, <1>2, <1>4, StoreAssumptions, Safety!FetchEnds
<1>6. (Securing(c) => Securing(c)') /\ (Accepted(c)' => Accepted(c))
  BY <1>2 DEF Securing, Accepted, Validating
<1>7. Armed(c)' => Armed(c)
  BY <1>1, <1>2, Settled DEF limiterVars, Armed, Requested
<1>8. CASE c = b /\ worker'[w].status = "errored"
  <2>1. ~Requested(c)'  BY <1>1, <1>2, <1>8, Settled
  <2>2. c \notin rewon' => QuotaOK(c)'
    BY <1>2, <1>4, <1>5, <1>8, <2>1 DEF BidQuotaOK, QuotaOK, Armed
  <2> QED  BY <1>2, <1>4, <1>5, <2>2 DEF BidQuotaOK
<1>9. CASE ~(c = b /\ worker'[w].status = "errored")
  <2>1. requested'[c] = requested[c]
    BY <1>1, <1>2, <1>9, Settled DEF limiterVars
  <2> QED  BY <1>2, <1>4, <1>5, <1>6, <1>7, <1>9, <2>1, QuotaFrame DEF Safety!Steady
<1> QED  BY <1>8, <1>9
\* The bid whose outcome is lost is being downloaded for ever without quota, or
\* waits with its quota for a retry that does not come.
LEMMA QuotaOutcomeUnsaved == ASSUME PartsOK, Quota, NEW w \in Workers, OutcomeUnsaved(w) PROVE Quota'
<1>1. Limits!Inv /\ Safety!Inv  BY DEF PartsOK
<1>2. PICK b \in Bids :
        /\ b = Safety!WorkerBid(w).id /\ Safety!SaveOutcomeFails(w)
        /\ lapsed' = IF Requested(b) THEN lapsed ELSE lapsed \cup {b}
        /\ UNCHANGED <<limiterVars, won, winner, proposer, rewon, counted>>
  BY <1>1, WorkerHasBid, SameSaveOutcome, QuotaTypes DEF OutcomeUnsaved, handlerVars
<1>3. Next  BY DEF Next
<1> SUFFICES ASSUME NEW c \in Bids, c \notin raced' PROVE BidQuotaOK(c)'
  BY DEF Quota
<1>4. BidQuotaOK(c) /\ c \notin raced  BY <1>3, RacedKept DEF Quota
<1>5. /\ Safety!ToDownload(c)' => Safety!ToDownload(c)
      /\ Safety!Imported(c)' => Safety!Imported(c)
      /\ Safety!GivenUp(c)' => Safety!GivenUp(c)
      /\ c # b => Safety!Steady(c)
  BY <1>1, <1>2, StoreAssumptions, Safety!OutcomeLost
<1>6. /\ requested'[c] = requested[c] /\ (Armed(c)' <=> Armed(c)) /\ (Requested(c)' <=> Requested(c))
      /\ (Securing(c) => Securing(c)') /\ (Accepted(c)' => Accepted(c))
  BY <1>2 DEF limiterVars, Armed, Requested, Securing, Accepted, Validating
<1>7. CASE c # b
  BY <1>2, <1>4, <1>5, <1>6, <1>7, QuotaFrame DEF Safety!Steady
<1>8. CASE c = b
  BY <1>2, <1>4, <1>5, <1>6, <1>8 DEF BidQuotaOK, QuotaOK
<1> QED  BY <1>7, <1>8

\* A timer that changes its state arms nothing.
LEMMA TimerUnarmed ==
  ASSUME Limits!Inv, NEW t \in DOMAIN timers, NEW s \in {"fired", "done"},
         timers' = [timers EXCEPT ![t].state = s],
         NEW c \in Bids, requested'[c] = requested[c], Armed(c)'
  PROVE  Armed(c)
<1>1. requested[c].t \in DOMAIN timers  BY QuotaTypes DEF Armed, Requested
<1>2. \A u \in DOMAIN timers : timers[u] \in [id: Bids, at: Nat, state: Limits!TimerStates]
  BY LimitsAssumed, Limits!TimerType DEF Limits!Inv, Limits!Owned
<1>3. timers'[requested[c].t].state = "armed" => timers[requested[c].t].state = "armed"
  BY <1>1, <1>2
<1> QED  BY <1>3 DEF Armed, Requested

LEMMA QuotaClock == ASSUME PartsOK, Quota, Clock PROVE Quota'
<1>1. UNCHANGED <<storeVars, bidderVars, handlerVars, historyVars>> /\ Limits!Inv
  BY DEF Clock, PartsOK
<1>2. Next  BY DEF Next
<1> SUFFICES ASSUME NEW c \in Bids, c \notin raced' PROVE BidQuotaOK(c)'
  BY DEF Quota
<1>3. BidQuotaOK(c)  BY <1>2, RacedKept DEF Quota
<1>4. Safety!Steady(c)  BY <1>1, StoreSteady
<1>5. (Securing(c) => Securing(c)') /\ (Accepted(c)' => Accepted(c))
  BY <1>1 DEF handlerVars, Securing, Accepted, Validating
<1>6. requested' = requested  BY DEF Clock, Limiter!Tick, Limiter!Fire
<1>7. Armed(c)' => Armed(c)
  <2>1. CASE Limiter!Tick  BY <2>1 DEF Limiter!Tick, Armed, Requested
  <2>2. ASSUME NEW t \in DOMAIN timers, Limiter!Fire(t) PROVE Armed(c)' => Armed(c)
    BY <1>1, <1>6, <2>2, TimerUnarmed DEF Limiter!Fire
  <2> QED  BY <2>1, <2>2 DEF Clock
<1> QED
  BY <1>1, <1>3, <1>4, <1>5, <1>6, <1>7, QuotaFrame DEF Safety!Steady, handlerVars, historyVars

\* The timer takes back the quota of its bid, which has lapsed from then on.
LEMMA QuotaQuotaExpires == ASSUME PartsOK, Quota, NEW t \in DOMAIN timers, QuotaExpires(t) PROVE Quota'
<1>1. UNCHANGED <<storeVars, bidderVars, handlerVars, rewon, counted>> /\ Limits!Inv
  BY DEF QuotaExpires, PartsOK
<1>2. Next  BY DEF Next
<1>3. PICK b \in Bids : b = timers[t].id
  BY <1>1, LimitsAssumed, Limits!TimerType DEF Limits!Inv, Limits!Owned
<1>4. /\ timers' = [timers EXCEPT ![t].state = "done"]
      /\ requested' = [requested EXCEPT ![b] = [n |-> 0, t |-> 0]]
      /\ lapsed' = IF Requested(b) THEN lapsed \cup {b} ELSE lapsed
  BY <1>1, <1>3, QuotaTypes
  DEF QuotaExpires, Limiter!Expire, Limiter!Drop, Limiter!Without, Limiter!NoRequest
<1>5. requested'[b].t = 0 /\ \A c \in Bids \ {b} : requested'[c] = requested[c]
  BY <1>1, <1>4, QuotaTypes
<1> SUFFICES ASSUME NEW c \in Bids, c \notin raced' PROVE BidQuotaOK(c)'
  BY DEF Quota
<1>6. BidQuotaOK(c)  BY <1>2, RacedKept DEF Quota
<1>7. Safety!Steady(c)  BY <1>1, StoreSteady
<1>8. (Securing(c) => Securing(c)') /\ (Accepted(c)' => Accepted(c))
  BY <1>1 DEF handlerVars, Securing, Accepted, Validating
<1>9. CASE c # b
  <2>1. requested'[c] = requested[c] /\ (Armed(c)' => Armed(c))
    BY <1>1, <1>4, <1>5, <1>9, TimerUnarmed
  <2> QED
    BY <1>1, <1>4, <1>6, <1>7, <1>8, <2>1, QuotaFrame DEF Safety!Steady, handlerVars
<1>10. CASE c = b
  <2>1. ~Requested(c)'  BY <1>5, <1>10 DEF Requested
  <2>2. Safety!ToDownload(c)' => c \in won'
    BY <1>1, <1>6, <1>7 DEF BidQuotaOK, Safety!Steady, handlerVars
  <2>3. c \notin rewon => QuotaOK(c)'
    BY <1>1, <1>4, <1>6, <1>7, <1>8, <1>10, <2>1
    DEF BidQuotaOK, QuotaOK, Armed, Safety!Steady, Safety!Quiet
  <2> QED  BY <1>1, <2>2, <2>3 DEF BidQuotaOK
<1> QED  BY <1>9, <1>10

\* Nothing is requested of the limiter of the next process, and the bids won
\* have lapsed.
LEMMA QuotaStop == ASSUME PartsOK, Quota, Stop PROVE Quota'
<1>1. /\ Safety!BootFails \/ Safety!Exit \/ Safety!Crash
      /\ requested' = [b \in Bids |-> Limiter!NoRequest]
      /\ winner' = [v \in Winners |-> Free]
      /\ won \subseteq lapsed' /\ lapsed \subseteq lapsed'
      /\ UNCHANGED <<won, rewon, counted>>
  BY SameLife DEF Stop, NewRunningTotalLimiter
<1>2. Next  BY DEF Next
<1> SUFFICES ASSUME NEW c \in Bids, c \notin raced' PROVE BidQuotaOK(c)'
  BY DEF Quota
<1>3. BidQuotaOK(c)  BY <1>2, RacedKept DEF Quota
<1>4. /\ Safety!ToDownload(c)' => Safety!ToDownload(c)
      /\ Safety!Imported(c)' => Safety!Imported(c)
  BY <1>1, StoreAssumptions, Safety!StopStep
<1>5. ~Requested(c)'  BY <1>1 DEF Limiter!NoRequest, Requested
<1>6. ~Validating(c)'  BY <1>1 DEF Validating, Free
<1>7. c \notin rewon => QuotaOK(c)'
  BY <1>1, <1>3, <1>4, <1>5, <1>6 DEF BidQuotaOK, QuotaOK, Armed, Accepted
<1> QED  BY <1>1, <1>3, <1>4, <1>7 DEF BidQuotaOK

LEMMA QuotaInit == ASSUME Init PROVE Quota
<1> SUFFICES ASSUME NEW c \in Bids PROVE BidQuotaOK(c)
  BY DEF Quota
<1>1. Safety!Status(c) = "unspecified"
  BY SameInit DEF Init, Safety!Init, Safety!Status, Safety!Fresh
<1>2. Safety!Outcomes(c) = {}
  BY SameInit DEF Init, Safety!Init, Safety!Idle, Safety!Outcomes, Safety!Running, Safety!Busy
<1>3. ~Requested(c)  BY DEF Init, Limiter!Init, Limiter!NoRequest, Requested
<1>4. ~Accepted(c)  BY DEF Init, Accepted, Validating, Free
<1> QED
  BY <1>1, <1>2, <1>3, <1>4
  DEF BidQuotaOK, QuotaOK, Armed, Safety!ToDownload, Safety!Imported, Safety!GivenUp

LEMMA QuotaNext == ASSUME PartsOK, Quota, [Next]_vars PROVE Quota'
<1>1. CASE UNCHANGED vars
  <2>1. UNCHANGED <<storeVars, limiterVars, historyVars, won, winner, proposer>>
    BY <1>1 DEF vars, handlerVars
  <2>2. \A c \in Bids : (Securing(c) => Securing(c)') /\ (Accepted(c)' => Accepted(c))
    BY <2>1 DEF Securing, Accepted, Validating
  <2> QED  BY <2>1, <2>2, QuotaCalm
<1>2. ASSUME NEW b \in Bids, Bid(b) PROVE Quota'  BY <1>2, QuotaBid
<1>3. ASSUME NEW v \in Winners, WinsHandler(v) PROVE Quota'
  BY <1>3, QuotaWinRequest, QuotaWinEnds DEF WinsHandler
<1>4. ASSUME NEW h \in Handlers, ProposalsHandler(h) PROVE Quota'
  BY <1>4, QuotaProposalBegins, QuotaProposalCommits, QuotaProposalSecures DEF ProposalsHandler
<1>5. ASSUME NEW w \in Workers, FetchSucceeds(w) \/ FetchGoesWrong(w) \/ OutcomeUnsaved(w)
      PROVE  Quota'
  BY <1>5, QuotaFetchSucceeds, QuotaFetchGoesWrong, QuotaOutcomeUnsaved
<1>6. CASE StoreAlone  BY <1>6, QuotaStoreAlone
<1>7. CASE Clock  BY <1>7, QuotaClock
<1>8. CASE \E t \in DOMAIN timers : QuotaExpires(t)  BY <1>8, QuotaQuotaExpires
<1>9. CASE Stop  BY <1>9, QuotaStop
<1> QED  BY <1>1, <1>2, <1>3, <1>4, <1>5, <1>6, <1>7, <1>8, <1>9 DEF Next

LEMMA QuotaHolds == Spec => [](PartsOK /\ Quota)
  BY PartsInit, PartsNext, QuotaInit, QuotaNext, PTL DEF Spec
-----------------------------------------------------------------------------
(* What the invariant says.                                                  *)

\* A download that nobody is still accepting holds secured quota: whatever the
\* timers, repeated proposals and workers do, only its outcome takes the quota
\* back, or a timer that had fired before Secure.
THEOREM DownloadsAreSecured == Spec => []DownloadSecured
<1>1. PartsOK /\ Quota => DownloadSecured
  <2> SUFFICES ASSUME PartsOK, Quota, NEW b \in Plain, Downloading(b), Requested(b), Armed(b),
                      \A h \in Handlers : proposer[h].bid # b \/ proposer[h].pc = "free"
               PROVE  FALSE
    BY QuotaTypes DEF DownloadSecured, PartsOK, Armed
  <2>1. QuotaOK(b)  BY DEF Plain, Quota, BidQuotaOK
  <2>2. Safety!ToDownload(b)  BY SameData DEF Downloading, Status, Safety!ToDownload
  <2> QED  BY <2>1, <2>2 DEF QuotaOK, Securing
<1> QED  BY <1>1, QuotaHolds, PTL

\* An import is counted in the period's total, unless its quota had lapsed: the
\* commit of the quota comes before the outcome is stored, and no repeated win
\* or late timer comes between.
THEOREM ImportsAreCounted == Spec => []ImportsCounted
<1>1. PartsOK /\ Quota => ImportsCounted
  <2> SUFFICES ASSUME Quota, NEW b \in Plain, Status(b) = "finalized", db[b].bid.deal = "pcid"
               PROVE  b \in counted \cup lapsed
    BY DEF ImportsCounted
  <2>1. QuotaOK(b)  BY DEF Plain, Quota, BidQuotaOK
  <2> QED  BY <2>1, SameData DEF QuotaOK, Status, Safety!Imported
<1> QED  BY <1>1, QuotaHolds, PTL

\* A download that ended holds no quota any more (Commit and Withdraw).
THEOREM OutcomesSettle == Spec => []OutcomeSettles
<1>1. PartsOK /\ Quota => OutcomeSettles
  <2> SUFFICES ASSUME PartsOK, Quota, NEW b \in Plain,
                      Status(b) = "errored" \/ (Status(b) = "finalized" /\ db[b].bid.deal = "pcid")
               PROVE  ~Requested(b)
    BY QuotaTypes DEF OutcomeSettles, PartsOK
  <2>1. QuotaOK(b)  BY DEF Plain, Quota, BidQuotaOK
  <2> QED  BY <2>1, SameData DEF QuotaOK, Status, Safety!Imported, Safety!GivenUp
<1> QED  BY <1>1, QuotaHolds, PTL

\* A bid under download whose outcome no worker knows yet.
Pending(b) == Downloading(b) /\ \A w \in Serving(b) : worker[w].pc # "saving"

LEMMA PendingRequested ==
  ASSUME PartsOK, Quota, NEW b \in Plain \ lapsed, Pending(b)
  PROVE  Requested(b) /\ requested[b].n = DealSize[b]
<1>1. QuotaOK(b)  BY DEF Plain, Quota, BidQuotaOK
<1>2. Safety!ToDownload(b) /\ b \in won
  BY SameData DEF Pending, Downloading, Status, Safety!ToDownload, Plain, Quota, BidQuotaOK
<1>3. ~Safety!Ended(b)
  <2>1. \A w \in Safety!Running(b) : worker[w].pc # "saving"
    BY SameData DEF Pending, Serving, Safety!Running
  <2> QED  BY <1>2, <2>1 DEF Safety!Ended, Safety!Outcomes, Safety!ToDownload
<1> QED  BY <1>1, <1>2, <1>3 DEF QuotaOK, Accepted

\* Whatever is being downloaded is in the running total: from the win until
\* the outcome its quota is held, unless a timer took it, the process ended or
\* the datastore refused the outcome.
THEOREM QuotaIsHeld == Spec => []QuotaHeld
<1>1. PartsOK /\ Quota => QuotaHeld
  BY PendingRequested, QuotaTypes DEF QuotaHeld, PartsOK, Pending
<1> QED  BY <1>1, QuotaHolds, PTL

\* The downloads under way at any moment are together within the running-bytes
\* limit, save those whose quota had lapsed or was asked for twice.
DownloadsFit ==
  Limits!Sum([b \in {c \in Plain \ lapsed : Pending(c)} |-> DealSize[b]]) <= Limit

THEOREM DownloadsStayWithinLimit == Spec => []DownloadsFit
<1>1. PartsOK /\ Quota => DownloadsFit
  <2> SUFFICES ASSUME PartsOK, Quota PROVE DownloadsFit
    OBVIOUS
  <2> DEFINE S == {c \in Plain \ lapsed : Pending(c)}
             f == [b \in S |-> requested[b].n]
  <2>1. \A b \in S : b \in Bids /\ Limits!Requested(b) /\ requested[b].n = DealSize[b]
    BY PendingRequested, QuotaTypes DEF PartsOK, Plain
  <2>2. f = [b \in S |-> DealSize[b]]  BY <2>1
  <2>3. Limits!Sum(f) <= Limit
    <3> HIDE DEF S
    <3> QED  BY <2>1, LimitsAssumed, Limits!HeldFits DEF PartsOK
  <2> QED  BY <2>2, <2>3 DEF DownloadsFit
<1> QED  BY <1>1, QuotaHolds, PTL
=============================================================================
