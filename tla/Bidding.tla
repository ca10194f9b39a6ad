------------------------------ MODULE Bidding ------------------------------
(***************************************************************************)
(* From the start of the daemon to its bids: the part of the daemon command *)
(* that opens what bidding needs (main.go), service.New and Subscribe,     *)
(* makeBid, and Close.  Each auction is handled by a goroutine of its own; *)
(* the auctioneer, Lotus, the chain and the pricing rules answer late, in  *)
(* any order, with errors, or not at all.  What is closed is closed in the *)
(* reverse of the order it was opened in (finalizer, a library).           *)
(*                                                                         *)
(* What the store does with saved bids is the subject of BidStore, how     *)
(* rules are cached that of CIDGravity; here they answer.                  *)
(***************************************************************************)
EXTENDS Clients, PriceRules

CONSTANTS Makers,    \* goroutines running makeBid
          Configs,   \* settings of the daemon
          Offers,    \* auctions, as the auctioneer announces them
          Books,     \* rulebooks of the pricing rules
          Summaries, \* of the sectors of the storage provider
          Word,      \* epochs are computed modulo Word
          MaxHeight, \* bound of the chain's height
          MaxSent,   \* bound on the bids that reach the auctioneer
          MaxBoots   \* bound on the starts of the process

ASSUME ConfigsAssumption ==
  \A c \in Configs :
    /\ {c.miner, c.market} \subseteq Addresses
    /\ {c.dealSize, c.dealDuration} \subseteq [min: Nat, max: Nat]
    /\ {c.retries, c.sealingLimit, c.window, c.attempts} \subseteq Nat
    /\ {c.ask, c.verifiedAsk} \subseteq Int
    /\ {c.strict, c.rules, c.finalizeEarly} \subseteq BOOLEAN
    /\ c.window + MaxHeight < Word      \* no promise wraps around

ASSUME OffersAssumption ==
  Offers # {} /\ \A o \in Offers : o.cid \in {"valid", "malformed"}

ASSUME BooksAssumption == Books \subseteq Rulebook

ASSUME BoundsAssumption == {Word, MaxHeight, MaxSent, MaxBoots} \subseteq Nat

VARIABLES
  conf,    \* the settings; the same at every start
  stage,   \* how far the process has started or stopped
  open,    \* what it has opened and not closed
  tries,   \* failed attempts to connect to a node of Lotus
  boots,   \* starts of the process
  paused,  \* srv.paused
  height,  \* the chain
  maker,   \* where each makeBid is and what it knows
  sent,    \* the auctioneer: the bids it received; the id of a bid is its index
  acked,   \* history: ids of acknowledged bids
  saved,   \* the bids in the datastore
  dropped  \* history: ids of bids that were being made when the process ended

startVars == <<conf, stage, open, tries, boots>>
bidVars   == <<paused, height, maker, sent, acked, saved, dropped>>
vars      == <<startVars, bidVars>>

NoTerms == [start |-> 0, unverified |-> 0, verified |-> 0]
Invalid == [valid |-> FALSE, prices |-> NoPrices]
Idle    == [pc |-> "idle", offer |-> CHOOSE o \in Offers : TRUE,
            terms |-> NoTerms, id |-> 0]

Topics  == {"auctions", "wins", "proposals"}
Unknown == [proving |-> -1, committing |-> -1, other |-> -1]  \* not counted
Channel == {"peer", "events"} \cup Topics      \* what Libp2pPubsub opens
Service == {"context", "store"} \cup Channel   \* what service.New and Subscribe open

-----------------------------------------------------------------------------
(* The start of the daemon.                                                  *)

Advance(from, to, opened) ==
  /\ stage = from
  /\ stage' = to
  /\ open'  = open \cup opened
  /\ tries' = 0
  /\ UNCHANGED <<conf, boots, bidVars>>

\* The command ends the process on every error; the failing call may have
\* closed something before, or leave something running.
GiveUp(from, closed, left) ==
  /\ stage = from
  /\ stage' = "failed"
  /\ open'  = (open \ closed) \cup left
  /\ tries' = 0
  /\ UNCHANGED <<conf, boots, bidVars>>

Boot ==
  /\ stage = "down" /\ boots < MaxBoots
  /\ boots' = boots + 1
  /\ stage' = "datastore"
  /\ UNCHANGED <<conf, open, tries, bidVars>>

OpenDatastore == Advance("datastore", "miner", {"datastore"}) \/ GiveUp("datastore", {}, {})

MutantConnectFails(from) ==        \* one attempt too many
  /\ stage = from
  /\ tries < conf.retries
  /\ tries' = tries + 1
  /\ UNCHANGED <<conf, stage, open, boots, bidVars>>

ConnectFails(from) ==
  /\ stage = from
  /\ tries + 1 < conf.retries
  /\ tries' = tries + 1
  /\ UNCHANGED <<conf, stage, open, boots, bidVars>>

\* The client of newBuilder; without any retries allowed it is built
\* unconnected, and no error is returned.
Connect(from, address, to) ==
  \/ ~NewBuilder(address) /\ GiveUp(from, {}, {})
  \/ /\ NewBuilder(address)
     /\ IF conf.retries = 0 THEN Advance(from, to, {})
        ELSE \/ ConnectFails(from) \/ Advance(from, to, {from})
             \/ tries + 1 = conf.retries /\ GiveUp(from, {}, {})

\* lotusclient.New: the health check asks the market's client; on failure
\* nothing is closed, not even the connections.
NewLotusClient ==
  \/ Connect("miner", conf.miner, "market")
  \/ IF conf.market = NoAddress THEN Advance("market", "lotus health", {})
     ELSE Connect("market", conf.market, "lotus health")
  \/ /\ (IF conf.market = NoAddress THEN "miner" ELSE "market") \in open
     /\ Advance("lotus health", "chain", {})
  \/ GiveUp("lotus health", {}, {})

NewFilClient == Advance("chain", "config", {"chain"}) \/ GiveUp("chain", {}, {})

\* The bid parameters, with a test of the data directory, and the filters:
\* the duration is validated twice, the size never.
MinMaxValid(range) == range.min <= range.max
BidParamsValid     == conf.window > 0 /\ conf.attempts > 0
FiltersValid       == MinMaxValid(conf.dealDuration) /\ MinMaxValid(conf.dealDuration)

Validate ==
  \/ BidParamsValid /\ FiltersValid /\ Advance("config", "peer", {"context"})
  \/ GiveUp("config", {}, {})

NewLibp2pPubsub ==
  \/ Advance("peer", "events", {"peer"})  \/ GiveUp("peer", Service, {})
  \/ Advance("events", "store", {"events"}) \/ GiveUp("events", Service, {})

\* NewStore fails its health check, or in getOrphaned: by then it has started
\* the workers, which nobody stops.
NewStore ==
  \/ Advance("store", "verify", {"store"})
  \/ \E left \in SUBSET {"workers"} : GiveUp("store", Service, left)

Verify ==
  \E sig, provider, info \in {"ok", "error"}, owner, worker \in {"ok", "invalid", "error"} :
    IF VerifyBidder(FALSE, sig, provider, info, owner, worker) = "ok"
    THEN Advance("verify", "auctions", {}) ELSE GiveUp("verify", Service, {})

MutantSubscribe ==                 \* the topics stay open
  \/ Advance("auctions", "wins", {"auctions"}) \/ GiveUp("auctions", {}, {})
  \/ Advance("wins", "proposals", {"wins"})    \/ GiveUp("wins", {}, {})
  \/ Advance("proposals", "api", {"proposals"}) \/ GiveUp("proposals", {}, {})

\* Topic by topic: auctions are handled before wins can be heard.  A failure
\* closes the whole channel.
Subscribe ==
  \/ Advance("auctions", "wins", {"auctions"}) \/ GiveUp("auctions", Channel, {})
  \/ Advance("wins", "proposals", {"wins"})    \/ GiveUp("wins", Channel, {})
  \/ Advance("proposals", "api", {"proposals"}) \/ GiveUp("proposals", Channel, {})

\* The server listens in the background: an error of it ends nothing.
NewServer == Advance("api", "running", {"api"})

Start ==
  \/ Boot \/ OpenDatastore \/ NewLotusClient \/ NewFilClient \/ Validate
  \/ NewLibp2pPubsub \/ NewStore \/ Verify \/ Subscribe \/ NewServer

-----------------------------------------------------------------------------
(* The end of the process.                                                   *)

\* The store is closed first, and waits for its workers ...
CloseStore ==
  /\ stage = "running"
  /\ stage' = "draining"
  /\ open'  = open \ {"api", "store"}
  /\ UNCHANGED <<conf, tries, boots, bidVars>>

\* ... while auctions are still handled.  Then the channel and the context.
CloseChannel ==
  /\ stage = "draining"
  /\ stage' = "silent"
  /\ open'  = open \ Service
  /\ UNCHANGED <<conf, tries, boots, bidVars>>

Underway(m) == maker[m].pc # "idle"

\* The process ends, whatever it was doing; only the datastore is persistent.
Exit ==
  /\ stage # "down"
  /\ stage'   = "down"
  /\ open'    = {}
  /\ tries'   = 0
  /\ paused'  = FALSE
  /\ maker'   = [m \in Makers |-> Idle]
  /\ dropped' = dropped \cup ({maker[m].id : m \in Makers} \ {0})
  /\ UNCHANGED <<conf, boots, height, sent, acked, saved>>

-----------------------------------------------------------------------------
(* Pausing and the chain.                                                    *)

SetPaused ==
  /\ "api" \in open
  /\ paused' = ~paused
  /\ UNCHANGED <<startVars, height, maker, sent, acked, saved, dropped>>

Tipset ==
  /\ height < MaxHeight
  /\ height' = height + 1
  /\ UNCHANGED <<startVars, paused, maker, sent, acked, saved, dropped>>

-----------------------------------------------------------------------------
(* makeBid.                                                                  *)

Set(m, r) ==
  /\ maker' = [maker EXCEPT ![m] = r]
  /\ UNCHANGED <<startVars, paused, height>>
NothingSent == UNCHANGED <<sent, acked, saved, dropped>>
Leave(m)    == Set(m, Idle) /\ NothingSent

MutantAuctionsHandler(m, o) ==     \* bids although paused
  /\ "auctions" \in open
  /\ maker[m].pc = "idle"
  /\ Set(m, [Idle EXCEPT !.pc = "checking", !.offer = o])
  /\ NothingSent

AuctionsHandler(m, o) ==
  /\ "auctions" \in open
  /\ ~paused
  /\ maker[m].pc = "idle"
  /\ Set(m, [Idle EXCEPT !.pc = "checking", !.offer = o])
  /\ NothingSent

InRange(n, range) == range.min <= n /\ n <= range.max

FilterAuction(o) ==
  ~o.ended /\ InRange(o.size, conf.dealSize) /\ InRange(o.duration, conf.dealDuration)

\* With a limit, the sectors are counted; not knowing them is no reason to stop.
FewSealing(summary) ==
  \/ conf.sealingLimit = 0 \/ summary = Unknown
  \/ CurrentSealingSectors(summary, FinalizeEarly(FALSE, conf.finalizeEarly)) <= conf.sealingLimit

\* The filters, the sealing sectors and the health of the store.
Check(m) ==
  /\ maker[m].pc = "checking"
  /\ \/ FilterAuction(maker[m].offer)
        /\ \E summary \in Summaries \cup {Unknown} : FewSealing(summary)
        /\ Set(m, [maker[m] EXCEPT !.pc = "reading"])
        /\ NothingSent
     \/ Leave(m)

MutantMeets(o, current, start) ==  \* the deadline is compared with the height
  o.deadline > 0 => current <= o.deadline
Meets(o, current, start) == o.deadline > 0 => start <= o.deadline

GetChainHeight(m) ==
  LET start == (conf.window + height) % Word
  IN  /\ maker[m].pc = "reading"
      /\ \/ /\ Meets(maker[m].offer, height, start)
            /\ Set(m, [maker[m] EXCEPT !.pc = "pricing", !.terms.start = start])
            /\ NothingSent
         \/ Leave(m)

Answers == {Invalid} \cup
           (IF conf.rules THEN {[valid |-> TRUE, prices |-> Resolve(b)] : b \in Books} ELSE {})

MutantAllowed(answer) == answer.valid => answer.prices.allow   \* strict has no effect
Allowed(answer) == IF answer.valid THEN answer.prices.allow ELSE ~conf.strict

Price(quoted, asked) == IF quoted = NoPrice THEN asked ELSE quoted

PricesFor(m) ==
  /\ maker[m].pc = "pricing"
  /\ \E answer \in Answers :
       IF Allowed(answer)
       THEN /\ Set(m, [maker[m] EXCEPT !.pc = "publishing",
                 !.terms.unverified = Price(answer.prices.unverified, conf.ask),
                 !.terms.verified   = Price(answer.prices.verified, conf.verifiedAsk)])
            /\ NothingSent
       ELSE Leave(m)

\* The bid reaches the auctioneer, or is lost; without the peer and the
\* context there is no topic to publish it on.
PublishBid(m) ==
  /\ maker[m].pc = "publishing"
  /\ \/ /\ {"peer", "context"} \subseteq open
        /\ Len(sent) < MaxSent
        /\ sent' = Append(sent, [offer |-> maker[m].offer, terms |-> maker[m].terms])
        /\ Set(m, [maker[m] EXCEPT !.pc = "awaiting", !.id = Len(sent) + 1])
        /\ UNCHANGED <<acked, saved, dropped>>
     \/ Leave(m)

MutantAnswerTo(m) == Len(sent)     \* the answer to whichever bid was last
AnswerTo(m) == maker[m].id

\* The auctioneer's answer is the id of the bid.
BidAcknowledged(m) ==
  /\ maker[m].pc = "awaiting"
  /\ Set(m, [maker[m] EXCEPT !.pc = "saving", !.id = AnswerTo(m)])
  /\ acked' = acked \cup {maker[m].id}
  /\ UNCHANGED <<sent, saved, dropped>>

\* bidsAckTimeout, the end of the context, or an error from the auctioneer.
NotAcknowledged(m) == maker[m].pc = "awaiting" /\ Leave(m)

MutantValid(o, terms) ==           \* a bid for nothing is refused
  /\ o.size > 0 /\ o.duration > 0
  /\ terms.unverified > 0 /\ terms.verified > 0 /\ terms.start > 0
\* validate, in the store.
Valid(o, terms) ==
  /\ o.size > 0 /\ o.duration > 0
  /\ terms.unverified >= 0 /\ terms.verified >= 0 /\ terms.start > 0

\* Only now the payload cid is parsed and the bid is validated.
SaveBid(m) ==
  LET o == maker[m].offer
  IN  /\ maker[m].pc = "saving"
      /\ Set(m, Idle)
      /\ saved' = IF o.cid = "valid" /\ Valid(o, maker[m].terms)
                  THEN saved \cup {[id |-> maker[m].id, offer |-> o, terms |-> maker[m].terms]}
                  ELSE saved
      /\ UNCHANGED <<sent, acked, dropped>>

MakeBid(m) ==
  \/ Check(m) \/ GetChainHeight(m) \/ PricesFor(m) \/ PublishBid(m)
  \/ BidAcknowledged(m) \/ NotAcknowledged(m) \/ SaveBid(m)

-----------------------------------------------------------------------------
Init ==
  /\ conf \in Configs
  /\ stage = "down" /\ open = {} /\ tries = 0 /\ boots = 0
  /\ paused = FALSE /\ height = 0
  /\ maker = [m \in Makers |-> Idle]
  /\ sent = <<>> /\ acked = {} /\ saved = {} /\ dropped = {}

Next ==
  \/ Start \/ CloseStore \/ CloseChannel \/ Exit
  \/ SetPaused \/ Tipset
  \/ \E m \in Makers : (\E o \in Offers : AuctionsHandler(m, o)) \/ MakeBid(m)

\* Every call makeBid waits for has a timeout, and the scheduler runs every
\* goroutine.
Fairness == \A m \in Makers : WF_vars(MakeBid(m))

Spec     == Init /\ [][Next]_vars
FairSpec == Spec /\ Fairness

-----------------------------------------------------------------------------
Ids == DOMAIN sent

TypeOK ==
  /\ conf \in Configs
  /\ stage \in {"down", "datastore", "miner", "market", "lotus health", "chain", "config",
                "peer", "events", "store", "verify", "auctions", "wins", "proposals", "api",
                "running", "draining", "silent", "failed"}
  /\ open \subseteq Service \cup {"datastore", "miner", "market", "chain", "api", "workers"}
  /\ tries \in Nat /\ (tries = 0 \/ tries < conf.retries) /\ boots \in 0..MaxBoots
  /\ paused \in BOOLEAN /\ height \in 0..MaxHeight
  /\ DOMAIN maker = Makers
  /\ \A m \in Makers : maker[m].offer \in Offers /\ maker[m].id \in Ids \cup {0}
  /\ acked \cup dropped \cup {b.id : b \in saved} \subseteq Ids

\* Under the id the auctioneer gave a bid, the store has that bid: the win of
\* a bid is a win on the terms the store remembers (makeBid, PublishBid).
SavedAsSent ==
  \A b \in saved : b.id \in acked /\ b.offer = sent[b.id].offer /\ b.terms = sent[b.id].terms

\* A bid promises an epoch that meets the deadline of its auction and lies the
\* start window ahead of a height the chain had by then, however long the bid
\* took to make (makeBid, GetChainHeight).
PromiseKept ==
  \A i \in Ids :
    LET b == sent[i]
    IN  /\ b.terms.start - conf.window \in 0..height
        /\ b.offer.deadline > 0 => b.terms.start <= b.offer.deadline

\* The price a rulebook quotes for a verified deal, else the ask price.
Quoted(book) ==
  LET quotes == Quotes(book, VerifiedKinds)
  IN  IF quotes = {} THEN conf.verifiedAsk ELSE FirstPrice(book, quotes)

\* Strict bids are made at the prices of a rulebook that allows the deal; others
\* may be made at the ask prices, when the rules gave no answer (makeBid).
PricesRuled ==
  \A i \in Ids :
    LET terms == sent[i].terms
    IN  \/ conf.rules /\ \E book \in Books :
             /\ ~Refuses(book)
             /\ terms.verified = Quoted(book)
             /\ terms.unverified = Price(Resolve(book).unverified, conf.ask)
        \/ ~conf.strict /\ terms.unverified = conf.ask /\ terms.verified = conf.verifiedAsk

\* A bid the auctioneer has acknowledged is saved, so that its win will be
\* recognised, unless the process ended in between or the auction was one no
\* bid of which can be saved (makeBid saves after PublishBid).
AcknowledgedIsSaved ==
  \A i \in acked \ dropped :
    \/ \E m \in Makers : maker[m].id = i
    \/ \E b \in saved : b.id = i
    \/ sent[i].offer.cid = "malformed" \/ ~(sent[i].offer.size > 0 /\ sent[i].offer.duration > 0)
    \/ ~(sent[i].terms.unverified >= 0 /\ sent[i].terms.verified >= 0)

\* The auctioneer gets no bid of a process that failed to start or has shut
\* its channel, although goroutines of makeBid are still under way: a failed
\* Subscribe closes the channel (libp2p_pubsub.go, Subscribe; service.go, Close).
SentWhileServing ==
  [][sent' # sent => {"auctions", "events", "context"} \subseteq open /\ stage # "failed"]_vars

\* Once bidding is paused for good, the bids under way come to an end and no
\* other follows (SetPaused, AuctionsHandler).
PauseTakesEffect == <>[]paused => <>[](\A m \in Makers : ~Underway(m))
=============================================================================
