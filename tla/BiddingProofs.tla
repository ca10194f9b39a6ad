---------------------------- MODULE BiddingProofs ----------------------------
(***************************************************************************)
(* Proofs about the start of the daemon and its bids, for every set of     *)
(* settings, auctions, rulebooks and goroutines of makeBid, and however    *)
(* often the process starts.                                               *)
(***************************************************************************)
EXTENDS Bidding, PriceRulesProofs

(* What the process has opened at each stage.                                *)
Serving == {"wins", "proposals", "api", "running", "draining"}
HasPeer == {"events", "store", "verify", "auctions"} \cup Serving
Checked == {"peer", "silent"} \cup HasPeer     \* the settings were found valid

Closed == {"down", "datastore", "miner", "market", "lotus health", "chain", "config", "failed"}
Opened == Service \cup {"datastore", "miner", "market", "chain", "api", "workers"}

StageInv ==
  /\ conf \in Configs
  /\ stage \in Closed \cup Checked
  /\ stage \in Checked => BidParamsValid
  /\ stage \in HasPeer \cup {"peer"} => "context" \in open
  /\ stage \in HasPeer => "peer" \in open
  /\ stage \in HasPeer \ {"events"} => "events" \in open
  /\ stage \in Serving => "auctions" \in open
  /\ stage \notin HasPeer => "peer" \notin open
  /\ stage \notin Serving => "auctions" \notin open

(* Bids.                                                                     *)
Prices == Int \cup {Resolve(b).unverified : b \in Books} \cup {Resolve(b).verified : b \in Books}
Terms  == [start: Nat, unverified: Prices, verified: Prices]
Pcs    == {"idle", "checking", "reading", "pricing", "publishing", "awaiting", "saving"}
Maker  == [pc: Pcs, offer: Offers, terms: Terms, id: Nat]
Bid    == [offer: Offers, terms: Terms]

BidTypes ==
  /\ height \in 0..MaxHeight
  /\ maker \in [Makers -> Maker]
  /\ sent \in Seq(Bid)
  /\ acked \cup dropped \subseteq Ids

\* The epoch promised in terms lies the start window ahead of a height the
\* chain had by now, and meets the deadline of the auction.
Promised(o, terms) ==
  /\ terms.start - conf.window \in 0..height
  /\ o.deadline > 0 => terms.start <= o.deadline

\* What a makeBid knows at each of its calls.
MakerOK(m) ==
  LET k == maker[m]
  IN  /\ k.pc # "idle" => stage \in Serving \cup {"silent", "failed"} /\ BidParamsValid
      /\ k.pc \in {"pricing", "publishing", "awaiting", "saving"} => Promised(k.offer, k.terms)
      /\ k.pc \in {"awaiting", "saving"}
           => k.id \in Ids /\ sent[k.id] = [offer |-> k.offer, terms |-> k.terms]
      /\ k.pc \notin {"awaiting", "saving"} => k.id = 0
      /\ k.pc = "awaiting" => k.id \notin acked
      /\ k.pc = "saving" => k.id \in acked

\* No two goroutines wait for, or save, the same bid.
OwnBids ==
  \A m, n \in Makers : m # n /\ maker[m].id # 0 => maker[m].id # maker[n].id

SentOK == \A i \in Ids : Promised(sent[i].offer, sent[i].terms) /\ BidParamsValid

BidInv ==
  /\ StageInv /\ BidTypes /\ SentOK /\ OwnBids
  /\ SavedAsSent /\ AcknowledgedIsSaved
  /\ \A m \in Makers : MakerOK(m)

-----------------------------------------------------------------------------
(* The start and the end of the process.                                     *)

LEMMA ConfigType ==
  ASSUME conf \in Configs
  PROVE  conf.window \in Nat /\ conf.retries \in Nat /\ conf.window + MaxHeight < Word
         /\ conf.ask \in Int /\ conf.verifiedAsk \in Int
BY ConfigsAssumption

LEMMA StageKept ==
  ASSUME StageInv, Start \/ CloseStore \/ CloseChannel \/ Exit PROVE StageInv'
<1> USE DEF StageInv, Serving, HasPeer, Checked, Closed, Channel, Service, Topics
<1>1. CASE Boot \/ OpenDatastore
  BY <1>1 DEF Boot, OpenDatastore, Advance, GiveUp, BidParamsValid
<1>2. ASSUME NEW from \in {"miner", "market"}, NEW to \in {"market", "lotus health"}, NEW a,
             Connect(from, a, to)
      PROVE  StageInv'
  <2>1. \/ GiveUp(from, {}, {}) \/ Advance(from, to, {}) \/ Advance(from, to, {from})
        \/ ConnectFails(from)
    BY <1>2 DEF Connect
  <2> QED  BY <2>1 DEF ConnectFails, Advance, GiveUp, BidParamsValid
<1>3. CASE NewLotusClient
  BY <1>2, <1>3 DEF NewLotusClient, Advance, GiveUp, BidParamsValid
<1>4. CASE NewFilClient \/ Validate
  BY <1>4 DEF NewFilClient, Validate, Advance, GiveUp, BidParamsValid
<1>5. CASE NewLibp2pPubsub  BY <1>5 DEF NewLibp2pPubsub, Advance, GiveUp, BidParamsValid
<1>6. CASE NewStore  BY <1>6 DEF NewStore, Advance, GiveUp, BidParamsValid
<1>7. CASE Verify
  <2>1. Advance("verify", "auctions", {}) \/ GiveUp("verify", Service, {})  BY <1>7 DEF Verify
  <2> QED  BY <2>1 DEF Advance, GiveUp, BidParamsValid
<1>8. CASE Subscribe  BY <1>8 DEF Subscribe, Advance, GiveUp, BidParamsValid
<1>9. CASE NewServer  BY <1>9 DEF NewServer, Advance, BidParamsValid
<1>10. CASE CloseStore \/ CloseChannel \/ Exit
  BY <1>10 DEF CloseStore, CloseChannel, Exit, BidParamsValid
<1> QED  BY <1>1, <1>3, <1>4, <1>5, <1>6, <1>7, <1>8, <1>9, <1>10 DEF Start

\* While bids are under way the process has come to serving and not ended.
LEMMA StagesServed ==
  ASSUME stage \in Serving \cup {"silent", "failed"}, Start \/ CloseStore \/ CloseChannel
  PROVE  stage' \in Serving \cup {"silent", "failed"}
<1> USE DEF Serving
<1>1. ~Boot /\ ~OpenDatastore /\ ~NewLotusClient /\ ~NewFilClient /\ ~Validate
      /\ ~NewLibp2pPubsub /\ ~NewStore /\ ~Verify
  BY DEF Boot, OpenDatastore, NewLotusClient, Connect, ConnectFails, NewFilClient, Validate,
         NewLibp2pPubsub, NewStore, Verify, Advance, GiveUp
<1>2. CASE Subscribe \/ NewServer  BY <1>2 DEF Subscribe, NewServer, Advance, GiveUp
<1>3. CASE CloseStore \/ CloseChannel  BY <1>3 DEF CloseStore, CloseChannel
<1> QED  BY <1>1, <1>2, <1>3 DEF Start

LEMMA StartFrame ==
  ASSUME Start \/ CloseStore \/ CloseChannel PROVE UNCHANGED <<conf, bidVars>>
BY DEF Start, Boot, OpenDatastore, NewLotusClient, Connect, ConnectFails, NewFilClient,
       Validate, NewLibp2pPubsub, NewStore, Verify, Subscribe, NewServer, CloseStore,
       CloseChannel, Advance, GiveUp

-----------------------------------------------------------------------------
(* What other steps leave of a makeBid.                                      *)

LEMMA SentType ==
  ASSUME BidTypes, NEW i \in Ids
  PROVE  sent[i] \in Bid /\ sent[i].terms \in Terms /\ i \in Nat \ {0}
<1>1. sent \in Seq(Bid)  BY DEF BidTypes
<1>2. i \in 1..Len(sent) /\ Len(sent) \in Nat  BY <1>1, LenProperties DEF Ids
<1>3. sent[i] \in Bid  BY <1>1, <1>2, ElementOfSeq
<1> QED  BY <1>2, <1>3 DEF Bid

\* Promises are kept as the chain grows.
LEMMA PromiseLasts ==
  ASSUME BidTypes, conf' = conf, height' \in height..MaxHeight,
         NEW o, NEW terms \in Terms, Promised(o, terms)
  PROVE  Promised(o, terms)'
BY DEF Promised, BidTypes, Terms

\* A step in which bids neither move nor get lost, but the chain may grow and
\* the process may go on.
LEMMA Framed ==
  ASSUME BidInv, StageInv', conf' = conf, height' \in height..MaxHeight,
         UNCHANGED <<maker, sent, acked, saved, dropped>>,
         stage \in Serving \cup {"silent", "failed"} =>
           stage' \in Serving \cup {"silent", "failed"}
  PROVE  BidInv'
<1>1. BidTypes'
  <2>1. height' \in 0..MaxHeight  BY BoundsAssumption DEF BidInv, BidTypes
  <2> QED  BY <2>1 DEF BidInv, BidTypes, Ids
<1>2. ASSUME NEW m \in Makers PROVE MakerOK(m)'
  <2>1. maker[m].terms \in Terms  BY DEF BidInv, BidTypes, Maker
  <2>2. Promised(maker[m].offer, maker[m].terms) => Promised(maker[m].offer, maker[m].terms)'
    BY <2>1, PromiseLasts DEF BidInv
  <2> QED  BY <2>2 DEF BidInv, MakerOK, BidParamsValid, Ids
<1>3. SentOK'
  <2>1. ASSUME NEW i \in Ids PROVE Promised(sent[i].offer, sent[i].terms)' /\ BidParamsValid'
    <3>1. sent[i].terms \in Terms  BY SentType DEF BidInv
    <3>2. Promised(sent[i].offer, sent[i].terms) /\ BidParamsValid  BY DEF BidInv, SentOK
    <3> QED  BY <3>1, <3>2, PromiseLasts DEF BidInv, BidParamsValid
  <2> QED  BY <2>1 DEF SentOK, Ids
<1>4. OwnBids' /\ SavedAsSent' /\ AcknowledgedIsSaved'
  BY DEF BidInv, OwnBids, SavedAsSent, AcknowledgedIsSaved
<1> QED  BY <1>1, <1>2, <1>3, <1>4 DEF BidInv

\* The process ends: what was being made is dropped.
LEMMA Ended == ASSUME BidInv, Exit PROVE BidInv'
<1>1. StageInv'  BY StageKept DEF BidInv
<1>2. /\ UNCHANGED <<conf, height, sent, acked, saved>>
      /\ maker' = [m \in Makers |-> Idle]
      /\ dropped' = dropped \cup ({maker[m].id : m \in Makers} \ {0})
  BY DEF Exit
<1>3. Idle \in Maker /\ Idle.id = 0 /\ Idle.pc = "idle"
  <2>1. (CHOOSE o \in Offers : TRUE) \in Offers  BY OffersAssumption
  <2> QED  BY <2>1 DEF Idle, Maker, Pcs, NoTerms, Terms, Prices
<1>4. \A m \in Makers : maker'[m] = Idle  BY <1>2
<1>5. ASSUME NEW m \in Makers, maker[m].id # 0 PROVE maker[m].id \in Ids
  BY <1>5 DEF BidInv, MakerOK
<1>6. BidTypes'  BY <1>2, <1>3, <1>5 DEF BidInv, BidTypes, Ids
<1>7. \A m \in Makers : MakerOK(m)'  BY <1>3, <1>4 DEF MakerOK
<1>8. OwnBids'  BY <1>3, <1>4 DEF OwnBids
<1>9. SentOK'  BY <1>2 DEF BidInv, SentOK, Promised, BidParamsValid, Ids
<1>10. SavedAsSent'  BY <1>2 DEF BidInv, SavedAsSent
<1>11. AcknowledgedIsSaved'
  <2>1. ASSUME NEW i \in acked \ dropped', NEW m \in Makers PROVE maker[m].id # i
    <3>1. i \in Ids  BY <1>2, <2>1 DEF BidInv, BidTypes
    <3> QED  BY <1>2, <2>1, <3>1, SentType DEF BidInv
  <2> QED  BY <1>2, <2>1 DEF BidInv, AcknowledgedIsSaved
<1> QED  BY <1>1, <1>6, <1>7, <1>8, <1>9, <1>10, <1>11 DEF BidInv

-----------------------------------------------------------------------------
(* The calls of makeBid.                                                     *)

\* Another goroutine's step leaves a makeBid as it is.
LEMMA OtherMaker ==
  ASSUME BidInv, NEW m \in Makers, NEW r, Set(m, r),
         NEW n \in Makers \ {m}, Ids \subseteq Ids',
         \A i \in Ids : sent'[i] = sent[i],
         acked \subseteq acked', maker[n].id \in acked' => maker[n].id \in acked
  PROVE  MakerOK(n)'
<1>1. maker'[n] = maker[n] /\ UNCHANGED <<conf, stage, height>>
  BY DEF Set, startVars, BidInv, BidTypes
<1>2. MakerOK(n)  BY DEF BidInv
<1>3. Promised(maker[n].offer, maker[n].terms) <=> Promised(maker[n].offer, maker[n].terms)'
  BY <1>1 DEF Promised
<1> QED  BY <1>1, <1>2, <1>3 DEF MakerOK, BidParamsValid

\* A call before the bid is published, or one that ends makeBid without it.
LEMMA Called ==
  ASSUME BidInv, NEW m \in Makers, NEW r \in Maker, Set(m, r), NothingSent,
         maker[m].pc # "saving", r.pc \notin {"awaiting", "saving"}, r.id = 0,
         r.pc # "idle" => stage \in Serving \cup {"silent", "failed"} /\ BidParamsValid,
         r.pc \in {"pricing", "publishing"} => Promised(r.offer, r.terms)
  PROVE  BidInv'
<1>1. /\ UNCHANGED <<conf, stage, open, height, sent, acked, saved, dropped>>
      /\ maker' = [maker EXCEPT ![m] = r]
      /\ maker'[m] = r /\ \A n \in Makers \ {m} : maker'[n] = maker[n]
  BY DEF Set, NothingSent, startVars, BidInv, BidTypes
<1>2. StageInv'  BY <1>1 DEF BidInv, StageInv, BidParamsValid
<1>3. BidTypes'  BY <1>1 DEF BidInv, BidTypes, Ids
<1>4. MakerOK(m)'
  <2>1. Promised(r.offer, r.terms) => Promised(r.offer, r.terms)'  BY <1>1 DEF Promised
  <2> QED  BY <1>1, <2>1 DEF MakerOK, BidParamsValid
<1>5. \A n \in Makers \ {m} : MakerOK(n)'  BY <1>1, OtherMaker DEF Ids
<1>6. OwnBids'  BY <1>1 DEF BidInv, OwnBids
<1>7. SentOK'  BY <1>1 DEF BidInv, SentOK, Promised, BidParamsValid, Ids
<1>8. SavedAsSent'  BY <1>1 DEF BidInv, SavedAsSent
<1>9. AcknowledgedIsSaved'
  <2>1. \A i \in acked : i # 0  BY SentType DEF BidInv, BidTypes
  <2>2. maker[m].id \notin acked
    BY <2>1 DEF BidInv, MakerOK, BidTypes
  <2>3. \A i \in acked, n \in Makers : maker[n].id = i => maker'[n].id = i
    BY <1>1, <2>2
  <2> QED  BY <1>1, <2>3 DEF BidInv, AcknowledgedIsSaved
<1> QED  BY <1>2, <1>3, <1>4, <1>5, <1>6, <1>7, <1>8, <1>9 DEF BidInv

LEMMA IdleType == Idle \in Maker /\ Idle.id = 0 /\ Idle.pc = "idle" /\ Idle.terms = NoTerms
<1>1. (CHOOSE o \in Offers : TRUE) \in Offers  BY OffersAssumption
<1> QED  BY <1>1 DEF Idle, Maker, Pcs, NoTerms, Terms, Prices

LEMMA Left ==
  ASSUME BidInv, NEW m \in Makers, maker[m].pc # "saving", Leave(m) PROVE BidInv'
BY Called, IdleType DEF Leave

LEMMA Handled ==
  ASSUME BidInv, NEW m \in Makers, NEW o \in Offers, AuctionsHandler(m, o) PROVE BidInv'
<1> DEFINE r == [Idle EXCEPT !.pc = "checking", !.offer = o]
<1>1. r \in Maker /\ r.pc = "checking" /\ r.id = 0  BY IdleType DEF Maker, Pcs
<1>2. stage \in Serving /\ BidParamsValid
  BY DEF AuctionsHandler, BidInv, StageInv, Checked, HasPeer
<1>3. maker[m].pc # "saving" /\ Set(m, r) /\ NothingSent  BY DEF AuctionsHandler
<1> QED  BY <1>1, <1>2, <1>3, Called

LEMMA CheckedAuction == ASSUME BidInv, NEW m \in Makers, Check(m) PROVE BidInv'
<1> DEFINE r == [maker[m] EXCEPT !.pc = "reading"]
<1>1. maker[m] \in Maker /\ maker[m].pc = "checking" /\ MakerOK(m)
  BY DEF Check, BidInv, BidTypes
<1>2. CASE Leave(m)  BY <1>1, <1>2, Left
<1>3. CASE Set(m, r) /\ NothingSent
  <2>1. r \in Maker /\ r.pc = "reading" /\ r.id = 0  BY <1>1 DEF Maker, Pcs, MakerOK
  <2> QED  BY <1>1, <1>3, <2>1, Called DEF MakerOK
<1> QED  BY <1>2, <1>3 DEF Check

\* No epoch wraps around, and one that is promised lies ahead of the height
\* just read.
LEMMA HeightRead == ASSUME BidInv, NEW m \in Makers, GetChainHeight(m) PROVE BidInv'
<1> DEFINE start == (conf.window + height) % Word
           r     == [maker[m] EXCEPT !.pc = "pricing", !.terms.start = start]
<1>1. maker[m] \in Maker /\ maker[m].pc = "reading" /\ MakerOK(m)
  BY DEF GetChainHeight, BidInv, BidTypes
<1>2. start = conf.window + height /\ start \in Nat /\ start - conf.window \in 0..height
  <2>1. /\ conf.window \in Nat /\ height \in 0..MaxHeight /\ conf.window + MaxHeight < Word
        /\ Word \in Nat /\ MaxHeight \in Nat
    BY ConfigType, BoundsAssumption DEF BidInv, StageInv, BidTypes
  <2>2. height \in Nat /\ conf.window + height \in 0..Word - 1  BY <2>1
  <2>3. start = conf.window + height  BY <2>1, <2>2
  <2> QED  BY <2>1, <2>2, <2>3
<1>3. CASE Leave(m)  BY <1>1, <1>3, Left
<1>4. CASE Meets(maker[m].offer, height, start) /\ Set(m, r) /\ NothingSent
  <2> HIDE DEF start
  <2>1. /\ r \in Maker /\ r.pc = "pricing" /\ r.id = 0
        /\ r.offer = maker[m].offer /\ r.terms.start = start
    BY <1>1, <1>2 DEF Maker, Pcs, MakerOK, Terms
  <2>2. Promised(r.offer, r.terms)  BY <1>2, <1>4, <2>1 DEF Promised, Meets
  <2> QED  BY <1>1, <1>4, <2>1, <2>2, Called DEF MakerOK
<1> QED  BY <1>3, <1>4 DEF GetChainHeight

\* The answer of the rules changes prices only.
LEMMA PricesRead == ASSUME BidInv, NEW m \in Makers, PricesFor(m) PROVE BidInv'
<1>1. maker[m] \in Maker /\ maker[m].pc = "pricing" /\ MakerOK(m)
  BY DEF PricesFor, BidInv, BidTypes
<1>2. CASE Leave(m)  BY <1>1, <1>2, Left
<1>3. ASSUME NEW u \in Prices, NEW v \in Prices,
             Set(m, [maker[m] EXCEPT !.pc = "publishing", !.terms.unverified = u,
                                     !.terms.verified = v]),
             NothingSent
      PROVE  BidInv'
  <2> DEFINE r == [maker[m] EXCEPT !.pc = "publishing", !.terms.unverified = u,
                                   !.terms.verified = v]
  <2>1. /\ r \in Maker /\ r.pc = "publishing" /\ r.id = 0
        /\ r.offer = maker[m].offer /\ r.terms.start = maker[m].terms.start
    BY <1>1 DEF Maker, Pcs, MakerOK, Terms
  <2>2. Promised(r.offer, r.terms)  BY <1>1, <2>1 DEF MakerOK, Promised
  <2> QED  BY <1>1, <1>3, <2>1, <2>2, Called DEF MakerOK
<1>4. \A answer \in Answers :
        /\ Price(answer.prices.unverified, conf.ask) \in Prices
        /\ Price(answer.prices.verified, conf.verifiedAsk) \in Prices
  <2>1. conf.ask \in Prices /\ conf.verifiedAsk \in Prices
    BY ConfigType DEF BidInv, StageInv, Prices
  <2>2. Invalid.prices.unverified \in Prices /\ Invalid.prices.verified \in Prices
    BY DEF Invalid, NoPrices, NoPrice, Prices
  <2>3. \A b \in Books : Resolve(b).unverified \in Prices /\ Resolve(b).verified \in Prices
    BY DEF Prices
  <2>4. \A answer \in Answers :
          answer.prices.unverified \in Prices /\ answer.prices.verified \in Prices
    BY <2>2, <2>3 DEF Answers
  <2> QED  BY <2>1, <2>4 DEF Price
<1> QED  BY <1>2, <1>3, <1>4 DEF PricesFor

\* The bid gets an id nobody has, and the terms the goroutine remembers.
LEMMA Published == ASSUME BidInv, NEW m \in Makers, PublishBid(m) PROVE BidInv'
<1> DEFINE k   == maker[m]
           new == Len(sent) + 1
           r   == [maker[m] EXCEPT !.pc = "awaiting", !.id = new]
           b   == [offer |-> maker[m].offer, terms |-> maker[m].terms]
<1>1. k \in Maker /\ k.pc = "publishing" /\ MakerOK(m) /\ BidTypes
  BY DEF PublishBid, BidInv, BidTypes
<1>2. CASE Leave(m)  BY <1>1, <1>2, Left
<1>3. CASE sent' = Append(sent, b) /\ Set(m, r) /\ UNCHANGED <<acked, saved, dropped>>
  <2>1. b \in Bid /\ sent \in Seq(Bid) /\ Len(sent) \in Nat
    BY <1>1, LenProperties DEF Bid, Maker, BidTypes
  <2>2. /\ sent' \in Seq(Bid) /\ Len(sent') = new /\ sent'[new] = b
        /\ \A i \in 1..Len(sent) : sent'[i] = sent[i]
    BY <1>3, <2>1, AppendProperties
  <2>3. Ids = 1..Len(sent) /\ Ids' = 1..new  BY <2>1, <2>2, LenProperties DEF Ids
  <2>4. /\ Ids' = Ids \cup {new} /\ new \notin Ids /\ new \in Nat \ {0}
        /\ \A i \in Ids : sent'[i] = sent[i]
    BY <2>1, <2>2, <2>3
  <2> HIDE DEF new
  <2>5. /\ r \in Maker /\ r.pc = "awaiting" /\ r.id = new
        /\ r.offer = k.offer /\ r.terms = k.terms
    BY <1>1, <2>4 DEF Maker, Pcs
  <2>6. /\ UNCHANGED <<conf, stage, open, height, acked, saved, dropped>>
        /\ maker' = [maker EXCEPT ![m] = r]
        /\ maker'[m] = r /\ \A n \in Makers \ {m} : maker'[n] = maker[n]
    BY <1>1, <1>3 DEF Set, startVars, BidTypes
  <2>7. StageInv'  BY <2>6 DEF BidInv, StageInv, BidParamsValid
  <2>8. BidTypes'  BY <1>1, <2>2, <2>4, <2>5, <2>6 DEF BidTypes
  <2>9. new \notin acked  BY <1>1, <2>4 DEF BidTypes
  <2>10. Promised(k.offer, k.terms)' /\ BidParamsValid'
    BY <1>1, <2>6 DEF MakerOK, Promised, BidParamsValid
  <2>11. MakerOK(m)'
    <3>1. Promised(r.offer, r.terms)' <=> Promised(k.offer, k.terms)'
      BY <2>5 DEF Promised
    <3> QED  BY <1>1, <2>2, <2>4, <2>5, <2>6, <2>9, <2>10, <3>1 DEF MakerOK, Promised
  <2>12. \A n \in Makers \ {m} : MakerOK(n)'
    BY <1>3, <2>4, <2>6, OtherMaker
  <2>13. \A n \in Makers : maker[n].id # new
    BY <1>1, <2>4 DEF BidInv, MakerOK
  <2>14. OwnBids'  BY <2>5, <2>6, <2>13 DEF BidInv, OwnBids
  <2>15. SentOK'
    <3>1. ASSUME NEW i \in Ids PROVE Promised(sent[i].offer, sent[i].terms)'
      BY <2>4, <2>6 DEF BidInv, SentOK, Promised
    <3>2. ASSUME NEW i \in Ids', i = new PROVE Promised(sent[i].offer, sent[i].terms)'
      <4>1. sent'[i].offer = k.offer /\ sent'[i].terms = k.terms  BY <2>2, <3>2
      <4> QED  BY <1>1, <2>6, <4>1 DEF MakerOK, Promised
    <3> QED  BY <2>4, <2>10, <3>1, <3>2 DEF SentOK
  <2>16. SavedAsSent'  BY <1>1, <2>4, <2>6 DEF BidInv, BidTypes, SavedAsSent
  <2>17. AcknowledgedIsSaved'
    <3>1. \A i \in acked : i \in Ids  BY <1>1 DEF BidTypes
    <3>2. k.id = 0 /\ \A i \in acked : i # 0
      BY <1>1, SentType DEF MakerOK, BidTypes
    <3> QED  BY <2>4, <2>6, <3>1, <3>2 DEF BidInv, AcknowledgedIsSaved
  <2> QED  BY <2>7, <2>8, <2>11, <2>12, <2>14, <2>15, <2>16, <2>17 DEF BidInv
<1> QED  BY <1>2, <1>3 DEF PublishBid

\* The answer is the one to this bid, which nobody else waits for.
LEMMA Acknowledged == ASSUME BidInv, NEW m \in Makers, BidAcknowledged(m) PROVE BidInv'
<1> DEFINE k == maker[m]
           r == [maker[m] EXCEPT !.pc = "saving", !.id = AnswerTo(m)]
<1>1. /\ k \in Maker /\ k.pc = "awaiting" /\ MakerOK(m) /\ BidTypes
      /\ Set(m, r) /\ acked' = acked \cup {k.id} /\ UNCHANGED <<sent, saved, dropped>>
  BY DEF BidAcknowledged, BidInv, BidTypes
<1>2. /\ r \in Maker /\ r.pc = "saving" /\ r.id = k.id
      /\ r.offer = k.offer /\ r.terms = k.terms
  BY <1>1 DEF Maker, Pcs, AnswerTo
<1>3. /\ UNCHANGED <<conf, stage, open, height, sent, saved, dropped>>
      /\ maker' = [maker EXCEPT ![m] = r]
      /\ maker'[m] = r /\ \A n \in Makers \ {m} : maker'[n] = maker[n]
  BY <1>1 DEF Set, startVars, BidTypes
<1>4. k.id \in Ids /\ k.id # 0  BY <1>1, SentType DEF MakerOK
<1>5. StageInv'  BY <1>3 DEF BidInv, StageInv, BidParamsValid
<1>6. BidTypes'  BY <1>1, <1>2, <1>3, <1>4 DEF BidTypes, Ids
<1>7. MakerOK(m)'
  <2>1. Promised(maker[m].offer, maker[m].terms)'
    BY <1>1, <1>2, <1>3 DEF MakerOK, Promised
  <2>2. /\ stage' \in Serving \cup {"silent", "failed"} /\ BidParamsValid'
        /\ k.id \in Ids' /\ sent'[k.id] = [offer |-> k.offer, terms |-> k.terms]
        /\ k.id \in acked'
    BY <1>1, <1>3 DEF MakerOK, BidParamsValid, Ids
  <2> QED  BY <1>2, <1>3, <2>1, <2>2 DEF MakerOK, Promised
<1>8. ASSUME NEW n \in Makers \ {m} PROVE MakerOK(n)'
  <2>1. maker[n].id # k.id  BY <1>4 DEF BidInv, OwnBids
  <2>2. maker[n].id \in acked' => maker[n].id \in acked  BY <1>1, <2>1
  <2> QED  BY <1>1, <2>2, OtherMaker DEF Ids
<1>9. OwnBids'  BY <1>2, <1>3 DEF BidInv, OwnBids
<1>10. SentOK'  BY <1>3 DEF BidInv, SentOK, Promised, BidParamsValid, Ids
<1>11. SavedAsSent'  BY <1>1, <1>3 DEF BidInv, SavedAsSent
<1>12. AcknowledgedIsSaved'
  <2>1. \A n \in Makers : maker'[n].id = maker[n].id  BY <1>2, <1>3
  <2> QED  BY <1>1, <1>3, <2>1 DEF BidInv, AcknowledgedIsSaved
<1> QED  BY <1>5, <1>6, <1>7, <1>8, <1>9, <1>10, <1>11, <1>12 DEF BidInv

\* What cannot be saved is one of the bids AcknowledgedIsSaved exempts: the
\* promised epoch never is the reason.
LEMMA Saved == ASSUME BidInv, NEW m \in Makers, SaveBid(m) PROVE BidInv'
<1> DEFINE k == maker[m]
           o == maker[m].offer
           b == [id |-> maker[m].id, offer |-> maker[m].offer, terms |-> maker[m].terms]
<1>1. k \in Maker /\ k.pc = "saving" /\ MakerOK(m) /\ BidTypes /\ StageInv
  BY DEF SaveBid, BidInv, BidTypes
<1>2. /\ Set(m, Idle) /\ UNCHANGED <<sent, acked, dropped>>
      /\ saved' = IF o.cid = "valid" /\ Valid(o, k.terms) THEN saved \cup {b} ELSE saved
  BY DEF SaveBid
<1>3. /\ UNCHANGED <<conf, stage, open, height>>
      /\ maker' = [maker EXCEPT ![m] = Idle]
      /\ maker'[m] = Idle /\ \A n \in Makers \ {m} : maker'[n] = maker[n]
  BY <1>1, <1>2 DEF Set, startVars, BidTypes
<1>4. k.id \in acked /\ k.id \in Ids /\ sent[k.id] = [offer |-> o, terms |-> k.terms]
  BY <1>1 DEF MakerOK
<1>5. StageInv'  BY <1>1, <1>3 DEF StageInv, BidParamsValid
<1>6. BidTypes'  BY <1>1, <1>2, <1>3, IdleType DEF BidTypes, Ids
<1>7. MakerOK(m)'  BY <1>3, IdleType DEF MakerOK
<1>8. \A n \in Makers \ {m} : MakerOK(n)'  BY <1>2, OtherMaker DEF Ids
<1>9. OwnBids'  BY <1>3, IdleType DEF BidInv, OwnBids
<1>10. SentOK'  BY <1>2, <1>3 DEF BidInv, SentOK, Promised, BidParamsValid, Ids
<1>11. SavedAsSent'
  <2>1. b.id \in acked /\ b.offer = sent[b.id].offer /\ b.terms = sent[b.id].terms
    BY <1>4
  <2>2. \A c \in saved' : c \in saved \/ c = b  BY <1>2
  <2> QED  BY <1>2, <2>1, <2>2 DEF BidInv, SavedAsSent
<1>12. AcknowledgedIsSaved'
  <2>1. k.terms.start > 0
    <3>1. conf.window \in Nat /\ conf.window > 0 /\ height \in Nat
      BY <1>1, ConfigType, BoundsAssumption DEF StageInv, MakerOK, BidParamsValid, BidTypes
    <3>2. k.terms.start \in Nat /\ k.terms.start - conf.window \in 0..height
      BY <1>1 DEF MakerOK, Promised, Maker, Terms
    <3> QED  BY <3>1, <3>2
  <2>2. o.cid = "valid" \/ o.cid = "malformed"  BY <1>1, OffersAssumption DEF Maker
  <2>3. \/ b \in saved'
        \/ o.cid = "malformed" \/ ~(o.size > 0 /\ o.duration > 0)
        \/ ~(k.terms.unverified >= 0 /\ k.terms.verified >= 0)
    BY <1>2, <2>1, <2>2 DEF Valid
  <2>4. saved \subseteq saved'  BY <1>2
  <2>5. ASSUME NEW i \in acked' \ dropped', i # k.id,
               NEW n \in Makers, maker[n].id = i
        PROVE  maker'[n].id = i
    BY <1>3, <2>5
  <2>6. ASSUME NEW i \in acked' \ dropped', i # k.id
        PROVE  \/ \E n \in Makers : maker'[n].id = i
               \/ \E c \in saved' : c.id = i
               \/ sent'[i].offer.cid = "malformed"
               \/ ~(sent'[i].offer.size > 0 /\ sent'[i].offer.duration > 0)
               \/ ~(sent'[i].terms.unverified >= 0 /\ sent'[i].terms.verified >= 0)
    BY <1>2, <2>4, <2>5, <2>6 DEF BidInv, AcknowledgedIsSaved
  <2>7. b.id = k.id /\ sent'[k.id].offer = o /\ sent'[k.id].terms = k.terms
    BY <1>2, <1>4
  <2> QED  BY <2>3, <2>6, <2>7 DEF AcknowledgedIsSaved
<1> QED  BY <1>5, <1>6, <1>7, <1>8, <1>9, <1>10, <1>11, <1>12 DEF BidInv

-----------------------------------------------------------------------------
LEMMA BidInvInit == Init => BidInv
<1> SUFFICES ASSUME Init PROVE BidInv
  OBVIOUS
<1>1. Ids = {}  BY DEF Init, Ids
<1>2. StageInv
  BY DEF Init, StageInv, Closed, Checked, HasPeer, Serving
<1>3. BidTypes
  BY IdleType, BoundsAssumption, EmptySeq DEF Init, BidTypes, Ids
<1>4. \A m \in Makers : MakerOK(m) /\ maker[m].id = 0  BY IdleType DEF Init, MakerOK
<1>5. OwnBids /\ SentOK /\ SavedAsSent /\ AcknowledgedIsSaved
  BY <1>1, <1>4 DEF Init, OwnBids, SentOK, SavedAsSent, AcknowledgedIsSaved
<1> QED  BY <1>2, <1>3, <1>4, <1>5 DEF BidInv

LEMMA BidInvNext == ASSUME BidInv, [Next]_vars PROVE BidInv'
<1>1. height \in height..MaxHeight
  BY BoundsAssumption DEF BidInv, BidTypes
<1>2. CASE Start \/ CloseStore \/ CloseChannel
  <2>1. UNCHANGED <<conf, bidVars>>  BY <1>2, StartFrame
  <2>2. StageInv'  BY <1>2, StageKept DEF BidInv
  <2> QED  BY <1>1, <1>2, <2>1, <2>2, StagesServed, Framed DEF bidVars
<1>3. CASE SetPaused \/ Tipset \/ UNCHANGED vars
  <2>1. /\ UNCHANGED <<conf, stage, open, maker, sent, acked, saved, dropped>>
        /\ height' = height \/ (height' = height + 1 /\ height < MaxHeight)
    BY <1>3 DEF SetPaused, Tipset, vars, startVars, bidVars
  <2>2. height' \in height..MaxHeight  BY <1>1, <2>1, BoundsAssumption DEF BidInv, BidTypes
  <2>3. StageInv'  BY <2>1 DEF BidInv, StageInv, BidParamsValid
  <2> QED  BY <2>1, <2>2, <2>3, Framed
<1>4. CASE Exit  BY <1>4, Ended
<1>5. ASSUME NEW m \in Makers, NEW o \in Offers, AuctionsHandler(m, o) PROVE BidInv'
  BY <1>5, Handled
<1>6. ASSUME NEW m \in Makers, MakeBid(m) PROVE BidInv'
  <2>1. CASE NotAcknowledged(m)  BY <2>1, Left DEF NotAcknowledged
  <2> QED  BY <1>6, <2>1, CheckedAuction, HeightRead, PricesRead, Published, Acknowledged, Saved
           DEF MakeBid
<1> QED  BY <1>2, <1>3, <1>4, <1>5, <1>6 DEF Next

\* What is open at each stage, what each goroutine of makeBid knows at its calls,
\* and what the auctioneer and the store hold, always agree (New, makeBid, Close).
THEOREM BiddingInvariant == Spec => []BidInv
BY BidInvInit, BidInvNext, PTL DEF Spec

\* Under the id the auctioneer gave a bid, the store has the bid that was sent
\* and acknowledged, however many goroutines wait for ids at once (makeBid).
THEOREM SavedBidsAsSent == Spec => []SavedAsSent
<1>1. BidInv => SavedAsSent  BY DEF BidInv
<1> QED  BY <1>1, BiddingInvariant, PTL

\* The epoch a bid promises meets the deadline of its auction and lies the
\* start window ahead of a height the chain had by then (makeBid).
THEOREM PromisesKept == Spec => []PromiseKept
<1>1. BidInv => PromiseKept  BY DEF BidInv, SentOK, Promised, PromiseKept
<1> QED  BY <1>1, BiddingInvariant, PTL

\* An acknowledged bid is saved, or is about to be, unless the process ended
\* or no bid of its auction can be saved (makeBid).
THEOREM AcknowledgedBidsSaved == Spec => []AcknowledgedIsSaved
<1>1. BidInv => AcknowledgedIsSaved  BY DEF BidInv
<1> QED  BY <1>1, BiddingInvariant, PTL

\* No bid is sent by a daemon that failed to start or has closed its channel,
\* whatever goroutines of makeBid are still under way (Subscribe, Close).
THEOREM SendsWhileServing == Spec => SentWhileServing
<1>1. ASSUME BidInv, [Next]_vars, sent' # sent
      PROVE  {"auctions", "events", "context"} \subseteq open /\ stage # "failed"
  <2>1. PICK m \in Makers : PublishBid(m)
    <3>1. UNCHANGED sent \/ \E m \in Makers : PublishBid(m)
      BY <1>1, StartFrame
      DEF Next, vars, bidVars, SetPaused, Tipset, Exit, AuctionsHandler, MakeBid, Check,
          GetChainHeight, PricesFor, BidAcknowledged, NotAcknowledged, SaveBid, Leave, NothingSent
    <3> QED  BY <1>1, <3>1
  <2>2. maker[m].pc = "publishing" /\ "peer" \in open
    BY <1>1, <2>1 DEF PublishBid, Leave, NothingSent
  <2>3. stage \in HasPeer /\ stage \in Serving \cup {"silent", "failed"}
    BY <1>1, <2>2 DEF BidInv, StageInv, MakerOK
  <2>4. stage \in Serving  BY <2>3 DEF HasPeer
  <2> QED  BY <1>1, <2>4 DEF BidInv, StageInv, HasPeer, Serving
<1>2. BidInv /\ [Next]_vars
        => [sent' # sent => {"auctions", "events", "context"} \subseteq open
                            /\ stage # "failed"]_vars
  BY <1>1
<1> QED  BY <1>2, BiddingInvariant, PTL DEF Spec, SentWhileServing
-----------------------------------------------------------------------------
(* Prices.                                                                   *)

\* Prices makeBid may offer: those of a rulebook that allows the deal, or the
\* ask prices when it need not be strict.
Ruled(terms) ==
  \/ conf.rules /\ \E book \in Books :
       /\ ~Refuses(book)
       /\ terms.verified = Quoted(book)
       /\ terms.unverified = Price(Resolve(book).unverified, conf.ask)
  \/ ~conf.strict /\ terms.unverified = conf.ask /\ terms.verified = conf.verifiedAsk

PricesInv ==
  /\ \A i \in Ids : Ruled(sent[i].terms)
  /\ \A m \in Makers : maker[m].pc = "publishing" => Ruled(maker[m].terms)

\* Where the loop over the rules ends is the price the first rule quotes, and
\* when it has none the ask price is offered.
LEMMA PriceQuoted ==
  ASSUME NEW book \in Books, ~Refuses(book)
  PROVE  Price(Resolve(book).verified, conf.verifiedAsk) = Quoted(book)
<1>1. book \in Rulebook  BY BooksAssumption
<1>2. /\ Resolve(book).verified = FirstPrice(book, Quotes(book, VerifiedKinds))
      /\ (Resolve(book).verified = NoPrice) <=> (Quotes(book, VerifiedKinds) = {})
  BY <1>1, VerifiedPrice
<1> QED  BY <1>2 DEF Price, Quoted

LEMMA AllowedRuled ==
  ASSUME NEW answer \in Answers, Allowed(answer),
         NEW terms, terms.unverified = Price(answer.prices.unverified, conf.ask),
         terms.verified = Price(answer.prices.verified, conf.verifiedAsk)
  PROVE  Ruled(terms)
<1>1. CASE answer = Invalid
  <2>1. ~conf.strict  BY <1>1 DEF Allowed, Invalid
  <2>2. terms.unverified = conf.ask /\ terms.verified = conf.verifiedAsk
    BY <1>1 DEF Invalid, NoPrices, Price
  <2> QED  BY <2>1, <2>2 DEF Ruled
<1>2. CASE conf.rules /\ \E b \in Books : answer = [valid |-> TRUE, prices |-> Resolve(b)]
  <2>1. PICK b \in Books : answer = [valid |-> TRUE, prices |-> Resolve(b)]  BY <1>2
  <2>2. answer.valid = TRUE /\ answer.prices = Resolve(b)  BY <2>1
  <2>3. Resolve(b).allow  BY <2>2 DEF Allowed
  <2>4. b \in Rulebook  BY BooksAssumption
  <2>5. ~Refuses(b)  BY <2>3, <2>4, ResolveOutcome
  <2>6. terms.verified = Quoted(b)  BY <2>2, <2>5, PriceQuoted
  <2>7. terms.unverified = Price(Resolve(b).unverified, conf.ask)  BY <2>2
  <2> QED  BY <1>2, <2>5, <2>6, <2>7 DEF Ruled
<1> QED  BY <1>1, <1>2 DEF Answers

\* Terms with prices are made in PricesFor and published by PublishBid.
LEMMA PricesInvNext == ASSUME BidInv, PricesInv, [Next]_vars PROVE PricesInv'
<1>1. maker \in [Makers -> Maker] /\ sent \in Seq(Bid)  BY DEF BidInv, BidTypes
<1>2. CASE Start \/ CloseStore \/ CloseChannel \/ SetPaused \/ Tipset \/ UNCHANGED vars
  <2>1. UNCHANGED <<conf, maker, sent>>
    BY <1>2, StartFrame DEF SetPaused, Tipset, vars, startVars, bidVars
  <2> QED  BY <2>1 DEF PricesInv, Ruled, Quoted, Ids
<1>3. CASE Exit
  <2>1. UNCHANGED <<conf, sent>> /\ \A m \in Makers : maker'[m] = Idle  BY <1>3 DEF Exit
  <2> QED  BY <2>1, IdleType DEF PricesInv, Ruled, Quoted, Ids
<1>4. ASSUME NEW m \in Makers, NEW r, Set(m, r), UNCHANGED sent,
             r.pc = "publishing" => Ruled(r.terms)
      PROVE  PricesInv'
  <2>1. /\ maker'[m] = r /\ \A n \in Makers \ {m} : maker'[n] = maker[n]
        /\ UNCHANGED <<conf, sent>>
    BY <1>1, <1>4 DEF Set, startVars
  <2> QED  BY <1>4, <2>1 DEF PricesInv, Ruled, Quoted, Ids
<1>5. ASSUME NEW m \in Makers, Leave(m) PROVE PricesInv'
  BY <1>4, <1>5, IdleType DEF Leave, NothingSent
<1>6. ASSUME NEW m \in Makers, NEW o \in Offers, AuctionsHandler(m, o) PROVE PricesInv'
  <2>1. [Idle EXCEPT !.pc = "checking", !.offer = o].pc = "checking"  BY IdleType DEF Maker
  <2> QED  BY <1>4, <1>6, <2>1 DEF AuctionsHandler, NothingSent
<1>7. ASSUME NEW m \in Makers, MakeBid(m) PROVE PricesInv'
  <2> DEFINE k == maker[m]
  <2>1. k \in Maker  BY <1>1
  <2>2. CASE Leave(m)  BY <1>5, <2>2
  <2>3. ASSUME NEW r, Set(m, r), NothingSent, r.pc # "publishing" PROVE PricesInv'
    BY <1>4, <2>3 DEF NothingSent
  <2>4. CASE Check(m) /\ ~Leave(m)
    <3>1. [k EXCEPT !.pc = "reading"].pc = "reading"  BY <2>1 DEF Maker
    <3> QED  BY <2>3, <2>4, <3>1 DEF Check
  <2>5. CASE GetChainHeight(m) /\ ~Leave(m)
    <3> DEFINE start == (conf.window + height) % Word
               r     == [k EXCEPT !.pc = "pricing", !.terms.start = start]
    <3>1. Set(m, r) /\ NothingSent  BY <2>5 DEF GetChainHeight
    <3> HIDE DEF start
    <3>2. r.pc = "pricing"  BY <2>1 DEF Maker
    <3> QED  BY <2>3, <3>1, <3>2
  <2>6. CASE PricesFor(m) /\ ~Leave(m)
    <3>1. PICK answer \in Answers :
            /\ Allowed(answer)
            /\ Set(m, [k EXCEPT !.pc = "publishing",
                         !.terms.unverified = Price(answer.prices.unverified, conf.ask),
                         !.terms.verified   = Price(answer.prices.verified, conf.verifiedAsk)])
            /\ NothingSent
      BY <2>6 DEF PricesFor
    <3> DEFINE u == Price(answer.prices.unverified, conf.ask)
               v == Price(answer.prices.verified, conf.verifiedAsk)
               r == [k EXCEPT !.pc = "publishing", !.terms.unverified = u, !.terms.verified = v]
    <3>2. Set(m, r) /\ UNCHANGED sent  BY <3>1 DEF NothingSent
    <3> HIDE DEF u, v
    <3>3. r.terms.unverified = u /\ r.terms.verified = v  BY <2>1 DEF Maker, Terms
    <3> HIDE DEF r
    <3>4. Ruled(r.terms)  BY <3>1, <3>3, AllowedRuled DEF u, v
    <3> QED  BY <1>4, <3>2, <3>4
  <2>7. CASE PublishBid(m) /\ ~Leave(m)
    <3> DEFINE b == [offer |-> k.offer, terms |-> k.terms]
               r == [k EXCEPT !.pc = "awaiting", !.id = Len(sent) + 1]
    <3>1. k.pc = "publishing" /\ sent' = Append(sent, b) /\ Set(m, r)  BY <2>7 DEF PublishBid
    <3>2. b.terms = k.terms /\ r.pc = "awaiting"  BY <2>1 DEF Maker
    <3>3. b \in Bid  BY <2>1 DEF Maker, Bid
    <3> HIDE DEF b, r
    <3>4. /\ \A n \in Makers : maker'[n].pc = "publishing" => n # m /\ maker'[n] = maker[n]
          /\ conf' = conf
      BY <1>1, <3>1, <3>2 DEF Set, startVars
    <3>5. /\ Ids = 1..Len(sent) /\ Ids' = 1..(Len(sent) + 1) /\ Len(sent) \in Nat
          /\ \A i \in 1..Len(sent) : sent'[i] = sent[i]
          /\ sent'[Len(sent) + 1] = b
      BY <1>1, <3>1, <3>3, LenProperties, AppendProperties DEF Ids
    <3>6. ASSUME NEW i \in Ids' PROVE Ruled(sent'[i].terms)
      <4>1. CASE i \in Ids  BY <3>5, <4>1 DEF PricesInv
      <4>2. CASE i = Len(sent) + 1  BY <3>1, <3>2, <3>5, <4>2 DEF PricesInv
      <4> QED  BY <3>5, <4>1, <4>2
    <3>7. \A n \in Makers : maker'[n].pc = "publishing" => Ruled(maker'[n].terms)
      BY <3>4 DEF PricesInv
    <3> QED  BY <3>4, <3>6, <3>7 DEF PricesInv, Ruled, Quoted
  <2>8. CASE BidAcknowledged(m)
    <3> DEFINE r == [k EXCEPT !.pc = "saving", !.id = AnswerTo(m)]
    <3>1. r.pc = "saving"  BY <2>1 DEF Maker
    <3>2. Set(m, r) /\ UNCHANGED sent  BY <2>8 DEF BidAcknowledged
    <3> HIDE DEF r
    <3> QED  BY <1>4, <3>1, <3>2
  <2>9. CASE NotAcknowledged(m)  BY <1>5, <2>9 DEF NotAcknowledged
  <2>10. CASE SaveBid(m)  BY <1>4, <2>10, IdleType DEF SaveBid
  <2> QED  BY <1>7, <2>2, <2>4, <2>5, <2>6, <2>7, <2>8, <2>9, <2>10 DEF MakeBid
<1> QED  BY <1>2, <1>3, <1>6, <1>7 DEF Next

\* A bid reaches the auctioneer at the prices of a rulebook that allows the
\* deal, the price for verified deals being that of the first rule that applies,
\* or, when bidding is not strict, at the ask prices (makeBid, PricesFor).
THEOREM BidsPricedByRules == Spec => []PricesRuled
<1>1. Init => PricesInv
  <2>1. ASSUME Init PROVE Ids = {} /\ \A m \in Makers : maker[m] = Idle
    BY <2>1 DEF Init, Ids
  <2> QED  BY <2>1, IdleType DEF PricesInv
<1>2. BidInv /\ PricesInv /\ [Next]_vars => PricesInv'  BY PricesInvNext
<1>3. PricesInv => PricesRuled  BY DEF PricesInv, PricesRuled, Ruled
<1> QED  BY <1>1, <1>2, <1>3, BiddingInvariant, PTL DEF Spec
-----------------------------------------------------------------------------
(* Types.                                                                    *)

StartInv ==
  /\ open \subseteq Opened
  /\ tries \in Nat /\ (tries = 0 \/ tries < conf.retries)
  /\ boots \in 0..MaxBoots
  /\ paused \in BOOLEAN

LEMMA StartInvNext == ASSUME BidInv, StartInv, [Next]_vars PROVE StartInv'
<1> USE DEF StartInv
<1>1. ASSUME NEW from, NEW to, NEW opened, opened \subseteq Opened, Advance(from, to, opened)
      PROVE  StartInv'
  BY <1>1 DEF Advance, bidVars
<1>2. ASSUME NEW from, NEW closed, NEW left, left \subseteq {"workers"}, GiveUp(from, closed, left)
      PROVE  StartInv'
  BY <1>2 DEF GiveUp, bidVars, Opened
<1>3. ASSUME NEW from \in {"miner", "market"}, NEW to, NEW a, Connect(from, a, to)
      PROVE  StartInv'
  <2>1. CASE ConnectFails(from)
    BY <2>1, ConfigType DEF ConnectFails, bidVars, BidInv, StageInv
  <2>2. \/ GiveUp(from, {}, {}) \/ Advance(from, to, {}) \/ Advance(from, to, {from})
        \/ ConnectFails(from)
    BY <1>3 DEF Connect
  <2> QED  BY <1>1, <1>2, <2>1, <2>2 DEF Opened
<1>4. CASE Start
  <2> USE DEF Opened, Service, Channel, Topics
  <2>1. CASE Boot  BY <2>1, BoundsAssumption DEF Boot, bidVars
  <2>2. CASE OpenDatastore  BY <1>1, <1>2, <2>2 DEF OpenDatastore
  <2>3. CASE NewLotusClient  BY <1>1, <1>2, <1>3, <2>3 DEF NewLotusClient
  <2>4. CASE NewFilClient  BY <1>1, <1>2, <2>4 DEF NewFilClient
  <2>5. CASE Validate  BY <1>1, <1>2, <2>5 DEF Validate
  <2>6. CASE NewLibp2pPubsub  BY <1>1, <1>2, <2>6 DEF NewLibp2pPubsub
  <2>7. CASE NewStore  BY <1>1, <1>2, <2>7 DEF NewStore
  <2>8. CASE Verify
    <3>1. Advance("verify", "auctions", {}) \/ GiveUp("verify", Service, {})
      BY <2>8 DEF Verify
    <3> QED  BY <1>1, <1>2, <3>1
  <2>9. CASE Subscribe  BY <1>1, <1>2, <2>9 DEF Subscribe
  <2>10. CASE NewServer  BY <1>1, <2>10 DEF NewServer
  <2> QED  BY <1>4, <2>1, <2>2, <2>3, <2>4, <2>5, <2>6, <2>7, <2>8, <2>9, <2>10 DEF Start
<1>5. CASE CloseStore \/ CloseChannel  BY <1>5 DEF CloseStore, CloseChannel, bidVars
<1>6. CASE Exit  BY <1>6 DEF Exit
<1>7. CASE SetPaused \/ Tipset \/ UNCHANGED vars
  BY <1>7 DEF SetPaused, Tipset, startVars, bidVars, vars
<1>8. ASSUME NEW m \in Makers, (\E o \in Offers : AuctionsHandler(m, o)) \/ MakeBid(m)
      PROVE  StartInv'
  <2>1. UNCHANGED <<startVars, paused>>
    BY <1>8 DEF AuctionsHandler, MakeBid, Check, GetChainHeight, PricesFor, PublishBid,
                BidAcknowledged, NotAcknowledged, SaveBid, Leave, Set
  <2> QED  BY <2>1 DEF startVars
<1> QED  BY <1>4, <1>5, <1>6, <1>7, <1>8 DEF Next

\* Every reachable state is well formed: what is open was opened, no start
\* tries a node more often than the settings allow, and every id the daemon
\* holds is one the auctioneer gave out.
THEOREM BiddingTypes == Spec => []TypeOK
<1>1. Init => StartInv
  <2>1. 0 \in 0..MaxBoots /\ 0 \in Nat  BY BoundsAssumption
  <2>2. {} \subseteq Opened  OBVIOUS
  <2> QED  BY <2>1, <2>2 DEF Init, StartInv
<1>2. BidInv /\ StartInv /\ [Next]_vars => StartInv'  BY StartInvNext
<1>3. ASSUME BidInv, StartInv PROVE TypeOK
  <2>1. maker \in [Makers -> Maker] /\ height \in 0..MaxHeight
    BY <1>3 DEF BidInv, BidTypes
  <2>2. ASSUME NEW m \in Makers PROVE maker[m].offer \in Offers /\ maker[m].id \in Ids \cup {0}
    <3>1. maker[m].offer \in Offers  BY <2>1 DEF Maker
    <3>2. maker[m].id \in Ids \cup {0}  BY <1>3 DEF BidInv, MakerOK
    <3> QED  BY <3>1, <3>2
  <2>3. acked \cup dropped \cup {b.id : b \in saved} \subseteq Ids
    BY <1>3 DEF BidInv, BidTypes, SavedAsSent
  <2>4. conf \in Configs /\ stage \in Closed \cup Checked  BY <1>3 DEF BidInv, StageInv
  <2>5. stage \in {"down", "datastore", "miner", "market", "lotus health", "chain", "config",
                   "peer", "events", "store", "verify", "auctions", "wins", "proposals", "api",
                   "running", "draining", "silent", "failed"}
    BY <2>4 DEF Closed, Checked, HasPeer, Serving
  <2> QED  BY <1>3, <2>1, <2>2, <2>3, <2>4, <2>5 DEF TypeOK, StartInv, Opened
<1> QED  BY <1>1, <1>2, <1>3, BiddingInvariant, PTL DEF Spec
=============================================================================
