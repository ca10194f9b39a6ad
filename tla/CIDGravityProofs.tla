-------------------------- MODULE CIDGravityProofs --------------------------
(***************************************************************************)
(* Proofs about the cached pricing rules, for every number of callers,     *)
(* rulebooks and versions of them.                                         *)
(***************************************************************************)
EXTENDS CIDGravity, PriceRulesProofs

LoadPcs == Running \cup {"ok", "failed"}
Replies == {"none", "not_modified", "ok", "throttle", "error"}

Waiting == {c \in Callers : caller[c].pc = "waiting"}

\* Who waits has not started a load: so there are no more loads than calls.
Counted ==
  /\ IsFiniteSet(Waiting)
  /\ calls \in 0..MaxCalls
  /\ Len(loads) + Cardinality(Waiting) <= calls

\* What the caller knows at each point.
CallerInv(c) ==
  LET r == caller[c]
  IN  /\ r.pc = "idle" => r = Idle
      /\ r.pc = "waiting" => r.load = 0
      /\ r.load \in 0..Len(loads)
      /\ r.pc = "loading" => r.load # 0
      /\ r.pc \in {"answering", "done"} /\ r.valid /\ r.load # 0 => loads[r.load].pc = "ok"
      /\ r.answer.valid => r.pc = "done" /\ r.valid /\ r.answer.prices = Resolve(r.answer.book)

\* Nothing cached is newer than what the API has.
Past ==
  /\ rules <= server /\ etag <= server
  /\ \A l \in DOMAIN loads : loads[l].version <= server

\* While no body was lost and loads followed one another, at most one load is
\* under way, and the ETag is that of the rules except while the body of a new
\* version is read.
Confirmed ==
  /\ \A k, l \in InFlight : k = l
  /\ (\A l \in DOMAIN loads : loads[l].pc # "reading") => etag = rules
  /\ \A l \in DOMAIN loads :
       LET d == loads[l]
       IN  /\ d.pc = "reading" => etag = d.version /\ rules <= d.version
           /\ d.pc = "stored" => rules = d.version
           /\ d.pc \in {"sent", "replied"} => d.tag = etag
           /\ d.pc = "replied" => rules <= d.version
           /\ d.pc = "replied" /\ d.reply = "not_modified" => d.version = d.tag
           /\ d.pc = "ok" => rules >= d.version

Inv ==
  /\ TypeOK
  /\ Counted
  /\ \A c \in Callers : CallerInv(c)
  /\ Past
  /\ ~disturbed => Confirmed
  /\ ReloadConfirmed

LEMMA Constants ==
  /\ MaxCalls \in Nat /\ MaxVersions \in Nat /\ MaxVersions >= 1
  /\ 0 \notin Callers /\ NoBook \in Books /\ Books \subseteq Rulebook
  /\ Versions = 1..MaxVersions
  BY BoundsAssumption, CallersAssumption, BooksAssumption DEF NoBook, Versions

AnswerType == [valid: BOOLEAN, version: 0..MaxVersions, book: Books,
               prices: {NoPrices} \cup {Resolve(k) : k \in Books}]

LEMMA IdleType == Idle \in CallerType /\ NoAnswer \in AnswerType
<1>1. NoAnswer \in AnswerType  BY Constants DEF NoAnswer, AnswerType
<1>2. 0 \in 0..MaxCalls  BY Constants
<1> QED  BY <1>1, <1>2 DEF Idle, CallerType, AnswerType

-----------------------------------------------------------------------------
(* What the steps of a caller do to it.                                      *)

Moved(c) ==
  /\ caller' \in [Callers -> CallerType]
  /\ \A d \in Callers \ {c} : caller'[d] = caller[d]

LEMMA Moves ==
  ASSUME TypeOK, NEW c \in Callers, NEW r \in CallerType, caller' = [caller EXCEPT ![c] = r]
  PROVE  Moved(c) /\ caller'[c] = r
  BY DEF Moved, TypeOK

LEMMA CallMoves ==
  ASSUME TypeOK, NEW c \in Callers, Call(c)
  PROVE  /\ Moved(c) /\ caller'[c].pc = "waiting" /\ caller'[c].load = caller[c].load
         /\ caller'[c].valid = caller[c].valid /\ caller'[c].answer = caller[c].answer
<1> DEFINE r == [caller[c] EXCEPT !.pc = "waiting"]
<1>1. caller[c] \in CallerType  BY DEF TypeOK
<1>2. r \in CallerType /\ r.pc = "waiting" /\ r.load = caller[c].load
      /\ r.valid = caller[c].valid /\ r.answer = caller[c].answer
  BY <1>1 DEF CallerType
<1>3. caller' = [caller EXCEPT ![c] = r]  BY DEF Call
<1> HIDE DEF r
<1> QED  BY <1>2, <1>3, Moves

LEMMA LeaveMoves ==
  ASSUME TypeOK, NEW c \in Callers, NEW valid \in BOOLEAN, Leave(c, valid)
  PROVE  /\ Moved(c) /\ caller'[c].pc = "answering" /\ caller'[c].load = caller[c].load
         /\ caller'[c].valid = valid /\ caller'[c].answer = caller[c].answer
<1> DEFINE r == [caller[c] EXCEPT !.pc = "answering", !.valid = valid]
<1>1. caller[c] \in CallerType  BY DEF TypeOK
<1>2. r \in CallerType /\ r.pc = "answering" /\ r.load = caller[c].load
      /\ r.valid = valid /\ r.answer = caller[c].answer
  BY <1>1 DEF CallerType
<1>3. caller' = [caller EXCEPT ![c] = r]  BY DEF Leave
<1> HIDE DEF r
<1> QED  BY <1>2, <1>3, Moves

LEMMA StartLoadMoves ==
  ASSUME TypeOK, NEW c \in Callers, StartLoad(c), Len(loads) + 1 \in 0..MaxCalls
  PROVE  /\ Moved(c) /\ caller'[c].pc = "loading" /\ caller'[c].load = Len(loads) + 1
         /\ caller'[c].valid = caller[c].valid /\ caller'[c].answer = caller[c].answer
<1> DEFINE n == Len(loads) + 1
           r == [caller[c] EXCEPT !.pc = "loading", !.load = n]
<1>1. caller[c] \in CallerType /\ n \in 0..MaxCalls  BY DEF TypeOK
<1>3. caller' = [caller EXCEPT ![c] = r]  BY DEF StartLoad
<1> HIDE DEF n
<1>2. r \in CallerType /\ r.pc = "loading" /\ r.load = n
      /\ r.valid = caller[c].valid /\ r.answer = caller[c].answer
  BY <1>1 DEF CallerType
<1> HIDE DEF r
<1> QED  BY <1>2, <1>3, Moves DEF n

\* An answer has the rules of the moment, for a book the API may have sent.
LEMMA AnswerMoves ==
  ASSUME TypeOK, NEW c \in Callers, Answer(c)
  PROVE  /\ Moved(c) /\ caller'[c].pc = "done" /\ caller'[c].load = caller[c].load
         /\ caller'[c].valid = caller[c].valid
         /\ caller'[c].answer.valid =>
              /\ caller[c].valid
              /\ caller'[c].answer.version = rules
              /\ caller'[c].answer.prices = Resolve(caller'[c].answer.book)
<1>1. PICK book \in Books :
        caller' = [caller EXCEPT ![c].pc = "done",
          ![c].answer = IF caller[c].valid /\ rules # 0
                        THEN [valid |-> TRUE, version |-> rules, book |-> book,
                              prices |-> Resolve(book)]
                        ELSE NoAnswer]
  BY Constants DEF Answer
<1> DEFINE a == IF caller[c].valid /\ rules # 0
                THEN [valid |-> TRUE, version |-> rules, book |-> book, prices |-> Resolve(book)]
                ELSE NoAnswer
           r == [caller[c] EXCEPT !.pc = "done", !.answer = a]
<1>2. a \in AnswerType /\ (a.valid => /\ caller[c].valid /\ a.version = rules
                                      /\ a.prices = Resolve(a.book))
  <2>1. CASE caller[c].valid /\ rules # 0
    <3>1. a = [valid |-> TRUE, version |-> rules, book |-> book, prices |-> Resolve(book)]
      BY <2>1
    <3> HIDE DEF a
    <3> QED  BY <2>1, <3>1 DEF AnswerType, TypeOK
  <2>2. CASE ~(caller[c].valid /\ rules # 0)
    <3>1. a = NoAnswer  BY <2>2
    <3> HIDE DEF a
    <3> QED  BY <3>1, IdleType DEF NoAnswer
  <2> QED  BY <2>1, <2>2
<1>3. caller' = [caller EXCEPT ![c] = r]  BY <1>1
<1> HIDE DEF a
<1>4. caller[c] \in CallerType  BY DEF TypeOK
<1>5. r \in CallerType /\ r.pc = "done" /\ r.load = caller[c].load
      /\ r.valid = caller[c].valid /\ r.answer = a
  BY <1>2, <1>4 DEF CallerType, AnswerType
<1> HIDE DEF r
<1>6. Moved(c) /\ caller'[c] = r  BY <1>3, <1>5, Moves
<1> QED  BY <1>2, <1>5, <1>6

LEMMA ReturnMoves ==
  ASSUME TypeOK, NEW c \in Callers, Return(c) PROVE Moved(c) /\ caller'[c] = Idle
  BY IdleType, Moves DEF Return

-----------------------------------------------------------------------------
(* What the steps of a load do to it.                                        *)

LoadMoved(l) ==
  /\ loads' \in Seq(LoadType) /\ Len(loads') = Len(loads) /\ DOMAIN loads' = DOMAIN loads
  /\ \A k \in DOMAIN loads \ {l} : loads'[k] = loads[k]

LEMMA LoadsShape ==
  ASSUME TypeOK
  PROVE  /\ DOMAIN loads = 1..Len(loads) /\ Len(loads) \in Nat
         /\ \A l \in DOMAIN loads : loads[l] \in LoadType
<1>1. DOMAIN loads = 1..Len(loads) /\ Len(loads) \in Nat  BY DEF TypeOK
<1>2. \A l \in 1..Len(loads) : loads[l] \in LoadType  BY ElementOfSeq DEF TypeOK
<1> QED  BY <1>1, <1>2

LEMMA LoadSet ==
  ASSUME TypeOK, NEW l \in DOMAIN loads, NEW d \in LoadType, loads' = [loads EXCEPT ![l] = d]
  PROVE  LoadMoved(l) /\ loads'[l] = d
<1>1. l \in 1..Len(loads) /\ loads \in Seq(LoadType)  BY LoadsShape DEF TypeOK
<1>2. loads' \in Seq(LoadType) /\ Len(loads') = Len(loads)  BY <1>1, ExceptSeq
<1> QED  BY <1>1, <1>2 DEF LoadMoved

LEMMA SendMoves ==
  ASSUME TypeOK, NEW l \in DOMAIN loads, Send(l)
  PROVE  /\ LoadMoved(l) /\ loads'[l].pc = "sent" /\ loads'[l].tag = etag
         /\ loads'[l].reply = loads[l].reply /\ loads'[l].version = loads[l].version
<1> DEFINE d == [loads[l] EXCEPT !.pc = "sent", !.tag = etag]
<1>1. loads[l] \in LoadType /\ etag \in 0..MaxVersions  BY LoadsShape DEF TypeOK
<1>2. d \in LoadType /\ d.pc = "sent" /\ d.tag = etag
      /\ d.reply = loads[l].reply /\ d.version = loads[l].version
  BY <1>1 DEF LoadType, Running
<1>3. loads' = [loads EXCEPT ![l] = d]  BY DEF Send
<1> HIDE DEF d
<1> QED  BY <1>2, <1>3, LoadSet

LEMMA ServeMoves ==
  ASSUME TypeOK, NEW l \in DOMAIN loads, Serve(l)
  PROVE  /\ LoadMoved(l) /\ loads'[l].pc = "replied" /\ loads'[l].tag = loads[l].tag
         /\ loads'[l].version = server
         /\ loads'[l].reply = "not_modified" => loads[l].tag = server
<1>1. PICK reply \in {"not_modified", "ok", "throttle", "error"} :
        /\ reply = "not_modified" => loads[l].tag = server
        /\ loads' = [loads EXCEPT ![l].pc = "replied", ![l].reply = reply, ![l].version = server]
  BY DEF Serve
<1> DEFINE d == [loads[l] EXCEPT !.pc = "replied", !.reply = reply, !.version = server]
<1>2. loads[l] \in LoadType /\ server \in 0..MaxVersions  BY LoadsShape, Constants DEF TypeOK
<1>3. d \in LoadType /\ d.pc = "replied" /\ d.tag = loads[l].tag
      /\ d.reply = reply /\ d.version = server
  BY <1>2 DEF LoadType, Running
<1>4. loads' = [loads EXCEPT ![l] = d]  BY <1>1
<1> HIDE DEF d
<1>5. LoadMoved(l) /\ loads'[l] = d  BY <1>3, <1>4, LoadSet
<1> QED  BY <1>1, <1>3, <1>5

LEMMA EndMoves ==
  ASSUME TypeOK, NEW l \in DOMAIN loads, NEW how \in {"ok", "failed"}, End(l, how)
  PROVE  /\ LoadMoved(l) /\ loads'[l].pc = how /\ loads'[l].version = loads[l].version
<1> DEFINE d == [loads[l] EXCEPT !.pc = how, !.tag = 0, !.reply = "none"]
<1>1. loads[l] \in LoadType /\ 0 \in 0..MaxVersions  BY LoadsShape, Constants
<1>2. d \in LoadType /\ d.pc = how /\ d.version = loads[l].version
  BY <1>1 DEF LoadType
<1>3. loads' = [loads EXCEPT ![l] = d]  BY DEF End
<1> HIDE DEF d
<1> QED  BY <1>2, <1>3, LoadSet

\* StoreETag and StoreRules.
LEMMA GoesOnMoves ==
  ASSUME TypeOK, NEW l \in DOMAIN loads, NEW pc \in {"reading", "stored"},
         loads' = [loads EXCEPT ![l].pc = pc]
  PROVE  /\ LoadMoved(l) /\ loads'[l].pc = pc /\ loads'[l].version = loads[l].version
<1> DEFINE d == [loads[l] EXCEPT !.pc = pc]
<1>1. loads[l] \in LoadType  BY LoadsShape
<1>2. d \in LoadType /\ d.pc = pc /\ d.version = loads[l].version
  BY <1>1 DEF LoadType, Running
<1>3. loads' = [loads EXCEPT ![l] = d]  OBVIOUS
<1> HIDE DEF d
<1> QED  BY <1>2, <1>3, LoadSet

NewLoad == [pc |-> "starting", tag |-> 0, reply |-> "none", version |-> 0]

LEMMA AppendMoves ==
  ASSUME TypeOK, NEW c \in Callers, StartLoad(c)
  PROVE  /\ loads' \in Seq(LoadType) /\ Len(loads') = Len(loads) + 1
         /\ DOMAIN loads' = 1..(Len(loads) + 1)
         /\ \A l \in DOMAIN loads : loads'[l] = loads[l]
         /\ loads'[Len(loads) + 1] = NewLoad
<1>1. NewLoad \in LoadType  BY Constants DEF NewLoad, LoadType, Running
<1>2. loads' = Append(loads, NewLoad)  BY DEF StartLoad, NewLoad
<1>3. loads \in Seq(LoadType)  BY DEF TypeOK
<1> HIDE DEF NewLoad
<1> QED  BY <1>1, <1>2, <1>3

-----------------------------------------------------------------------------
(* The callers that wait, and types.                                         *)

LEMMA WaitingMoves ==
  ASSUME IsFiniteSet(Waiting), NEW c \in Callers, Moved(c)
  PROVE  /\ IsFiniteSet(Waiting')
         /\ Cardinality(Waiting') = Cardinality(Waiting)
              + (IF caller'[c].pc = "waiting" /\ caller[c].pc # "waiting" THEN 1
                 ELSE IF caller'[c].pc # "waiting" /\ caller[c].pc = "waiting" THEN -1
                 ELSE 0)
<1>1. Cardinality(Waiting) \in Nat  BY FS_CardinalityType
<1>2. \A d \in Callers \ {c} : d \in Waiting' <=> d \in Waiting  BY DEF Moved, Waiting
<1>3. Waiting' \subseteq Callers /\ Waiting \subseteq Callers  BY DEF Waiting
<1>4. (c \in Waiting' <=> caller'[c].pc = "waiting") /\ (c \in Waiting <=> caller[c].pc = "waiting")
  BY DEF Waiting
<1>5. CASE c \in Waiting' /\ c \notin Waiting
  <2>1. Waiting' = Waiting \cup {c}  BY <1>2, <1>3, <1>5
  <2> QED  BY <1>1, <1>4, <1>5, <2>1, FS_AddElement
<1>6. CASE c \notin Waiting' /\ c \in Waiting
  <2>1. Waiting' = Waiting \ {c}  BY <1>2, <1>3, <1>6
  <2> QED  BY <1>1, <1>4, <1>6, <2>1, FS_RemoveElement
<1>7. CASE c \in Waiting' <=> c \in Waiting
  <2>1. Waiting' = Waiting  BY <1>2, <1>3, <1>7
  <2> QED  BY <1>1, <1>4, <1>7, <2>1
<1> QED  BY <1>5, <1>6, <1>7

-----------------------------------------------------------------------------
(* Steps of loadRules leave the callers alone.                               *)

LEMMA LoadSteps ==
  ASSUME TypeOK, NEW l \in DOMAIN loads, LoadRules(l)
  PROVE  /\ LoadMoved(l) /\ loads[l].pc \in Running
         /\ rules' \in 0..MaxVersions /\ etag' \in 0..MaxVersions
         /\ fresh' \in BOOLEAN /\ throttled' \in BOOLEAN /\ disturbed' \in BOOLEAN
         /\ disturbed => disturbed'
         /\ UNCHANGED <<server, lock, caller, calls>>
<1>1. loads[l] \in LoadType  BY LoadsShape
<1>2. loads[l].version \in 0..MaxVersions  BY <1>1 DEF LoadType
<1> USE DEF TypeOK, Running
<1>3. CASE Send(l)  BY <1>3, SendMoves DEF Send
<1>4. CASE Serve(l)  BY <1>4, ServeMoves DEF Serve
<1>5. CASE NotModified(l)  BY <1>5, EndMoves DEF NotModified
<1>6. CASE TooManyRequests(l)  BY <1>6, EndMoves DEF TooManyRequests
<1>7. CASE RequestFails(l)  BY <1>7, EndMoves DEF RequestFails
<1>8. CASE StoreETag(l)  BY <1>2, <1>8, GoesOnMoves DEF StoreETag
<1>9. CASE BodyFails(l)  BY <1>9, EndMoves DEF BodyFails
<1>10. CASE StoreRules(l)  BY <1>2, <1>10, GoesOnMoves DEF StoreRules, Loaded
<1>11. CASE StoreTime(l)  BY <1>11, EndMoves DEF StoreTime
<1> QED  BY <1>3, <1>4, <1>5, <1>6, <1>7, <1>8, <1>9, <1>10, <1>11 DEF LoadRules

\* An answer stays as current as it was: a load that ended learns nothing more.
LEMMA LoadKeepsCallers ==
  ASSUME Inv, NEW l \in DOMAIN loads, LoadRules(l)
  PROVE  TypeOK' /\ Counted' /\ (\A c \in Callers : CallerInv(c)') /\ ReloadConfirmed'
<1>1. LoadMoved(l) /\ loads[l].pc \in Running /\ caller' = caller /\ calls' = calls
  BY LoadSteps DEF Inv
<1>2. Len(loads') = Len(loads)  BY <1>1 DEF LoadMoved
<1>3. TypeOK'
  <2>1. loads' \in Seq(LoadType)  BY <1>1 DEF LoadMoved
  <2> QED  BY <2>1, LoadSteps DEF Inv, TypeOK
<1>4. Counted'
  <2>1. Waiting' = Waiting  BY <1>1 DEF Waiting
  <2> QED  BY <1>1, <1>2, <2>1 DEF Inv, Counted
<1>5. ASSUME NEW c \in Callers, loads[caller[c].load].pc = "ok", caller[c].load # 0
      PROVE  loads'[caller[c].load] = loads[caller[c].load]
  <2>1. CallerInv(c) /\ TypeOK  BY DEF Inv
  <2>2. caller[c].load \in DOMAIN loads  BY <1>5, <2>1, LoadsShape DEF CallerInv
  <2>3. caller[c].load # l  BY <1>1, <1>5 DEF Running
  <2> QED  BY <1>1, <2>2, <2>3 DEF LoadMoved
<1>6. ASSUME NEW c \in Callers PROVE CallerInv(c)'
  <2>1. CallerInv(c)  BY DEF Inv
  <2> QED  BY <1>1, <1>2, <1>5, <2>1 DEF CallerInv
<1>7. ReloadConfirmed'
  <2> SUFFICES ASSUME ~disturbed', NEW c \in Callers,
                      Answered(c)', caller'[c].load # 0
               PROVE  caller'[c].answer.version >= loads'[caller'[c].load].version
    BY DEF ReloadConfirmed, AnswerCurrent
  <2>1. Answered(c) /\ caller[c].load # 0  BY <1>1 DEF Answered
  <2>2. loads[caller[c].load].pc = "ok"  BY <2>1 DEF Inv, CallerInv, Answered
  <2>3. ~disturbed  BY LoadSteps DEF Inv
  <2> QED  BY <1>1, <1>5, <2>1, <2>2, <2>3 DEF Inv, ReloadConfirmed, AnswerCurrent
<1> QED  BY <1>3, <1>4, <1>6, <1>7
LEMMA LoadKeepsPast ==
  ASSUME Inv, NEW l \in DOMAIN loads, LoadRules(l) PROVE Past'
<1>1. LoadMoved(l) /\ server' = server  BY LoadSteps DEF Inv
<1>2. loads[l].version <= server /\ Past /\ TypeOK  BY DEF Inv, Past
<1>3. /\ rules' = rules \/ rules' = loads[l].version
      /\ etag' = etag \/ etag' = loads[l].version
  BY DEF LoadRules, Send, Serve, NotModified, TooManyRequests, RequestFails, StoreETag,
         BodyFails, StoreRules, StoreTime, Loaded
<1>4. loads'[l].version = loads[l].version \/ loads'[l].version = server
  BY <1>2, SendMoves, ServeMoves, EndMoves, GoesOnMoves
     DEF LoadRules, NotModified, TooManyRequests, RequestFails, StoreETag,
         BodyFails, StoreRules, StoreTime
<1>5. server \in Int  BY <1>2, Constants DEF TypeOK
<1>6. \A k \in DOMAIN loads' : loads'[k].version <= server
  BY <1>1, <1>2, <1>4, <1>5 DEF LoadMoved, Past
<1> QED  BY <1>1, <1>2, <1>3, <1>6 DEF Past

\* The load that moves is the one under way, so the others ended.
LEMMA LoadKeepsConfirmed ==
  ASSUME Inv, NEW l \in DOMAIN loads, LoadRules(l), ~disturbed' PROVE Confirmed'
<1>1. /\ LoadMoved(l) /\ loads[l].pc \in Running
      /\ TypeOK /\ Past /\ Confirmed /\ server' = server
  BY LoadSteps DEF Inv
<1>2. l \in InFlight  BY <1>1 DEF InFlight
<1>3. \A k \in DOMAIN loads \ {l} : loads[k].pc \notin Running  BY <1>1, <1>2 DEF Confirmed, InFlight
<1>4. \A k, m \in InFlight' : k = m
  <2>1. \A k \in InFlight' : k = l  BY <1>1, <1>3 DEF LoadMoved, InFlight
  <2> QED  BY <2>1
<1>5. \A k \in DOMAIN loads \ {l} : loads[k].pc # "reading"  BY <1>3 DEF Running
<1>6. rules \in Int /\ etag \in Int /\ server \in Int  BY <1>1, Constants DEF TypeOK
<1>7. \A k \in DOMAIN loads : loads[k].version \in Int
  BY <1>1, LoadsShape, Constants DEF LoadType
<1> DEFINE d == loads[l]
           e == loads'[l]
<1>8. /\ rules <= rules' /\ rules' \in Int
      /\ e.pc # "reading" => etag' = rules'
      /\ e.pc = "reading" => etag' = e.version /\ rules' <= e.version
      /\ e.pc = "stored" => rules' = e.version
      /\ e.pc \in {"sent", "replied"} => e.tag = etag'
      /\ e.pc = "replied" => rules' <= e.version
      /\ e.pc = "replied" /\ e.reply = "not_modified" => e.version = e.tag
      /\ e.pc = "ok" => rules' >= e.version
  <2>0. /\ d.pc = "reading" => etag = d.version /\ rules <= d.version
        /\ d.pc = "stored" => rules = d.version
        /\ d.pc \in {"sent", "replied"} => d.tag = etag
        /\ d.pc = "replied" => rules <= d.version
        /\ d.pc = "replied" /\ d.reply = "not_modified" => d.version = d.tag
    BY <1>1 DEF Confirmed
  <2>1. d.pc # "reading" => etag = rules  BY <1>1, <1>5 DEF Confirmed
  <2>2. rules <= server  BY <1>1 DEF Past
  <2>3. CASE Send(l)
    <3>1. e.pc = "sent" /\ e.tag = etag /\ d.pc = "starting"  BY <1>1, <2>3, SendMoves DEF Send
    <3>2. rules' = rules /\ etag' = etag  BY <2>3 DEF Send
    <3> QED  BY <1>6, <2>1, <3>1, <3>2
  <2>4. CASE Serve(l)
    <3>1. /\ e.pc = "replied" /\ e.tag = d.tag /\ e.version = server /\ d.pc = "sent"
          /\ e.reply = "not_modified" => d.tag = server
      BY <1>1, <2>4, ServeMoves DEF Serve
    <3>2. rules' = rules /\ etag' = etag  BY <2>4 DEF Serve
    <3> QED  BY <1>6, <2>0, <2>1, <2>2, <3>1, <3>2
  <2>5. CASE NotModified(l)
    <3>1. e.pc = "ok" /\ e.version = d.version /\ d.pc = "replied" /\ d.reply = "not_modified"
      BY <1>1, <2>5, EndMoves DEF NotModified
    <3>2. rules' = rules /\ etag' = etag  BY <2>5 DEF NotModified
    <3> QED  BY <1>6, <2>0, <2>1, <3>1, <3>2
  <2>6. CASE TooManyRequests(l) \/ RequestFails(l)
    <3>1. e.pc = "failed" /\ d.pc = "replied"
      BY <1>1, <2>6, EndMoves DEF TooManyRequests, RequestFails
    <3>2. rules' = rules /\ etag' = etag  BY <2>6 DEF TooManyRequests, RequestFails
    <3> QED  BY <1>6, <2>1, <3>1, <3>2
  <2>7. CASE StoreETag(l)
    <3>1. e.pc = "reading" /\ e.version = d.version /\ d.pc = "replied"
      BY <1>1, <2>7, GoesOnMoves DEF StoreETag
    <3>2. rules' = rules /\ etag' = d.version  BY <2>7 DEF StoreETag
    <3> QED  BY <1>6, <2>0, <3>1, <3>2
  <2>8. CASE BodyFails(l)  BY <2>8 DEF BodyFails
  <2>9. CASE StoreRules(l)
    <3>1. e.pc = "stored" /\ e.version = d.version /\ d.pc = "reading"
      BY <1>1, <2>9, GoesOnMoves DEF StoreRules
    <3>2. rules' = d.version /\ etag' = etag  BY <2>9 DEF StoreRules, Loaded
    <3> QED  BY <1>6, <1>7, <2>0, <3>1, <3>2
  <2>10. CASE StoreTime(l)
    <3>1. e.pc = "ok" /\ e.version = d.version /\ d.pc = "stored"
      BY <1>1, <2>10, EndMoves DEF StoreTime
    <3>2. rules' = rules /\ etag' = etag  BY <2>10 DEF StoreTime
    <3> QED  BY <1>6, <2>0, <2>1, <3>1, <3>2
  <2> QED  BY <2>3, <2>4, <2>5, <2>6, <2>7, <2>8, <2>9, <2>10 DEF LoadRules
<1>9. DOMAIN loads' = DOMAIN loads /\ \A k \in DOMAIN loads \ {l} : loads'[k] = loads[k]
  BY <1>1 DEF LoadMoved
<1>10. \A k \in DOMAIN loads \ {l} :
         /\ loads[k].pc \notin {"reading", "stored", "sent", "replied"}
         /\ loads[k].pc = "ok" => rules' >= loads[k].version
  BY <1>1, <1>3, <1>6, <1>7, <1>8 DEF Confirmed, Running
<1>11. (\A k \in DOMAIN loads' : loads'[k].pc # "reading") => etag' = rules'
  BY <1>8, <1>9
<1> QED  BY <1>4, <1>8, <1>9, <1>10, <1>11 DEF Confirmed
-----------------------------------------------------------------------------
(* Steps of PricesFor.                                                       *)

\* A caller that waits has a call left for its load.
LEMMA Room ==
  ASSUME TypeOK, Counted, NEW c \in Callers, caller[c].pc = "waiting"
  PROVE  Len(loads) + 1 \in 0..MaxCalls
<1>1. c \in Waiting  BY DEF Waiting
<1>2. Cardinality(Waiting) \in Nat /\ Cardinality(Waiting) # 0
  BY <1>1, FS_CardinalityType, FS_EmptySet DEF Counted
<1> QED  BY <1>2, LoadsShape, Constants DEF Counted

LEMMA StartLoadStep ==
  ASSUME TypeOK, Counted, NEW c \in Callers, StartLoad(c)
  PROVE  /\ Moved(c) /\ caller'[c].pc = "loading" /\ caller'[c].load = Len(loads) + 1
         /\ caller'[c].valid = caller[c].valid /\ caller'[c].answer = caller[c].answer
<1>1. caller[c].pc = "waiting"  BY DEF StartLoad
<1>2. Len(loads) + 1 \in 0..MaxCalls  BY <1>1, Room
<1> QED  BY <1>2, StartLoadMoves

LEMMA CallerSteps ==
  ASSUME TypeOK, Counted, NEW c \in Callers, PricesFor(c)
  PROVE  /\ Moved(c)
         /\ (loads' = loads /\ disturbed' = disturbed) \/ StartLoad(c)
         /\ \/ lock' = lock /\ caller[c].pc # "loading" /\ caller'[c].pc # "loading"
            \/ lock \in {0, c} /\ lock' = 0 /\ caller'[c].pc # "loading"
            \/ lock = 0 /\ lock' = c /\ caller'[c].pc = "loading"
         /\ UNCHANGED <<server, rules, etag, fresh, throttled>>
<1>1. CASE Call(c)  BY <1>1, CallMoves DEF Call
<1>2. CASE UseCache(c)
  <2>1. fresh \in BOOLEAN /\ Leave(c, fresh)  BY <1>2 DEF UseCache, TypeOK
  <2>2. lock' = 0  BY <2>1 DEF Leave
  <2> QED  BY <1>2, <2>1, <2>2, LeaveMoves DEF UseCache
<1>3. CASE StartLoad(c)  BY <1>3, StartLoadStep DEF StartLoad
<1>4. CASE LoadEnds(c) \/ Timeout(c)
  <2>1. PICK valid \in BOOLEAN : Leave(c, valid)  BY <1>4 DEF LoadEnds, Timeout
  <2>2. lock' = 0 /\ caller[c].pc = "loading"  BY <1>4, <2>1 DEF Leave, LoadEnds, Timeout
  <2>3. lock = c  BY <2>2 DEF TypeOK
  <2> QED  BY <1>4, <2>1, <2>2, <2>3, LeaveMoves DEF LoadEnds, Timeout
<1>5. CASE Answer(c)  BY <1>5, AnswerMoves DEF Answer
<1>6. CASE Return(c)
  <2>1. Moved(c) /\ caller'[c].pc = "idle"  BY <1>6, ReturnMoves DEF Idle
  <2>2. caller[c].pc = "done"  BY <1>6 DEF Return
  <2> QED  BY <1>6, <2>1, <2>2 DEF Return
<1> QED  BY <1>1, <1>2, <1>3, <1>4, <1>5, <1>6 DEF PricesFor

LEMMA CallerKeepsTypes ==
  ASSUME TypeOK, Counted, NEW c \in Callers, PricesFor(c)
  PROVE  TypeOK' /\ Counted'
<1>1. Moved(c) /\ UNCHANGED <<server, rules, etag, fresh, throttled>>  BY CallerSteps
<1>2. lock' \in Callers \cup {0}  BY CallerSteps DEF TypeOK
<1>3. ASSUME NEW d \in Callers PROVE caller'[d].pc = "loading" <=> lock' = d
  <2>1. CASE d = c  BY <2>1, CallerSteps, Constants DEF TypeOK
  <2>2. CASE d # c
    <3>1. caller'[d] = caller[d]  BY <1>1, <2>2 DEF Moved
    <3>2. lock' = d <=> lock = d  BY <2>2, CallerSteps, Constants
    <3> QED  BY <3>1, <3>2 DEF TypeOK
  <2> QED  BY <2>1, <2>2
<1>4. loads' \in Seq(LoadType) /\ disturbed' \in BOOLEAN
  <2>1. CASE loads' = loads /\ disturbed' = disturbed  BY <2>1 DEF TypeOK
  <2>2. CASE StartLoad(c)
    <3>1. disturbed' \in BOOLEAN  BY <2>2 DEF StartLoad, TypeOK
    <3> QED  BY <2>2, <3>1, AppendMoves
  <2> QED  BY <2>1, <2>2, CallerSteps
<1>5. Counted'
  <2>1. Cardinality(Waiting) \in Nat /\ Len(loads) \in Nat /\ MaxCalls \in Nat
    BY FS_CardinalityType, LoadsShape, Constants DEF Counted
  <2>2. CASE Call(c)
    <3>1. caller[c].pc = "idle" /\ caller'[c].pc = "waiting"  BY <2>2, CallMoves DEF Call
    <3>2. calls' = calls + 1 /\ calls < MaxCalls /\ loads' = loads  BY <2>2 DEF Call
    <3> QED  BY <1>1, <2>1, <3>1, <3>2, WaitingMoves DEF Counted
  <2>3. CASE StartLoad(c)
    <3>1. caller[c].pc = "waiting" /\ caller'[c].pc = "loading" /\ calls' = calls
      BY <2>3, StartLoadStep DEF StartLoad
    <3>2. Len(loads') = Len(loads) + 1  BY <2>3, AppendMoves
    <3> QED  BY <1>1, <2>1, <3>1, <3>2, WaitingMoves DEF Counted
  <2>4. CASE ~Call(c) /\ ~StartLoad(c)
    <3>1. loads' = loads  BY <2>4, CallerSteps
    <3>2. calls' = calls
      BY <2>4 DEF PricesFor, UseCache, LoadEnds, Timeout, Answer, Return
    <3>3. caller'[c].pc # "waiting"
      <4>1. CASE \E valid \in BOOLEAN : Leave(c, valid)  BY <4>1, LeaveMoves
      <4>2. CASE Answer(c)  BY <4>2, AnswerMoves
      <4>3. CASE Return(c)  BY <4>3, ReturnMoves DEF Idle
      <4> QED
        BY <2>4, <4>1, <4>2, <4>3 DEF PricesFor, UseCache, LoadEnds, Timeout, TypeOK
    <3> QED  BY <1>1, <2>1, <3>1, <3>2, <3>3, WaitingMoves DEF Counted
  <2> QED  BY <2>2, <2>3, <2>4
<1>6. caller' \in [Callers -> CallerType] /\ calls' \in 0..MaxCalls
  BY <1>1, <1>5 DEF Moved, Counted
<1> QED  BY <1>1, <1>2, <1>3, <1>4, <1>5, <1>6 DEF TypeOK
\* What callers know of loads stays true when a load is added.
LEMMA LoadsKept ==
  ASSUME TypeOK, Counted, NEW c \in Callers, PricesFor(c)
  PROVE  /\ Len(loads) <= Len(loads')
         /\ \A l \in 1..Len(loads) : loads'[l] = loads[l]
<1>1. CASE loads' = loads  BY <1>1, LoadsShape
<1>2. CASE StartLoad(c)  BY <1>2, AppendMoves, LoadsShape
<1> QED  BY <1>1, <1>2, CallerSteps

LEMMA CallerKeepsInv ==
  ASSUME TypeOK, Counted, NEW c \in Callers, PricesFor(c), CallerInv(c) PROVE CallerInv(c)'
<1> DEFINE r == caller[c]
           s == caller'[c]
<1>1. r.load \in 0..Len(loads) /\ Len(loads) \in Nat /\ Len(loads') \in Nat
  BY LoadsShape, CallerKeepsTypes DEF CallerInv, TypeOK
<1>2. Len(loads) <= Len(loads') /\ \A l \in 1..Len(loads) : loads'[l] = loads[l]
  BY LoadsKept
<1>3. CASE Call(c)
  <2>1. r = Idle  BY <1>3 DEF Call, CallerInv
  <2>2. s.pc = "waiting" /\ s.load = 0 /\ ~s.answer.valid
    BY <1>3, <2>1, CallMoves DEF Idle, NoAnswer
  <2> QED  BY <1>1, <2>2 DEF CallerInv
<1>4. CASE UseCache(c)
  <2>1. r.load = 0 /\ ~r.answer.valid  BY <1>4 DEF UseCache, CallerInv
  <2>2. fresh \in BOOLEAN /\ Leave(c, fresh)  BY <1>4 DEF UseCache, TypeOK
  <2>3. s.pc = "answering" /\ s.load = 0 /\ ~s.answer.valid  BY <2>1, <2>2, LeaveMoves
  <2> QED  BY <1>1, <2>3 DEF CallerInv
<1>5. CASE StartLoad(c)
  <2>1. ~r.answer.valid  BY <1>5 DEF StartLoad, CallerInv
  <2>2. s.pc = "loading" /\ s.load = Len(loads) + 1 /\ ~s.answer.valid
    BY <1>5, <2>1, StartLoadStep
  <2>3. Len(loads') = Len(loads) + 1  BY <1>5, AppendMoves
  <2> QED  BY <1>1, <2>2, <2>3 DEF CallerInv
<1>6. CASE LoadEnds(c) \/ Timeout(c)
  <2>1. ~r.answer.valid /\ r.load # 0  BY <1>6 DEF LoadEnds, Timeout, CallerInv
  <2>2. PICK valid \in BOOLEAN : Leave(c, valid) /\ (valid => loads[r.load].pc = "ok")
    BY <1>6 DEF LoadEnds, Timeout
  <2>3. s.pc = "answering" /\ s.load = r.load /\ ~s.answer.valid /\ s.valid = valid
    BY <2>1, <2>2, LeaveMoves
  <2>4. loads'[r.load] = loads[r.load]  BY <1>1, <1>2, <2>1
  <2> QED  BY <1>1, <1>2, <2>2, <2>3, <2>4 DEF CallerInv
<1>7. CASE Answer(c)
  <2>1. r.pc = "answering"  BY <1>7 DEF Answer
  <2>2. /\ s.pc = "done" /\ s.load = r.load /\ s.valid = r.valid
        /\ s.answer.valid => r.valid /\ s.answer.prices = Resolve(s.answer.book)
    BY <1>7, AnswerMoves
  <2>3. r.load # 0 => loads'[r.load] = loads[r.load]  BY <1>1, <1>2
  <2>4. r.valid /\ r.load # 0 => loads[r.load].pc = "ok"  BY <2>1 DEF CallerInv
  <2> QED  BY <1>1, <1>2, <2>2, <2>3, <2>4 DEF CallerInv
<1>8. CASE Return(c)
  <2>1. s = Idle  BY <1>8, ReturnMoves
  <2>2. s.pc = "idle" /\ s.load = 0 /\ ~s.answer.valid  BY <2>1 DEF Idle, NoAnswer
  <2> QED  BY <1>1, <2>1, <2>2 DEF CallerInv
<1> QED  BY <1>3, <1>4, <1>5, <1>6, <1>7, <1>8 DEF PricesFor

LEMMA OthersKeepInv ==
  ASSUME TypeOK, Counted, NEW c \in Callers, PricesFor(c), NEW d \in Callers \ {c}, CallerInv(d)
  PROVE  CallerInv(d)'
<1>1. caller'[d] = caller[d]  BY CallerSteps DEF Moved
<1>2. Len(loads) <= Len(loads') /\ \A l \in 1..Len(loads) : loads'[l] = loads[l]
  BY LoadsKept
<1>3. caller[d].load \in 0..Len(loads) /\ Len(loads) \in Nat /\ Len(loads') \in Nat
  BY LoadsShape, CallerKeepsTypes DEF CallerInv, TypeOK
<1>4. caller[d].load # 0 => loads'[caller[d].load] = loads[caller[d].load]  BY <1>2, <1>3
<1> QED  BY <1>1, <1>2, <1>3, <1>4 DEF CallerInv

\* A load starts with nothing learnt; when another is under way, history says so.
LEMMA CallerKeepsLoads ==
  ASSUME Inv, NEW c \in Callers, PricesFor(c)
  PROVE  Past' /\ (~disturbed' => Confirmed')
<1>1. UNCHANGED <<server, rules, etag>> /\ TypeOK /\ Past /\ (~disturbed => Confirmed)
  BY CallerSteps DEF Inv
<1>2. CASE loads' = loads /\ disturbed' = disturbed
  <2>1. Past'  BY <1>1, <1>2 DEF Past
  <2>2. InFlight' = InFlight  BY <1>2 DEF InFlight
  <2>3. ASSUME ~disturbed' PROVE Confirmed'  BY <1>1, <1>2, <2>2, <2>3 DEF Confirmed
  <2> QED  BY <2>1, <2>3
<1>3. CASE StartLoad(c)
  <2> DEFINE n == Len(loads) + 1
  <2>1. DOMAIN loads = 1..Len(loads) /\ Len(loads) \in Nat  BY <1>1, LoadsShape
  <2>2. DOMAIN loads' = 1..n  BY <1>1, <1>3, AppendMoves
  <2>3. \A l \in DOMAIN loads : loads'[l] = loads[l]  BY <1>1, <1>3, AppendMoves
  <2>4. loads'[n] = NewLoad  BY <1>1, <1>3, AppendMoves
  <2>5. loads'[n].pc = "starting" /\ loads'[n].version = 0  BY <2>4 DEF NewLoad
  <2>6. n \in DOMAIN loads' /\ \A l \in DOMAIN loads' : l = n \/ l \in DOMAIN loads
    BY <2>1, <2>2
  <2> HIDE DEF n
  <2>7. Past'
    <3>1. 0 <= server  BY <1>1, Constants DEF TypeOK
    <3> QED  BY <1>1, <2>3, <2>5, <2>6, <3>1 DEF Past
  <2>8. ASSUME ~disturbed' PROVE Confirmed'
    <3>1. ~disturbed /\ InFlight = {}  BY <1>3, <2>8 DEF StartLoad
    <3>2. \A l \in DOMAIN loads : loads[l].pc \notin Running  BY <3>1 DEF InFlight
    <3>3. \A l \in InFlight' : l = n  BY <2>3, <2>6, <3>2 DEF InFlight
    <3>4. etag' = rules'  BY <1>1, <3>1, <3>2 DEF Confirmed, Running
    <3>5. \A k, l \in InFlight' : k = l  BY <3>3
    <3>6. \A l \in DOMAIN loads :
            loads[l].pc \notin {"reading", "stored", "sent", "replied"}
      BY <3>2 DEF Running
    <3>7. \A l \in DOMAIN loads : loads[l].pc = "ok" => rules' >= loads[l].version
      BY <1>1, <3>1 DEF Confirmed
    <3> QED  BY <2>3, <2>5, <2>6, <3>4, <3>5, <3>6, <3>7 DEF Confirmed
  <2> QED  BY <2>7, <2>8
<1> QED  BY <1>1, <1>2, <1>3, CallerSteps DEF Inv

\* The rules an answer takes were confirmed by the load it waited for.
LEMMA CallerKeepsAnswers ==
  ASSUME Inv, NEW c \in Callers, PricesFor(c) PROVE ReloadConfirmed'
<1> SUFFICES ASSUME ~disturbed', NEW d \in Callers, Answered(d)', caller'[d].load # 0
             PROVE  caller'[d].answer.version >= loads'[caller'[d].load].version
  BY DEF ReloadConfirmed, AnswerCurrent
<1>1. TypeOK /\ Counted /\ CallerInv(d)  BY DEF Inv
<1>2. ~disturbed
  <2>1. CASE StartLoad(c)  BY <2>1 DEF StartLoad
  <2> QED  BY <1>1, <2>1, CallerSteps
<1>3. caller[d].load \in 0..Len(loads) /\ \A l \in 1..Len(loads) : loads'[l] = loads[l]
  BY <1>1, LoadsKept DEF CallerInv
<1>4. DOMAIN loads = 1..Len(loads) /\ Len(loads) \in Nat  BY <1>1, LoadsShape
<1>5. CASE caller'[d] = caller[d]
  <2>1. caller[d].answer.version >= loads[caller[d].load].version
    BY <1>2, <1>5 DEF Inv, ReloadConfirmed, AnswerCurrent, Answered
  <2> QED  BY <1>3, <1>4, <1>5, <2>1
<1>6. CASE caller'[d] # caller[d]
  <2>1. d = c  BY <1>1, <1>6, CallerSteps DEF Moved
  <2>2. Answer(c)
    <3>1. caller'[c].pc = "done"  BY <2>1 DEF Answered
    <3>2. ~Call(c)  BY <1>1, <3>1, CallMoves
    <3>3. ~StartLoad(c)  BY <1>1, <3>1, StartLoadStep
    <3>4. ~Return(c)  BY <1>1, <3>1, ReturnMoves DEF Idle
    <3>5. ~(\E valid \in BOOLEAN : Leave(c, valid))  BY <1>1, <3>1, LeaveMoves
    <3> QED
      BY <1>1, <3>2, <3>3, <3>4, <3>5 DEF PricesFor, UseCache, LoadEnds, Timeout, TypeOK
  <2>3. /\ caller'[c].load = caller[c].load /\ caller[c].valid
        /\ caller'[c].answer.version = rules /\ caller[c].pc = "answering"
    BY <1>1, <2>1, <2>2, AnswerMoves DEF Answered, Answer
  <2>4. loads[caller[c].load].pc = "ok" /\ caller[c].load \in DOMAIN loads
    BY <1>1, <1>3, <1>4, <2>1, <2>3 DEF CallerInv
  <2>5. rules >= loads[caller[c].load].version  BY <1>2, <2>4 DEF Inv, Confirmed
  <2> QED  BY <1>3, <1>4, <2>1, <2>3, <2>4, <2>5
<1> QED  BY <1>5, <1>6
-----------------------------------------------------------------------------
(* The invariant, and the theorems.                                          *)

LEMMA InvInit == Init => Inv
<1> SUFFICES ASSUME Init PROVE Inv  OBVIOUS
<1>1. \A c \in Callers : caller[c] = Idle  BY DEF Init
<1>2. \A c \in Callers : caller[c].pc = "idle" /\ caller[c].load = 0 /\ ~caller[c].answer.valid
  BY <1>1 DEF Idle, NoAnswer
<1>3. Waiting = {}  BY <1>2 DEF Waiting
<1>4. loads = <<>> /\ Len(loads) = 0 /\ DOMAIN loads = {} /\ loads \in Seq(LoadType)
  BY DEF Init
<1>5. TypeOK
  <2>1. caller \in [Callers -> CallerType]  BY IdleType DEF Init
  <2>2. \A c \in Callers : caller[c].pc = "loading" <=> lock = c
    BY <1>2, Constants DEF Init
  <2>3. calls = 0 /\ 0 \in 0..MaxCalls  BY Constants DEF Init
  <2>4. /\ server = 1 /\ 1 \in Versions /\ rules = 0 /\ etag = 0 /\ 0 \in 0..MaxVersions
    BY Constants DEF Init
  <2>5. fresh = FALSE /\ throttled = FALSE /\ disturbed = FALSE /\ lock = 0  BY DEF Init
  <2> QED  BY <1>4, <2>1, <2>2, <2>3, <2>4, <2>5 DEF TypeOK
<1>6. Counted  BY <1>3, <1>4, FS_EmptySet, Constants DEF Init, Counted
<1>7. \A c \in Callers : CallerInv(c)  BY <1>1, <1>2, <1>4 DEF CallerInv
<1>8. Past  BY <1>4 DEF Init, Past
<1>9. Confirmed  BY <1>4 DEF Init, Confirmed, InFlight
<1>10. ReloadConfirmed  BY <1>2 DEF ReloadConfirmed, AnswerCurrent, Answered
<1> QED  BY <1>5, <1>6, <1>7, <1>8, <1>9, <1>10 DEF Inv

LEMMA InvNext == Inv /\ [Next]_vars => Inv'
<1> SUFFICES ASSUME Inv, [Next]_vars PROVE Inv'  OBVIOUS
<1>1. ASSUME NEW c \in Callers, PricesFor(c) PROVE Inv'
  <2>1. \A d \in Callers : CallerInv(d)'
    BY <1>1, CallerKeepsInv, OthersKeepInv DEF Inv
  <2>2. TypeOK' /\ Counted'  BY <1>1, CallerKeepsTypes DEF Inv
  <2>3. Past' /\ (~disturbed' => Confirmed')  BY <1>1, CallerKeepsLoads
  <2>4. ReloadConfirmed'  BY <1>1, CallerKeepsAnswers
  <2> QED  BY <2>1, <2>2, <2>3, <2>4 DEF Inv
<1>2. ASSUME NEW l \in DOMAIN loads, LoadRules(l) PROVE Inv'
  <2>1. TypeOK' /\ Counted' /\ (\A c \in Callers : CallerInv(c)') /\ ReloadConfirmed'
    BY <1>2, LoadKeepsCallers
  <2>2. Past'  BY <1>2, LoadKeepsPast
  <2>3. ~disturbed' => Confirmed'  BY <1>2, LoadKeepsConfirmed
  <2> QED  BY <2>1, <2>2, <2>3 DEF Inv
<1>3. CASE CachePeriodEnds \/ BackoffEnds \/ RulesChange \/ UNCHANGED vars
  <2>1. UNCHANGED <<rules, etag, lock, caller, loads, calls, disturbed>>
    BY <1>3 DEF CachePeriodEnds, BackoffEnds, RulesChange, vars
  <2>2. server' \in Versions /\ server <= server'
    BY <1>3, Constants DEF Inv, TypeOK, CachePeriodEnds, BackoffEnds, RulesChange, vars
  <2>3. fresh' \in BOOLEAN /\ throttled' \in BOOLEAN
    BY <1>3 DEF Inv, TypeOK, CachePeriodEnds, BackoffEnds, RulesChange, vars
  <2>4. TypeOK'  BY <2>1, <2>2, <2>3 DEF Inv, TypeOK
  <2>5. Waiting' = Waiting /\ InFlight' = InFlight  BY <2>1 DEF Waiting, InFlight
  <2>6. Counted' /\ (\A c \in Callers : CallerInv(c)')
    BY <2>1, <2>5 DEF Inv, Counted, CallerInv
  <2>7. Past'
    <3>1. rules \in Int /\ etag \in Int /\ server \in Int /\ server' \in Int
      BY <2>2, Constants DEF Inv, TypeOK
    <3>2. \A l \in DOMAIN loads : loads[l].version \in Int
      BY LoadsShape, Constants DEF Inv, LoadType
    <3> QED  BY <2>1, <2>2, <3>1, <3>2 DEF Inv, Past
  <2>8. ~disturbed' => Confirmed'  BY <2>1, <2>5 DEF Inv, Confirmed
  <2>9. ReloadConfirmed'  BY <2>1 DEF Inv, ReloadConfirmed, AnswerCurrent, Answered
  <2> QED  BY <2>4, <2>6, <2>7, <2>8, <2>9 DEF Inv
<1> QED  BY <1>1, <1>2, <1>3 DEF Next

LEMMA Invariance == Spec => []Inv
  BY InvInit, InvNext, PTL DEF Spec

\* Every reachable state is well formed; in particular the mutex is held
\* exactly while its holder waits for a load (maybeReloadRules' deferred
\* Unlock).
THEOREM PricingTypes == Spec => []TypeOK
<1>1. Inv => TypeOK  BY DEF Inv
<1> QED  BY <1>1, Invariance, PTL

\* "It returns valid = false if the cached rules were expired but couldn't be
\* reloaded": an answer of PricesFor has no rules older than what the API said
\* to the reload it waited for, until a body is lost after its ETag was stored
\* (loadRules) or two loads run at once.
THEOREM AnswersConfirmed == Spec => []ReloadConfirmed
<1>1. Inv => ReloadConfirmed  BY DEF Inv
<1> QED  BY <1>1, Invariance, PTL

\* What a valid answer holds is what clientRules.PricesFor resolves.
LEMMA AnswersResolved ==
  ASSUME Inv, NEW c \in Callers, Answered(c), caller[c].answer.prices.allow
  PROVE  LET book == caller[c].answer.book
         IN  book \in Rulebook /\ ~Refuses(book) /\ caller[c].answer.prices = Resolve(book)
<1> DEFINE book == caller[c].answer.book
<1>1. caller[c] \in CallerType  BY DEF Inv, TypeOK
<1>2. book \in Rulebook  BY <1>1, Constants DEF CallerType
<1>3. caller[c].answer.prices = Resolve(book)  BY DEF Inv, CallerInv, Answered
<1> HIDE DEF book
<1>4. ~Refuses(book)  BY <1>2, <1>3, ResolveOutcome
<1> QED  BY <1>2, <1>3, <1>4 DEF book

\* "rules are checked in sequence and the first match wins": in every answer
\* the price for verified deals is that of the first rule that covers the
\* auction and is not for unverified deals only.
THEOREM VerifiedAnswers == Spec => []VerifiedFirstMatch
<1>1. ASSUME Inv PROVE VerifiedFirstMatch
  BY <1>1, AnswersResolved, VerifiedPrice DEF VerifiedFirstMatch
<1> QED  BY <1>1, Invariance, PTL

\* The else-branch of the loop: in every answer the price for unverified deals
\* is quoted by a covering rule for them, and a rule for unverified deals only
\* is never passed over in vain.
THEOREM UnverifiedAnswers == Spec => []UnverifiedQuoted
<1>1. ASSUME Inv, NEW c \in Callers, Answered(c), caller[c].answer.prices.allow
      PROVE  LET book   == caller[c].answer.book
                 quotes == Quotes(book, UnverifiedKinds)
                 price  == caller[c].answer.prices.unverified
             IN  /\ price # NoPrice => \E i \in quotes : book.rules[i].price = price
                 /\ (\E i \in quotes : book.rules[i].verified = "false") => price # NoPrice
  <2> DEFINE book == caller[c].answer.book
  <2>1. book \in Rulebook /\ ~Refuses(book) /\ caller[c].answer.prices = Resolve(book)
    BY <1>1, AnswersResolved
  <2> HIDE DEF book
  <2>2. LET quotes == Quotes(book, UnverifiedKinds)
            price  == Resolve(book).unverified
        IN  /\ price # NoPrice => \E i \in quotes : book.rules[i].price = price
            /\ (\E i \in quotes : book.rules[i].verified = "false") => price # NoPrice
    BY <2>1, UnverifiedPrice
  <2> QED  BY <2>1, <2>2 DEF book
<1>2. Inv => UnverifiedQuoted  BY <1>1 DEF UnverifiedQuoted
<1> QED  BY <1>2, Invariance, PTL
=============================================================================
