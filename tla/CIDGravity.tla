----------------------------- MODULE CIDGravity -----------------------------
(***************************************************************************)
(* The cached rules of one client (service/pricing/cid_gravity.go).  Bids  *)
(* made at once all ask for prices; the one that has the mutex reloads     *)
(* expired rules in a goroutine and waits for it, up to a timeout; the     *)
(* goroutine goes on in the background.  Rules, ETag, the time of the last *)
(* load and the end of a backoff are atomics that loads write one by one.  *)
(*                                                                         *)
(* The clock is abstracted: the cache period, the backoff and the timeout  *)
(* may end at any moment.                                                  *)
(***************************************************************************)
EXTENDS PriceRules, FiniteSets

CONSTANTS Callers,     \* bids being made at once (makeBid goroutines)
          Books,       \* rulebooks the API may return
          MaxVersions, \* bound: how often the rulebook changes at the API, plus one
          MaxCalls     \* bound on the calls of PricesFor, hence on loads

ASSUME BooksAssumption   == Books # {} /\ Books \subseteq Rulebook
ASSUME CallersAssumption == Callers # {} /\ 0 \notin Callers
ASSUME BoundsAssumption  == MaxVersions \in Nat \ {0} /\ MaxCalls \in Nat

VARIABLES
  server,    \* version of the rulebook the API has now; its ETag names it
  rules,     \* cg.rules: version of the cached rulebook, 0 for none
  etag,      \* cg.rulesETag: 0 for none
  fresh,     \* was rulesLastUpdated less than the cache period ago?
  throttled, \* is it before apiThrottlingReset?
  lock,      \* who holds lkLoadRules; 0 for nobody
  caller,    \* where each caller of PricesFor is, its load and its answer
  loads,     \* the goroutines running loadRules, in the order they started
  calls,     \* calls made so far
  disturbed  \* history: a body was lost, or two loads ran at once

vars == <<server, rules, etag, fresh, throttled, lock, caller, loads, calls, disturbed>>

Versions == 1..MaxVersions
Running  == {"starting", "sent", "replied", "reading", "stored"}

NoBook   == CHOOSE k \in Books : TRUE
NoAnswer == [valid |-> FALSE, version |-> 0, book |-> NoBook, prices |-> NoPrices]
Idle     == [pc |-> "idle", load |-> 0, valid |-> FALSE, answer |-> NoAnswer]

InFlight == {l \in DOMAIN loads : loads[l].pc \in Running}

-----------------------------------------------------------------------------
(* PricesFor and maybeReloadRules.                                           *)

Call(c) ==
  /\ caller[c].pc = "idle"
  /\ calls < MaxCalls
  /\ calls'  = calls + 1
  /\ caller' = [caller EXCEPT ![c].pc = "waiting"]
  /\ UNCHANGED <<server, rules, etag, fresh, throttled, lock, loads, disturbed>>

MutantLeave(c, valid) ==        \* the mutex is kept when there is no answer
  /\ caller' = [caller EXCEPT ![c].pc = "answering", ![c].valid = valid]
  /\ lock'   = IF valid THEN 0 ELSE lock

\* maybeReloadRules returns valid, and the deferred Unlock runs.
Leave(c, valid) ==
  /\ caller' = [caller EXCEPT ![c].pc = "answering", ![c].valid = valid]
  /\ lock'   = 0

\* Under the mutex: the cache still counts, or the API asked to back off.
UseCache(c) ==
  /\ caller[c].pc = "waiting" /\ lock = 0
  /\ fresh \/ throttled
  /\ Leave(c, fresh)
  /\ UNCHANGED <<server, rules, etag, fresh, throttled, loads, calls, disturbed>>

StartLoad(c) ==
  /\ caller[c].pc = "waiting" /\ lock = 0
  /\ ~fresh /\ ~throttled
  /\ lock'      = c
  /\ caller'    = [caller EXCEPT ![c].pc = "loading", ![c].load = Len(loads) + 1]
  /\ loads'     = Append(loads, [pc |-> "starting", tag |-> 0, reply |-> "none", version |-> 0])
  /\ disturbed' = (disturbed \/ InFlight # {})
  /\ UNCHANGED <<server, rules, etag, fresh, throttled, calls>>

\* The load ends before the timeout.
LoadEnds(c) ==
  /\ caller[c].pc = "loading"
  /\ loads[caller[c].load].pc \in {"ok", "failed"}
  /\ Leave(c, loads[caller[c].load].pc = "ok")
  /\ UNCHANGED <<server, rules, etag, fresh, throttled, loads, calls, disturbed>>

MutantTimeout(c) == FALSE /\ UNCHANGED vars     \* wait for the load for ever
\* cidGravityLoadRulesTimeout: the load goes on in the background.
Timeout(c) ==
  /\ caller[c].pc = "loading"
  /\ Leave(c, FALSE)
  /\ UNCHANGED <<server, rules, etag, fresh, throttled, loads, calls, disturbed>>

\* The rest of PricesFor, without the mutex: the rules are read now.
Answer(c) ==
  /\ caller[c].pc = "answering"
  /\ \E book \in IF caller[c].valid /\ rules # 0 THEN Books ELSE {NoBook} :
       caller' = [caller EXCEPT ![c].pc = "done",
         ![c].answer = IF caller[c].valid /\ rules # 0
                       THEN [valid |-> TRUE, version |-> rules, book |-> book,
                             prices |-> Resolve(book)]
                       ELSE NoAnswer]
  /\ UNCHANGED <<server, rules, etag, fresh, throttled, lock, loads, calls, disturbed>>

Return(c) ==
  /\ caller[c].pc = "done"
  /\ caller' = [caller EXCEPT ![c] = Idle]
  /\ UNCHANGED <<server, rules, etag, fresh, throttled, lock, loads, calls, disturbed>>

-----------------------------------------------------------------------------
(* loadRules.                                                                *)

\* The goroutine ends; only what it learnt of the API's version matters still.
End(l, how) ==
  loads' = [loads EXCEPT ![l] = [@ EXCEPT !.pc = how, !.tag = 0, !.reply = "none"]]

\* The request carries the ETag of the moment.
Send(l) ==
  /\ loads[l].pc = "starting"
  /\ loads' = [loads EXCEPT ![l].pc = "sent", ![l].tag = etag]
  /\ UNCHANGED <<server, rules, etag, fresh, throttled, lock, caller, calls, disturbed>>

\* The API replies, if it ever does.
Serve(l) ==
  /\ loads[l].pc = "sent"
  /\ \E reply \in {"not_modified", "ok", "throttle", "error"} :
       /\ reply = "ok" => loads[l].tag # server
       /\ reply = "not_modified" => loads[l].tag = server
       /\ loads' = [loads EXCEPT ![l].pc = "replied", ![l].reply = reply,
                                 ![l].version = server]
  /\ UNCHANGED <<server, rules, etag, fresh, throttled, lock, caller, calls, disturbed>>

NotModified(l) ==
  /\ loads[l].pc = "replied" /\ loads[l].reply = "not_modified"
  /\ End(l, "ok")
  /\ UNCHANGED <<server, rules, etag, fresh, throttled, lock, caller, calls, disturbed>>

TooManyRequests(l) ==
  /\ loads[l].pc = "replied" /\ loads[l].reply = "throttle"
  /\ End(l, "failed")
  /\ throttled' = TRUE
  /\ UNCHANGED <<server, rules, etag, fresh, lock, caller, calls, disturbed>>

RequestFails(l) ==
  /\ loads[l].pc = "replied" /\ loads[l].reply = "error"
  /\ End(l, "failed")
  /\ UNCHANGED <<server, rules, etag, fresh, throttled, lock, caller, calls, disturbed>>

\* 200: the ETag is stored before the body is read.
StoreETag(l) ==
  /\ loads[l].pc = "replied" /\ loads[l].reply = "ok"
  /\ etag'  = loads[l].version
  /\ loads' = [loads EXCEPT ![l].pc = "reading"]
  /\ UNCHANGED <<server, rules, fresh, throttled, lock, caller, calls, disturbed>>

\* The body cannot be read or parsed.
BodyFails(l) ==
  /\ loads[l].pc = "reading"
  /\ End(l, "failed")
  /\ disturbed' = TRUE
  /\ UNCHANGED <<server, rules, etag, fresh, throttled, lock, caller, calls>>

MutantLoaded(l) ==              \* kept from the first load on
  IF rules = 0 THEN loads[l].version ELSE rules
Loaded(l) == loads[l].version

StoreRules(l) ==
  /\ loads[l].pc = "reading"
  /\ rules' = Loaded(l)
  /\ loads' = [loads EXCEPT ![l].pc = "stored"]
  /\ UNCHANGED <<server, etag, fresh, throttled, lock, caller, calls, disturbed>>

StoreTime(l) ==
  /\ loads[l].pc = "stored"
  /\ fresh' = TRUE
  /\ End(l, "ok")
  /\ UNCHANGED <<server, rules, etag, throttled, lock, caller, calls, disturbed>>

-----------------------------------------------------------------------------
(* The clock and the API.                                                    *)

CachePeriodEnds ==
  /\ fresh
  /\ fresh' = FALSE
  /\ UNCHANGED <<server, rules, etag, throttled, lock, caller, loads, calls, disturbed>>

BackoffEnds ==
  /\ throttled
  /\ throttled' = FALSE
  /\ UNCHANGED <<server, rules, etag, fresh, lock, caller, loads, calls, disturbed>>

RulesChange ==
  /\ server < MaxVersions
  /\ server' = server + 1
  /\ UNCHANGED <<rules, etag, fresh, throttled, lock, caller, loads, calls, disturbed>>

-----------------------------------------------------------------------------
Init ==
  /\ server    = 1
  /\ rules     = 0
  /\ etag      = 0
  /\ fresh     = FALSE
  /\ throttled = FALSE
  /\ lock      = 0
  /\ caller    = [c \in Callers |-> Idle]
  /\ loads     = <<>>
  /\ calls     = 0
  /\ disturbed = FALSE

PricesFor(c) ==
  Call(c) \/ UseCache(c) \/ StartLoad(c) \/ LoadEnds(c) \/ Timeout(c) \/ Answer(c) \/ Return(c)

LoadRules(l) ==
  \/ Send(l) \/ Serve(l)
  \/ NotModified(l) \/ TooManyRequests(l) \/ RequestFails(l)
  \/ StoreETag(l) \/ BodyFails(l) \/ StoreRules(l) \/ StoreTime(l)

Next ==
  \/ \E c \in Callers : PricesFor(c)
  \/ \E l \in DOMAIN loads : LoadRules(l)
  \/ CachePeriodEnds \/ BackoffEnds \/ RulesChange

Spec == Init /\ [][Next]_vars

\* A goroutine that can go on does; sync.Mutex starves nobody; the timer of
\* the timeout fires.  The API owes no reply.
Fairness ==
  \A c \in Callers : /\ SF_vars(UseCache(c) \/ StartLoad(c))
                     /\ WF_vars(LoadEnds(c) \/ Timeout(c) \/ Answer(c) \/ Return(c))

FairSpec == Spec /\ Fairness

-----------------------------------------------------------------------------
CallerType == [pc: {"idle", "waiting", "loading", "answering", "done"},
               load: 0..MaxCalls, valid: BOOLEAN,
               answer: [valid: BOOLEAN, version: 0..MaxVersions, book: Books,
                        prices: {NoPrices} \cup {Resolve(k) : k \in Books}]]
LoadType   == [pc: Running \cup {"ok", "failed"}, tag: 0..MaxVersions,
               reply: {"none", "not_modified", "ok", "throttle", "error"},
               version: 0..MaxVersions]

\* The mutex is held exactly while its holder waits for a load.
TypeOK ==
  /\ server \in Versions
  /\ rules \in 0..MaxVersions /\ etag \in 0..MaxVersions
  /\ fresh \in BOOLEAN /\ throttled \in BOOLEAN /\ disturbed \in BOOLEAN
  /\ lock \in Callers \cup {0}
  /\ caller \in [Callers -> CallerType]
  /\ \A c \in Callers : caller[c].pc = "loading" <=> lock = c
  /\ loads \in Seq(LoadType)
  /\ calls \in 0..MaxCalls

Answered(c) == caller[c].pc = "done" /\ caller[c].answer.valid

\* The rules an answer uses are no older than what the API said to the reload
\* the call waited for.
AnswerCurrent(c) ==
  Answered(c) /\ caller[c].load # 0
    => caller[c].answer.version >= loads[caller[c].load].version

\* "It returns valid = false if the cached rules were expired but couldn't be
\* reloaded": without lost bodies and overlapping loads, ETag and rules go
\* together and a 304 confirms the rules that are cached.
ReloadConfirmed == ~disturbed => \A c \in Callers : AnswerCurrent(c)

\* "rules are checked in sequence and the first match wins": true of the
\* price for verified deals.
VerifiedFirstMatch ==
  \A c \in Callers : Answered(c) /\ caller[c].answer.prices.allow =>
    LET book == caller[c].answer.book
    IN  caller[c].answer.prices.verified = FirstPrice(book, Quotes(book, VerifiedKinds))

\* The price for unverified deals is quoted by a rule for them that covers the
\* auction, and a rule for unverified deals only is never passed over in vain.
UnverifiedQuoted ==
  \A c \in Callers : Answered(c) /\ caller[c].answer.prices.allow =>
    LET book   == caller[c].answer.book
        quotes == Quotes(book, UnverifiedKinds)
        price  == caller[c].answer.prices.unverified
    IN  /\ price # NoPrice => \E i \in quotes : book.rules[i].price = price
        /\ (\E i \in quotes : book.rules[i].verified = "false") => price # NoPrice

\* Bidding never hangs on the API: a call returns although no reply comes and
\* other calls queue for the mutex.
CallReturns == \A c \in Callers : caller[c].pc = "waiting" ~> caller[c].pc = "idle"

-----------------------------------------------------------------------------
(* A statement of the documentation that the code does not keep.             *)

\* "It returns valid = false if the cached rules were expired but couldn't be
\* reloaded from the CID gravity API in time", in every case.
ValidMeansReloaded == \A c \in Callers : AnswerCurrent(c)
=============================================================================
