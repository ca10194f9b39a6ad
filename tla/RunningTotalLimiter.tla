------------------------ MODULE RunningTotalLimiter ------------------------
(***************************************************************************)
(* The bytes limiter (service/limiter/running_total_limiter.go): tokens    *)
(* are requested for a while, secured before they expire, and committed    *)
(* for a period or withdrawn.  Each method runs under one mutex and is one *)
(* step.  A request expires by a time.AfterFunc timer, whose function runs *)
(* in a goroutine of its own: it fires at one moment and gets the mutex at *)
(* a later one.                                                            *)
(***************************************************************************)
EXTENDS Integers, Sequences, FiniteSetsExt

CONSTANTS Ids,        \* what tokens are requested for (auction ids)
          Sizes,      \* how many tokens one request may ask for
          Limit,      \* the cap on the running total
          Period,     \* how long committed tokens count
          Expiration, \* how long a request waits to be secured
          Word,       \* uint64 arithmetic is modulo Word
          MaxLag,     \* bound: how long a Request waits for the mutex
          MaxTime,    \* bound on the clock
          MaxGrants   \* bound on the requests granted

ASSUME LimiterAssumption ==
  /\ Sizes \subseteq Nat \ {0}
  /\ Limit \in Nat /\ Period \in Nat /\ Expiration \in Nat
  /\ Word \in Nat /\ Limit < Word /\ \A n \in Sizes : Limit + n < Word
  /\ MaxLag \in Nat /\ MaxTime \in Nat /\ MaxGrants \in Nat

VARIABLES
  now,       \* the clock
  total,     \* rl.total
  requested, \* rl.requested: id -> tokens and timer; timer 0 when absent
  committed, \* rl.committed: the list of committed tokens
  timers,    \* every timer made so far; requested refers to them by position
  secured,   \* history: ids whose present request was secured
  leaked,    \* history: tokens of requests replaced by one with the same id
  log        \* history: every commit, also those dropped from committed

vars == <<now, total, requested, committed, timers, secured, leaked, log>>

NoRequest     == [n |-> 0, t |-> 0]
Requested(id) == requested[id].t # 0
Without(id)   == [requested EXCEPT ![id] = NoRequest]

Minus(a, b) == (a - b + Word) % Word
Plus(a, b)  == (a + b) % Word

Sum(f)       == MapThenSumSet(LAMBDA x : f[x], DOMAIN f)
Tokens(list) == Sum([i \in DOMAIN list |-> list[i].n])

\* Time passes.  Nothing forces a timer to fire, or a fired one to run, at once.
Tick ==
  /\ now < MaxTime
  /\ now' = now + 1
  /\ UNCHANGED <<total, requested, committed, timers, secured, leaked, log>>

\* A timer expires: from here on Stop does not stop it.
Fire(t) ==
  /\ timers[t].state = "armed"
  /\ now >= timers[t].at
  /\ timers' = [timers EXCEPT ![t].state = "fired"]
  /\ UNCHANGED <<now, total, requested, committed, secured, leaked, log>>

-----------------------------------------------------------------------------
\* How many committed elements, from the oldest on, are older than the period.
MutantExpired(seen) ==                        \* at the period's very end
  CHOOSE k \in 0..Len(committed) :
    /\ \A i \in 1..k : seen - committed[i].ts >= Period
    /\ k < Len(committed) => seen - committed[k + 1].ts < Period

Expired(seen) ==
  CHOOSE k \in 0..Len(committed) :
    /\ \A i \in 1..k : seen - committed[i].ts > Period
    /\ k < Len(committed) => seen - committed[k + 1].ts <= Period

MutantFits(rest, n) == rest < Limit           \* the request itself forgotten
\* Is there room for n more tokens?
Fits(rest, n) == Plus(rest, n) <= Limit

\* Request: the clock is read before the mutex is taken.
Request(id, n) ==
  \E seen \in (now - MaxLag)..now :
    LET k    == Expired(seen)
        rest == Minus(total, Tokens(SubSeq(committed, 1, k)))
    IN  /\ seen >= 0
        /\ committed' = SubSeq(committed, k + 1, Len(committed))
        /\ \/ /\ ~Fits(rest, n)
              /\ total' = rest
              /\ UNCHANGED <<requested, timers, secured, leaked>>
           \/ /\ Fits(rest, n)
              /\ Len(timers) < MaxGrants
              /\ total'     = Plus(rest, n)
              /\ timers'    = Append(timers, [id |-> id, at |-> now + Expiration,
                                              state |-> "armed"])
              /\ requested' = [requested EXCEPT ![id] = [n |-> n, t |-> Len(timers) + 1]]
              /\ secured'   = secured \ {id}
              /\ leaked'    = leaked + requested[id].n
        /\ UNCHANGED <<now, log>>

MutantStopped(t) == timers                    \* Secure does not stop the timer
\* t.Stop() of the timer at position t.
Stopped(t) == IF timers[t].state = "armed"
              THEN [timers EXCEPT ![t].state = "stopped"] ELSE timers

Secure(id) ==
  /\ Requested(id)
  /\ timers'  = Stopped(requested[id].t)
  /\ secured' = secured \cup {id}
  /\ UNCHANGED <<now, total, requested, committed, leaked, log>>

Commit(id) ==
  /\ Requested(id)
  /\ committed' = Append(committed, [n |-> requested[id].n, ts |-> now])
  /\ log'       = Append(log, [n |-> requested[id].n, ts |-> now])
  /\ requested' = Without(id)
  /\ secured'   = secured \ {id}
  /\ UNCHANGED <<now, total, timers, leaked>>

\* Drop the request for id, if there is one, and give its tokens back.
MutantDrop(id) ==                             \* the total is not lowered
  requested' = Without(id) /\ total' = total /\ secured' = secured \ {id}
Drop(id) ==
  /\ requested' = Without(id)
  /\ total'     = Minus(total, requested[id].n)
  /\ secured'   = secured \ {id}

\* Withdraw, called by the store.
Withdraw(id) ==
  /\ Requested(id)
  /\ Drop(id)
  /\ UNCHANGED <<now, committed, timers, leaked, log>>

\* Withdraw, called by the goroutine of a timer that fired.
Expire(t) ==
  /\ timers[t].state = "fired"
  /\ timers' = [timers EXCEPT ![t].state = "done"]
  /\ Drop(timers[t].id)
  /\ UNCHANGED <<now, committed, leaked, log>>

-----------------------------------------------------------------------------
Init ==
  /\ now       = 0
  /\ total     = 0
  /\ requested = [id \in Ids |-> NoRequest]
  /\ committed = <<>>
  /\ timers    = <<>>
  /\ secured   = {}
  /\ leaked    = 0
  /\ log       = <<>>

Call(id) == Secure(id) \/ Commit(id) \/ Withdraw(id) \/ \E n \in Sizes : Request(id, n)

Next ==
  \/ Tick
  \/ \E t \in DOMAIN timers : Fire(t) \/ Expire(t)
  \/ \E id \in Ids : Call(id)

Spec == Init /\ [][Next]_vars

-----------------------------------------------------------------------------
TypeOK ==
  /\ now \in 0..MaxTime
  /\ total \in 0..Limit
  /\ requested \in [Ids -> [n: Sizes \cup {0}, t: Nat]]
  /\ committed \in Seq([n: Sizes, ts: Nat])
  /\ timers \in Seq([id: Ids, at: Nat, state: {"armed", "fired", "stopped", "done"}])
  /\ secured \in SUBSET Ids
  /\ leaked \in Nat
  /\ log \in Seq([n: Sizes, ts: Nat])

Waiting(r)      == {id \in Ids : r[id].t # 0}
AllRequested(r) == Sum([id \in Waiting(r) |-> r[id].n])

\* The running total is exactly what is committed and requested, plus what a
\* repeated Request for an id left behind: withdrawals, expiries and evictions
\* in any order neither lose nor double-count a token.
Accounting == total = AllRequested(requested) + Tokens(committed) + leaked

\* "caps the running total in the 'period' to 'limit'": in no window of the
\* period were more tokens committed than the limit allows, whatever was
\* evicted, expired or requested meanwhile.
InWindow(all, from) ==
  Sum([i \in {j \in DOMAIN all : all[j].ts \in from..(from + Period)} |-> all[i].n])
WindowCapped == \A from \in 0..now : InWindow(log, from) <= Limit

\* "the tokens must be secured before expiration": a request nobody secured
\* still has its own timer to take it back; the timer of a secured one is
\* stopped, unless it had fired before Secure got the mutex.
TimersOwned ==
  \A id \in Ids : Requested(id) =>
    LET t == requested[id].t
    IN  /\ timers[t].id = id
        /\ timers[t].state \in IF id \in secured THEN {"stopped", "fired"}
                              ELSE {"armed", "fired"}
=============================================================================
