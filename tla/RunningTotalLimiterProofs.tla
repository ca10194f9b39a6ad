--------------------- MODULE RunningTotalLimiterProofs ---------------------
(***************************************************************************)
(* Proofs about the limiter, for every number of ids, size of requests,    *)
(* limit, period and delay of the mutex: its timers are owned, its total   *)
(* is accounted for to the token, and no window holds more than the limit. *)
(***************************************************************************)
EXTENDS RunningTotalLimiter, FiniteSetTheorems, SequenceTheorems, TLAPS

TimerStates == {"armed", "fired", "stopped", "done"}

\* The part of TypeOK that does not depend on the sums of tokens.
Typed ==
  /\ now \in Nat
  /\ requested \in [Ids -> [n: Sizes \cup {0}, t: Nat]]
  /\ timers \in Seq([id: Ids, at: Nat, state: TimerStates])

\* A request refers to a timer that exists, made for the same id, which has
\* not yet done its work.
OwnedBy(id) ==
  LET t == requested[id].t
  IN  /\ t \in DOMAIN timers
      /\ timers[t].id = id
      /\ timers[t].state \in IF id \in secured THEN {"stopped", "fired"} ELSE {"armed", "fired"}

Owned == Typed /\ \A id \in Ids : Requested(id) => OwnedBy(id)

\* A granted request gets a new timer; a refused one changes none.
LEMMA OwnedRequest ==
  ASSUME Owned, NEW id \in Ids, NEW n \in Sizes, Request(id, n) PROVE Owned'
<1>1. Typed /\ now' = now /\ Expiration \in Nat  BY LimiterAssumption DEF Owned, Request, Typed
<1>2. CASE UNCHANGED <<requested, timers, secured>>
  BY <1>1, <1>2 DEF Owned, Typed, Requested, OwnedBy
<1>3. CASE /\ timers'    = Append(timers, [id |-> id, at |-> now + Expiration, state |-> "armed"])
           /\ requested' = [requested EXCEPT ![id] = [n |-> n, t |-> Len(timers) + 1]]
           /\ secured'   = secured \ {id}
  <2> DEFINE T == [id |-> id, at |-> now + Expiration, state |-> "armed"]
  <2>1. T \in [id: Ids, at: Nat, state: TimerStates]  BY <1>1 DEF Typed, TimerStates
  <2>2. /\ Len(timers') = Len(timers) + 1
        /\ timers'[Len(timers) + 1] = T
        /\ \A i \in DOMAIN timers : timers'[i] = timers[i] /\ i \in DOMAIN timers'
        /\ Len(timers) + 1 \in DOMAIN timers'
        /\ timers' \in Seq([id: Ids, at: Nat, state: TimerStates])
    BY <1>1, <1>3, <2>1 DEF Typed
  <2>3. Typed'  BY <1>1, <1>3, <2>2 DEF Typed
  <2>4. ASSUME NEW c \in Ids, Requested(c)' PROVE OwnedBy(c)'
    <3>1. CASE c = id
      <4>1. requested'[c].t = Len(timers) + 1 /\ c \notin secured'
        BY <1>1, <1>3, <3>1 DEF Typed
      <4> QED  BY <2>2, <3>1, <4>1 DEF OwnedBy
    <3>2. CASE c # id
      <4>1. requested'[c] = requested[c] /\ (c \in secured' <=> c \in secured)
        BY <1>1, <1>3, <3>2 DEF Typed
      <4>2. OwnedBy(c)  BY <2>4, <4>1 DEF Owned, Requested
      <4> QED  BY <2>2, <4>1, <4>2 DEF OwnedBy
    <3> QED  BY <3>1, <3>2
  <2> QED  BY <2>3, <2>4 DEF Owned
<1> QED  BY <1>2, <1>3 DEF Request

\* A step that changes the state of one timer: the ids whose requests refer to
\* another one do not notice.
LEMMA OwnedElsewhere ==
  ASSUME Owned, NEW t \in DOMAIN timers, NEW s \in TimerStates,
         timers' = [timers EXCEPT ![t].state = s], now' = now,
         NEW c \in Ids, requested'[c] = requested[c], c \in secured' <=> c \in secured,
         Requested(c)', requested[c].t # t
  PROVE  OwnedBy(c)'
<1>1. OwnedBy(c)  BY DEF Owned, Requested
<1>2. DOMAIN timers' = DOMAIN timers /\ timers'[requested[c].t] = timers[requested[c].t]
  BY <1>1 DEF OwnedBy, Owned, Typed
<1> QED  BY <1>1, <1>2 DEF OwnedBy

LEMMA TimerType ==
  ASSUME Typed, NEW t \in DOMAIN timers
  PROVE  timers[t] \in [id: Ids, at: Nat, state: TimerStates]
<1>1. t \in 1..Len(timers)  BY DEF Typed
<1> QED  BY <1>1, ElementOfSeq DEF Typed

\* Types are kept by the change of one timer's state.
LEMMA TimersTyped ==
  ASSUME Typed, NEW t \in DOMAIN timers, NEW s \in TimerStates,
         timers' = [timers EXCEPT ![t].state = s]
  PROVE  /\ timers' \in Seq([id: Ids, at: Nat, state: TimerStates])
         /\ DOMAIN timers' = DOMAIN timers
         /\ timers'[t].id = timers[t].id /\ timers'[t].state = s
<1>1. timers[t] \in [id: Ids, at: Nat, state: TimerStates]  BY TimerType
<1>2. [timers[t] EXCEPT !.state = s] \in [id: Ids, at: Nat, state: TimerStates]  BY <1>1
<1>3. timers' = [timers EXCEPT ![t] = [timers[t] EXCEPT !.state = s]]  OBVIOUS
<1>4. /\ timers' \in Seq([id: Ids, at: Nat, state: TimerStates])
      /\ Len(timers') = Len(timers) /\ timers'[t] = [timers[t] EXCEPT !.state = s]
  <2>1. t \in 1..Len(timers)  BY DEF Typed
  <2> QED  BY <1>2, <1>3, <2>1, ExceptSeq DEF Typed
<1>5. DOMAIN timers' = DOMAIN timers  BY <1>3
<1> QED  BY <1>1, <1>4, <1>5

\* A request that is dropped or committed refers to no timer.
LEMMA WithoutTyped ==
  ASSUME Typed, NEW id \in Ids, requested' = Without(id)
  PROVE  /\ requested' \in [Ids -> [n: Sizes \cup {0}, t: Nat]]
         /\ ~Requested(id)'
         /\ \A c \in Ids \ {id} : requested'[c] = requested[c]
BY DEF Typed, Without, NoRequest, Requested

LEMMA OwnedSecure == ASSUME Owned, NEW id \in Ids, Secure(id) PROVE Owned'
<1> DEFINE t == requested[id].t
<1>1. Typed /\ OwnedBy(id) /\ t \in DOMAIN timers  BY DEF Owned, Secure, OwnedBy
<1>2. UNCHANGED <<now, requested>> /\ secured' = secured \cup {id}  BY DEF Secure
<1>3. CASE timers[t].state = "armed"
  <2>1. timers' = [timers EXCEPT ![t].state = "stopped"]  BY <1>3 DEF Secure, Stopped
  <2>2. /\ timers' \in Seq([id: Ids, at: Nat, state: TimerStates])
        /\ DOMAIN timers' = DOMAIN timers
        /\ timers'[t].id = timers[t].id /\ timers'[t].state = "stopped"
    BY <1>1, <2>1, TimersTyped DEF TimerStates
  <2>3. Typed'  BY <1>1, <1>2, <2>2 DEF Typed
  <2>4. OwnedBy(id)'  BY <1>1, <1>2, <2>2 DEF OwnedBy
  <2>5. ASSUME NEW c \in Ids \ {id}, Requested(c)' PROVE OwnedBy(c)'
    <3>1. OwnedBy(c)  BY <1>2, <2>5 DEF Owned, Requested
    <3>2. requested[c].t # t  BY <1>1, <2>5, <3>1 DEF OwnedBy
    <3> QED  BY <1>1, <1>2, <2>1, <2>5, <3>2, OwnedElsewhere DEF TimerStates
  <2> QED  BY <2>3, <2>4, <2>5 DEF Owned
<1>4. CASE timers[t].state # "armed"
  <2>1. timers' = timers  BY <1>4 DEF Secure, Stopped
  <2>2. timers[t].state = "fired" \/ timers[t].state = "stopped"
    BY <1>1, <1>4 DEF OwnedBy
  <2>3. OwnedBy(id)'  BY <1>1, <1>2, <2>1, <2>2 DEF OwnedBy
  <2>4. \A c \in Ids \ {id} : Requested(c)' => OwnedBy(c)'
    BY <1>2, <2>1 DEF Owned, Requested, OwnedBy
  <2> QED  BY <1>1, <1>2, <2>1, <2>3, <2>4 DEF Owned, Typed
<1> QED  BY <1>3, <1>4

\* Commit and the store's Withdraw.
LEMMA OwnedRelease ==
  ASSUME Owned, NEW id \in Ids, requested' = Without(id), secured' = secured \ {id},
         UNCHANGED <<now, timers>>
  PROVE  Owned'
<1>1. /\ requested' \in [Ids -> [n: Sizes \cup {0}, t: Nat]]
      /\ ~Requested(id)'
      /\ \A c \in Ids \ {id} : requested'[c] = requested[c]
  BY WithoutTyped DEF Owned
<1>2. \A c \in Ids \ {id} : Requested(c)' => OwnedBy(c)'
  BY <1>1 DEF Owned, Requested, OwnedBy
<1> QED  BY <1>1, <1>2 DEF Owned, Typed

LEMMA OwnedFire == ASSUME Owned, NEW t \in DOMAIN timers, Fire(t) PROVE Owned'
<1>1. /\ timers[t].state = "armed"
      /\ timers' = [timers EXCEPT ![t].state = "fired"]
      /\ UNCHANGED <<now, requested, secured>>
      /\ Typed
  BY DEF Fire, Owned
<1>2. /\ timers' \in Seq([id: Ids, at: Nat, state: TimerStates])
      /\ DOMAIN timers' = DOMAIN timers
      /\ timers'[t].id = timers[t].id /\ timers'[t].state = "fired"
  BY <1>1, TimersTyped DEF TimerStates
<1>3. ASSUME NEW c \in Ids, Requested(c)' PROVE OwnedBy(c)'
  <2>1. OwnedBy(c)  BY <1>1, <1>3 DEF Owned, Requested
  <2>2. CASE requested[c].t = t  BY <1>1, <1>2, <2>1, <2>2 DEF OwnedBy
  <2>3. CASE requested[c].t # t
    BY <1>1, <1>3, <2>3, OwnedElsewhere DEF TimerStates
  <2> QED  BY <2>2, <2>3
<1> QED  BY <1>1, <1>2, <1>3 DEF Owned, Typed

\* A timer that is done belongs to the one id whose request is gone.
LEMMA OwnedExpire == ASSUME Owned, NEW t \in DOMAIN timers, Expire(t) PROVE Owned'
<1>1. Typed  BY DEF Owned
<1>2. PICK id \in Ids : id = timers[t].id  BY <1>1, TimerType
<1>3. /\ timers' = [timers EXCEPT ![t].state = "done"] /\ now' = now
      /\ requested' = Without(id) /\ secured' = secured \ {id}
  BY <1>2 DEF Expire, Drop
<1>4. /\ timers' \in Seq([id: Ids, at: Nat, state: TimerStates])
      /\ DOMAIN timers' = DOMAIN timers
  BY <1>1, <1>3, TimersTyped DEF TimerStates
<1>5. /\ requested' \in [Ids -> [n: Sizes \cup {0}, t: Nat]]
      /\ ~Requested(id)'
      /\ \A c \in Ids \ {id} : requested'[c] = requested[c]
  BY <1>1, <1>3, WithoutTyped
<1>6. ASSUME NEW c \in Ids, Requested(c)' PROVE OwnedBy(c)'
  <2>1. c # id /\ requested'[c] = requested[c] /\ (c \in secured' <=> c \in secured)
    BY <1>3, <1>5, <1>6
  <2>2. OwnedBy(c)  BY <1>6, <2>1 DEF Owned, Requested
  <2>3. requested[c].t # t  BY <1>2, <2>1, <2>2 DEF OwnedBy
  <2> QED  BY <1>3, <1>6, <2>1, <2>3, OwnedElsewhere DEF TimerStates
<1> QED  BY <1>1, <1>3, <1>4, <1>5, <1>6 DEF Owned, Typed

LEMMA OwnedNext == ASSUME Owned, [Next]_vars PROVE Owned'
<1>1. CASE UNCHANGED vars
  BY <1>1 DEF vars, Owned, Typed, Requested, OwnedBy
<1>2. CASE Tick
  BY <1>2 DEF Tick, Owned, Typed, Requested, OwnedBy
<1>3. ASSUME NEW t \in DOMAIN timers, Fire(t) \/ Expire(t) PROVE Owned'
  BY <1>3, OwnedFire, OwnedExpire
<1>4. ASSUME NEW id \in Ids, Call(id) PROVE Owned'
  <2>1. CASE Secure(id)  BY <2>1, OwnedSecure
  <2>2. CASE Commit(id) \/ Withdraw(id)
    BY <2>2, OwnedRelease DEF Commit, Withdraw, Drop
  <2>3. CASE \E n \in Sizes : Request(id, n)  BY <2>3, OwnedRequest
  <2> QED  BY <1>4, <2>1, <2>2, <2>3 DEF Call
<1> QED  BY <1>1, <1>2, <1>3, <1>4 DEF Next

\* A request nobody secured still has its own timer to take it back, and the
\* timer of a secured one is stopped unless it had fired before (Request,
\* Secure), in whatever order calls and timers come.
THEOREM TimersStayOwned == Spec => []TimersOwned
<1>1. Init => Owned
  BY DEF Init, Owned, Typed, NoRequest, Requested
<1>2. Owned => TimersOwned  BY DEF Owned, OwnedBy, TimersOwned
<1> QED  BY <1>1, <1>2, OwnedNext, PTL DEF Spec

-----------------------------------------------------------------------------
(* Sums of natural numbers.  A sum counts cells: as many for each element of *)
(* the domain as its value says.                                             *)

Cells(f, s) == {p \in s \X Nat : p[2] \in 1..f[p[1]]}

\* Among some subsets of a finite set there is a smallest one.
LEMMA SmallestSubset ==
  ASSUME NEW D, IsFiniteSet(D), NEW B, B \subseteq SUBSET D, B # {}
  PROVE  \E s \in B : \A t \in B : ~(t \subseteq s /\ t # s)
<1>1. IsWellFoundedOn(StrictSubsetOrdering(D), SUBSET D)
  BY FS_StrictSubsetOrderingWellFounded, FS_FiniteSubsetsOfFinite
<1>2. PICK s \in B : \A t \in B : <<t, s>> \notin StrictSubsetOrdering(D)
  BY <1>1, WFMin, Zenon
<1> QED  BY <1>2 DEF StrictSubsetOrdering

LEMMA Column ==
  ASSUME NEW x, NEW n \in Nat
  PROVE  IsFiniteSet({x} \X (1..n)) /\ Cardinality({x} \X (1..n)) = n
<1>1. IsFiniteSet({x}) /\ Cardinality({x}) = 1  BY FS_Singleton
<1>2. IsFiniteSet(1..n) /\ Cardinality(1..n) = n  BY FS_Interval
<1>3. IsFiniteSet({x} \X (1..n)) /\ Cardinality({x} \X (1..n)) = Cardinality({x}) * Cardinality(1..n)
  BY <1>1, <1>2, FS_Product
<1> QED  BY <1>1, <1>2, <1>3

LEMMA CellsFinite ==
  ASSUME NEW D, IsFiniteSet(D), NEW f \in [D -> Nat]
  PROVE  \A s \in SUBSET D : IsFiniteSet(Cells(f, s))
<1> SUFFICES ASSUME NEW s \in SUBSET D PROVE IsFiniteSet(Cells(f, s))
  OBVIOUS
<1> DEFINE column == [x \in s |-> {x} \X (1..f[x])]
           T      == {column[x] : x \in s}
<1>1. IsFiniteSet(s)  BY FS_Subset
<1>2. column \in Surjection(s, T)  BY DEF Surjection
<1>3. IsFiniteSet(T)  BY <1>1, <1>2, FS_Surjection
<1>4. ASSUME NEW x \in s PROVE IsFiniteSet(column[x])
  <2>1. f[x] \in Nat  OBVIOUS
  <2> QED  BY <2>1, Column
<1>5. IsFiniteSet(UNION T)
  <2>1. \A t \in T : IsFiniteSet(t)  BY <1>4
  <2> HIDE DEF T
  <2> QED  BY <1>3, <2>1, FS_UNION
<1>6. Cells(f, s) \subseteq UNION T
  <2> SUFFICES ASSUME NEW p \in Cells(f, s) PROVE p \in UNION T
    OBVIOUS
  <2>1. p[1] \in s /\ p \in {p[1]} \X (1..f[p[1]])  BY DEF Cells
  <2>2. p \in column[p[1]] /\ column[p[1]] \in T  BY <2>1
  <2> QED  BY <2>2
<1> QED  BY <1>5, <1>6, FS_Subset

LEMMA CellsRemove ==
  ASSUME NEW D, IsFiniteSet(D), NEW f \in [D -> Nat], NEW s \in SUBSET D, NEW x \in s
  PROVE  Cardinality(Cells(f, s)) = f[x] + Cardinality(Cells(f, s \ {x}))
<1> DEFINE C == {x} \X (1..f[x])
           R == Cells(f, s \ {x})
<1>1. f[x] \in Nat  OBVIOUS
<1>2. IsFiniteSet(C) /\ Cardinality(C) = f[x]
  BY <1>1, Column
<1>3. IsFiniteSet(R)  BY CellsFinite
<1>4. Cells(f, s) = C \cup R /\ C \cap R = {}
  BY DEF Cells
<1>5. Cardinality(R) \in Nat  BY <1>3, FS_CardinalityType
<1>6. Cardinality(Cells(f, s)) = Cardinality(C) + Cardinality(R) - Cardinality(C \cap R)
  <2> HIDE DEF C, R
  <2> QED  BY <1>2, <1>3, <1>4, FS_Union
<1>7. Cardinality(C \cap R) = 0  BY <1>4, FS_EmptySet
<1> QED  BY <1>1, <1>2, <1>5, <1>6, <1>7

\* What the sum of f is computed with, for the subsets of its domain.
IsIter(it, f) ==
  it = [s \in SUBSET DOMAIN f |->
          IF s = {} THEN 0 ELSE LET x == CHOOSE x \in s : TRUE IN f[x] + it[s \ {x}]]

LEMMA SumIter == ASSUME NEW f, NEW it, IsIter(it, f) PROVE \E jt : IsIter(jt, f) /\ Sum(f) = jt[DOMAIN f]
  BY DEF Sum, IsIter, MapThenSumSet, MapThenFoldSet

LEMMA IterExists ==
  ASSUME NEW D, IsFiniteSet(D), NEW f \in [D -> Nat]
  PROVE  IsIter([s \in SUBSET D |-> Cardinality(Cells(f, s))], f)
<1> DEFINE it == [s \in SUBSET D |-> Cardinality(Cells(f, s))]
<1>1. ASSUME NEW s \in SUBSET D
      PROVE  it[s] = IF s = {} THEN 0 ELSE LET x == CHOOSE x \in s : TRUE IN f[x] + it[s \ {x}]
  <2>1. CASE s = {}
    <3>1. Cells(f, s) = {}  BY <2>1 DEF Cells
    <3> QED  BY <2>1, <3>1, FS_EmptySet
  <2>2. CASE s # {}
    <3> DEFINE x == CHOOSE x \in s : TRUE
    <3>1. x \in s  BY <2>2
    <3> HIDE DEF x
    <3>2. it[s] = f[x] + it[s \ {x}]  BY <3>1, CellsRemove
    <3> QED  BY <2>2, <3>2 DEF x
  <2> QED  BY <2>1, <2>2
<1>2. DOMAIN f = D  OBVIOUS
<1> HIDE DEF it
<1>3. it = [s \in SUBSET D |-> it[s]]  BY DEF it
<1>4. it = [s \in SUBSET D |-> IF s = {} THEN 0 ELSE LET x == CHOOSE x \in s : TRUE IN f[x] + it[s \ {x}]]
  BY <1>1, <1>3, Zenon
<1>5. IsIter(it, f)  BY <1>2, <1>4 DEF IsIter
<1> QED  BY <1>5 DEF it

LEMMA SumCells ==
  ASSUME NEW D, IsFiniteSet(D), NEW f \in [D -> Nat]
  PROVE  Sum(f) = Cardinality(Cells(f, D))
<1> DEFINE it == [s \in SUBSET D |-> Cardinality(Cells(f, s))]
<1>1. IsIter(it, f)  BY IterExists
<1>2. PICK jt : IsIter(jt, f) /\ Sum(f) = jt[DOMAIN f]  BY <1>1, SumIter
<1>3. DOMAIN f = D  OBVIOUS
<1> DEFINE B == {s \in SUBSET D : jt[s] # it[s]}
<1>4. CASE B = {}  BY <1>2, <1>3, <1>4
<1>5. CASE B # {}
  <2>1. PICK s \in B : \A t \in B : ~(t \subseteq s /\ t # s)
    <3> HIDE DEF B
    <3>1. B \subseteq SUBSET D  BY DEF B
    <3> QED  BY <1>5, <3>1, SmallestSubset
  <2> HIDE DEF it
  <2>2. \A r \in SUBSET D :
          /\ jt[r] = IF r = {} THEN 0 ELSE LET x == CHOOSE x \in r : TRUE IN f[x] + jt[r \ {x}]
          /\ it[r] = IF r = {} THEN 0 ELSE LET x == CHOOSE x \in r : TRUE IN f[x] + it[r \ {x}]
    <3> SUFFICES ASSUME NEW g, IsIter(g, f)
                 PROVE  \A r \in SUBSET D : g[r] = IF r = {} THEN 0 ELSE LET x == CHOOSE x \in r : TRUE IN f[x] + g[r \ {x}]
      BY <1>1, <1>2
    <3> QED  BY <1>3 DEF IsIter
  <2>3. s # {}  BY <2>2
  <2> DEFINE x == CHOOSE x \in s : TRUE
  <2>4. x \in s  BY <2>3
  <2>5. jt[s] = f[x] + jt[s \ {x}] /\ it[s] = f[x] + it[s \ {x}]  BY <2>2, <2>3
  <2> HIDE DEF x
  <2>6. s \ {x} \in SUBSET D /\ s \ {x} \notin B  BY <2>1, <2>4
  <2> QED  BY <2>1, <2>5, <2>6
<1> QED  BY <1>4, <1>5

LEMMA SumType ==
  ASSUME NEW D, IsFiniteSet(D), NEW f \in [D -> Nat]
  PROVE  Sum(f) \in Nat
<1>1. IsFiniteSet(Cells(f, D))  BY CellsFinite
<1> QED  BY <1>1, SumCells, FS_CardinalityType

LEMMA SumEmpty == ASSUME NEW f \in [{} -> Nat] PROVE Sum(f) = 0
<1>1. Cells(f, {}) = {}  BY DEF Cells
<1> QED  BY <1>1, SumCells, FS_EmptySet

\* Another function with the same cells has the same sum.
LEMMA SumOver ==
  ASSUME NEW D, IsFiniteSet(D), NEW f \in [D -> Nat], NEW s \in SUBSET D
  PROVE  Sum([x \in s |-> f[x]]) = Cardinality(Cells(f, s))
<1> DEFINE g == [x \in s |-> f[x]]
<1>1. IsFiniteSet(s)  BY FS_Subset
<1>2. g \in [s -> Nat]  OBVIOUS
<1>3. Cells(g, s) = Cells(f, s)  BY DEF Cells
<1> HIDE DEF g
<1>4. Sum(g) = Cardinality(Cells(g, s))  BY <1>1, <1>2, SumCells
<1> QED  BY <1>3, <1>4 DEF g

LEMMA SumRemove ==
  ASSUME NEW D, IsFiniteSet(D), NEW f \in [D -> Nat], NEW x \in D
  PROVE  Sum(f) = f[x] + Sum([y \in D \ {x} |-> f[y]])
<1>1. Sum([y \in D \ {x} |-> f[y]]) = Cardinality(Cells(f, D \ {x}))  BY SumOver
<1>2. Sum(f) = Cardinality(Cells(f, D))  BY SumCells
<1>3. Cardinality(Cells(f, D)) = f[x] + Cardinality(Cells(f, D \ {x}))  BY CellsRemove
<1> QED  BY <1>1, <1>2, <1>3

LEMMA SumSplit ==
  ASSUME NEW D, IsFiniteSet(D), NEW f \in [D -> Nat], NEW s \in SUBSET D
  PROVE  Sum(f) = Sum([x \in s |-> f[x]]) + Sum([x \in D \ s |-> f[x]])
<1> DEFINE A == Cells(f, s)
           B == Cells(f, D \ s)
<1>1. Sum([x \in s |-> f[x]]) = Cardinality(A) /\ Sum([x \in D \ s |-> f[x]]) = Cardinality(B)
  BY SumOver
<1>2. Sum(f) = Cardinality(Cells(f, D))  BY SumCells
<1>3. Cells(f, D) = A \cup B /\ A \cap B = {}  BY DEF Cells
<1>4. IsFiniteSet(A) /\ IsFiniteSet(B)  BY CellsFinite
<1>5. Cardinality(A) \in Nat /\ Cardinality(B) \in Nat  BY <1>4, FS_CardinalityType
<1>6. Cardinality(A \cup B) = Cardinality(A) + Cardinality(B) - Cardinality(A \cap B)
  <2> HIDE DEF A, B
  <2> QED  BY <1>4, FS_Union
<1>7. Cardinality(A \cap B) = 0  BY <1>3, FS_EmptySet
<1>8. Cardinality(Cells(f, D)) = Cardinality(A \cup B)  BY <1>3
<1> HIDE DEF A, B
<1>9. Cardinality(A \cup B) = Cardinality(A) + Cardinality(B)  BY <1>5, <1>6, <1>7
<1> QED  BY <1>1, <1>2, <1>8, <1>9

LEMMA SumBijection ==
  ASSUME NEW D, NEW E, IsFiniteSet(E), NEW h \in Bijection(D, E),
         NEW f \in [D -> Nat], NEW g \in [E -> Nat], \A x \in D : f[x] = g[h[x]]
  PROVE  Sum(f) = Sum(g)
<1>1. /\ h \in [D -> E] /\ \A x, y \in D : h[x] = h[y] => x = y
      /\ \A e \in E : \E x \in D : h[x] = e
  BY DEF Bijection, Injection, Surjection, IsInjective
<1>2. IsFiniteSet(D)  BY FS_Injection DEF Bijection
<1> DEFINE A == Cells(f, D)
           B == Cells(g, E)
           k == [p \in A |-> <<h[p[1]], p[2]>>]
<1>3. IsFiniteSet(A) /\ IsFiniteSet(B)  BY <1>2, CellsFinite
<1>4. k \in [A -> B]  BY <1>1 DEF Cells
<1>5. \A p, q \in A : k[p] = k[q] => p = q  BY <1>1 DEF Cells
<1>6. ASSUME NEW q \in B PROVE \E p \in A : k[p] = q
  <2>1. q[1] \in E /\ q[2] \in Nat /\ q[2] \in 1..g[q[1]] /\ q = <<q[1], q[2]>>  BY DEF Cells
  <2>2. PICK x \in D : h[x] = q[1]  BY <1>1, <2>1
  <2>3. <<x, q[2]>> \in A  BY <2>1, <2>2 DEF Cells
  <2>4. k[<<x, q[2]>>] = q  BY <2>1, <2>2, <2>3
  <2> QED  BY <2>3, <2>4
<1>7. k \in Bijection(A, B)
  <2> HIDE DEF k, A, B
  <2> QED  BY <1>4, <1>5, <1>6 DEF Bijection, Injection, Surjection, IsInjective
<1>8. Cardinality(A) = Cardinality(B)
  <2> HIDE DEF k, A, B
  <2> QED  BY <1>3, <1>7, FS_Bijection DEF ExistsBijection
<1> QED  BY <1>2, <1>8, SumCells

\* A set of positions of a sequence has a first one.
LEMMA FirstPosition ==
  ASSUME NEW n \in Nat, NEW B \in SUBSET (1..n), B # {}
  PROVE  \E m \in B : \A i \in B : m <= i
<1> DEFINE T == {1..i : i \in B}
<1>1. T \in SUBSET SUBSET (1..n) /\ T # {}
  <2>1. \A i \in B : 1..i \in SUBSET (1..n)  OBVIOUS
  <2>2. \A t \in T : t \in SUBSET (1..n)  BY <2>1
  <2>3. \E i \in B : 1..i \in T  OBVIOUS
  <2> QED  BY <2>2, <2>3
<1>2. IsFiniteSet(1..n)  BY FS_Interval
<1>3. PICK s \in T : \A t \in T : ~(t \subseteq s /\ t # s)
  <2>1. PICK D : D = 1..n  OBVIOUS
  <2>2. PICK C : C = T  OBVIOUS
  <2> HIDE DEF T
  <2>3. IsFiniteSet(D)  BY <1>2, <2>1
  <2>4. C \subseteq SUBSET D  BY <1>1, <2>1, <2>2
  <2>5. C # {}  BY <1>1, <2>2
  <2>6. \E s \in C : \A t \in C : ~(t \subseteq s /\ t # s)
    BY <2>3, <2>4, <2>5, SmallestSubset
  <2> QED  BY <2>2, <2>6
<1>4. PICK m \in B : s = 1..m  OBVIOUS
<1>5. ASSUME NEW i \in B, i < m PROVE FALSE
  <2>1. (1..i) \in T /\ 1..i \subseteq s  BY <1>4, <1>5
  <2>2. m \in s /\ m \notin 1..i  BY <1>4, <1>5
  <2> QED  BY <1>3, <2>1, <2>2
<1> QED  BY <1>5

-----------------------------------------------------------------------------
(* The tokens of a list, and those of the requests.                         *)

Entry == [n: Sizes, ts: Nat]

LEMMA SizesNat == Sizes \subseteq Nat /\ \A n \in Sizes : n > 0
  BY LimiterAssumption

LEMMA ListFunction ==
  ASSUME NEW list \in Seq(Entry)
  PROVE  /\ DOMAIN list = 1..Len(list) /\ Len(list) \in Nat /\ IsFiniteSet(1..Len(list))
         /\ \A i \in 1..Len(list) : list[i] \in Entry /\ list[i].n \in Nat
         /\ [i \in DOMAIN list |-> list[i].n] \in [1..Len(list) -> Nat]
<1>1. DOMAIN list = 1..Len(list) /\ Len(list) \in Nat  BY LenProperties
<1>2. ASSUME NEW i \in 1..Len(list) PROVE list[i] \in Entry /\ list[i].n \in Nat
  <2>1. list[i] \in Entry  BY <1>2, ElementOfSeq
  <2> QED  BY <2>1, SizesNat DEF Entry
<1>3. IsFiniteSet(1..Len(list))  BY <1>1, FS_Interval
<1> QED  BY <1>1, <1>2, <1>3

LEMMA TokensType == ASSUME NEW list \in Seq(Entry) PROVE Tokens(list) \in Nat
  BY ListFunction, SumType DEF Tokens

LEMMA TokensEmpty == Tokens(<<>>) = 0
<1>1. [i \in DOMAIN <<>> |-> <<>>[i].n] \in [{} -> Nat]  OBVIOUS
<1> QED  BY <1>1, SumEmpty DEF Tokens

\* The positions above k hold what the list has there, counted from one again.
LEMMA SumShift ==
  ASSUME NEW list \in Seq(Entry), NEW k \in 0..Len(list), NEW tail \in Seq(Entry),
         Len(tail) = Len(list) - k, \A j \in 1..Len(tail) : tail[j] = list[k + j]
  PROVE  Sum([i \in (k + 1)..Len(list) |-> list[i].n]) = Tokens(tail)
<1> DEFINE D == 1..Len(tail)
           E == (k + 1)..Len(list)
           f == [i \in D |-> tail[i].n]
           g == [i \in E |-> list[i].n]
           h == [i \in D |-> k + i]
<1>1. Len(list) \in Nat /\ k \in Nat /\ Len(tail) \in Nat /\ DOMAIN tail = D
  BY ListFunction
<1>2. IsFiniteSet(E)  BY <1>1, FS_Interval
<1>3. f \in [D -> Nat] /\ g \in [E -> Nat]  BY <1>1, ListFunction
<1>4. h \in Bijection(D, E)
  <2>1. h \in [D -> E]  BY <1>1
  <2>2. \A x, y \in D : h[x] = h[y] => x = y  BY <1>1
  <2>3. ASSUME NEW e \in E PROVE \E x \in D : h[x] = e
    <3>1. e - k \in D /\ h[e - k] = e  BY <1>1
    <3> QED  BY <3>1
  <2> HIDE DEF h, D, E
  <2> QED  BY <2>1, <2>2, <2>3 DEF Bijection, Injection, Surjection, IsInjective
<1>5. \A x \in D : f[x] = g[h[x]]  BY <1>1
<1>6. Sum(f) = Sum(g)
  <2> HIDE DEF D, E, f, g, h
  <2> QED  BY <1>2, <1>3, <1>4, <1>5, SumBijection
<1> QED  BY <1>1, <1>6 DEF Tokens

\* The first positions hold what the list has there.
LEMMA SumPrefix ==
  ASSUME NEW list \in Seq(Entry), NEW k \in 0..Len(list)
  PROVE  Sum([i \in 1..k |-> list[i].n]) = Tokens(SubSeq(list, 1, k))
<1>1. Len(list) \in Nat  BY ListFunction
<1>2. /\ DOMAIN SubSeq(list, 1, k) = 1..k
      /\ \A i \in 1..k : SubSeq(list, 1, k)[i] = list[i]
  BY <1>1
<1>3. [i \in DOMAIN SubSeq(list, 1, k) |-> SubSeq(list, 1, k)[i].n] = [i \in 1..k |-> list[i].n]
  BY <1>2
<1> QED  BY <1>3 DEF Tokens

LEMMA TokensSplit ==
  ASSUME NEW list \in Seq(Entry), NEW k \in 0..Len(list)
  PROVE  /\ SubSeq(list, 1, k) \in Seq(Entry)
         /\ SubSeq(list, k + 1, Len(list)) \in Seq(Entry)
         /\ Tokens(list) = Tokens(SubSeq(list, 1, k)) + Tokens(SubSeq(list, k + 1, Len(list)))
<1> DEFINE D    == 1..Len(list)
           s    == 1..k
           f    == [i \in DOMAIN list |-> list[i].n]
           tail == SubSeq(list, k + 1, Len(list))
<1>1. /\ Len(list) \in Nat /\ k \in Nat /\ DOMAIN list = D /\ IsFiniteSet(D)
      /\ f \in [D -> Nat]
  BY ListFunction
<1>2. s \in SUBSET D /\ D \ s = (k + 1)..Len(list)  BY <1>1
<1>3. SubSeq(list, 1, k) \in Seq(Entry) /\ tail \in Seq(Entry)
  BY <1>1
<1>4. Len(tail) = Len(list) - k /\ \A j \in 1..Len(tail) : tail[j] = list[k + j]
  <2>1. \A i \in (k + 1)..Len(list) : list[i] \in Entry  BY <1>1, ListFunction
  <2>2. k + 1 \in Int /\ Len(list) \in Int /\ k \in Int /\ k <= Len(list)  BY <1>1
  <2>3. /\ Len(tail) = IF k + 1 <= Len(list) THEN Len(list) - (k + 1) + 1 ELSE 0
        /\ \A i \in 1..(Len(list) - (k + 1) + 1) : tail[i] = list[k + 1 + i - 1]
    BY <2>1, <2>2, SubSeqProperties
  <2> HIDE DEF tail
  <2>4. Len(tail) = Len(list) - k  BY <2>2, <2>3
  <2>5. ASSUME NEW j \in 1..Len(tail) PROVE tail[j] = list[k + j]
    <3>1. j \in 1..(Len(list) - (k + 1) + 1) /\ k + 1 + j - 1 = k + j  BY <1>1, <2>4
    <3> QED  BY <2>3, <3>1
  <2> QED  BY <2>4, <2>5
<1>5. Sum([i \in (k + 1)..Len(list) |-> list[i].n]) = Tokens(tail)
  <2> HIDE DEF tail
  <2> QED  BY <1>3, <1>4, SumShift
<1>6. /\ [i \in s |-> f[i]] = [i \in 1..k |-> list[i].n]
      /\ [i \in D \ s |-> f[i]] = [i \in (k + 1)..Len(list) |-> list[i].n]
  BY <1>1, <1>2
<1>7. Sum(f) = Sum([i \in s |-> f[i]]) + Sum([i \in D \ s |-> f[i]])
  <2>1. IsFiniteSet(D)  BY <1>1
  <2>2. f \in [D -> Nat]  BY <1>1
  <2>3. s \in SUBSET D  BY <1>2
  <2> HIDE DEF D, s, f
  <2> QED  BY <2>1, <2>2, <2>3, SumSplit
<1>8. Tokens(list) = Sum(f)  BY DEF Tokens
<1> HIDE DEF f, tail
<1>9. Tokens(list) = Sum([i \in 1..k |-> list[i].n]) + Sum([i \in (k + 1)..Len(list) |-> list[i].n])
  BY <1>6, <1>7, <1>8
<1> QED  BY <1>3, <1>5, <1>9, SumPrefix DEF tail

LEMMA TokensAppend ==
  ASSUME NEW list \in Seq(Entry), NEW e \in Entry
  PROVE  Tokens(Append(list, e)) = Tokens(list) + e.n
<1> DEFINE both == Append(list, e)
           k    == Len(list)
<1>1. k \in Nat /\ both \in Seq(Entry) /\ Len(both) = k + 1 /\ both[k + 1] = e
  BY ListFunction
<1>2. SubSeq(both, 1, k) = list
  <2>1. k \in Nat /\ list \in [1..k -> Entry] /\ \A i \in 1..k : both[i] = list[i]
    BY ListFunction
  <2>2. SubSeq(both, 1, k) = [i \in 1..k |-> both[i]]  BY <2>1
  <2> QED  BY <2>1, <2>2
<1>5. SubSeq(both, k + 1, Len(both)) = <<e>>
  <2>1. \A i \in (k + 1)..(k + 1) : both[i] \in Entry  BY <1>1
  <2>2. k + 1 \in Int  BY <1>1
  <2> DEFINE tail == SubSeq(both, k + 1, k + 1)
  <2>3. /\ tail \in Seq(Entry)
        /\ Len(tail) = IF k + 1 <= k + 1 THEN k + 1 - (k + 1) + 1 ELSE 0
        /\ \A i \in 1..(k + 1 - (k + 1) + 1) : tail[i] = both[k + 1 + i - 1]
    BY <2>1, <2>2, SubSeqProperties
  <2> HIDE DEF tail
  <2>4. Len(tail) = 1 /\ tail[1] = e  BY <1>1, <2>3
  <2>5. tail = <<e>>  BY <2>3, <2>4
  <2> QED  BY <1>1, <2>5 DEF tail
<1>3. Tokens(both) = Tokens(list) + Tokens(<<e>>)
  <2>1. k \in 0..Len(both)  BY <1>1
  <2> HIDE DEF both, k
  <2> QED  BY <1>1, <1>2, <1>5, <2>1, TokensSplit
<1>4. Tokens(<<e>>) = e.n
  <2> DEFINE f == [i \in {1} |-> e.n]
  <2>1. IsFiniteSet({1}) /\ e.n \in Nat  BY FS_Singleton, SizesNat DEF Entry
  <2>2. f \in [{1} -> Nat] /\ f[1] = e.n  BY <2>1
  <2>3. {1} \ {1} = {}  OBVIOUS
  <2>4. [y \in {1} \ {1} |-> f[y]] \in [{} -> Nat]  BY <2>3
  <2>5. Sum([y \in {1} \ {1} |-> f[y]]) = 0  BY <2>4, SumEmpty
  <2>6. Sum(f) = f[1] + Sum([y \in {1} \ {1} |-> f[y]])
    <3> HIDE DEF f
    <3> QED  BY <2>1, <2>2, SumRemove
  <2>7. [i \in DOMAIN <<e>> |-> <<e>>[i].n] = f  OBVIOUS
  <2> QED  BY <2>1, <2>2, <2>5, <2>6, <2>7 DEF Tokens
<1> QED  BY <1>3, <1>4

\* The types of requests.
RequestsTyped(r) ==
  /\ r \in [Ids -> [n: Sizes \cup {0}, t: Nat]]
  /\ IsFiniteSet(Waiting(r))
  /\ \A id \in Ids : IF r[id].t # 0 THEN r[id].n \in Sizes ELSE r[id] = NoRequest

OthersRequested(r, id) == Sum([c \in Waiting(r) \ {id} |-> r[c].n])

LEMMA OneRequest ==
  ASSUME NEW r, RequestsTyped(r), NEW id \in Ids
  PROVE  /\ AllRequested(r) = r[id].n + OthersRequested(r, id)
         /\ r[id].n \in Nat /\ OthersRequested(r, id) \in Nat /\ AllRequested(r) \in Nat
<1> DEFINE D == Waiting(r)
           f == [c \in D |-> r[c].n]
<1>1. IsFiniteSet(D) /\ D \subseteq Ids /\ f \in [D -> Nat] /\ r[id].n \in Nat
  BY SizesNat DEF RequestsTyped, Waiting
<1>2. [c \in D \ {id} |-> f[c]] = [c \in D \ {id} |-> r[c].n]  OBVIOUS
<1>3. OthersRequested(r, id) = Sum([c \in D \ {id} |-> f[c]])  BY <1>2 DEF OthersRequested
<1>4. AllRequested(r) = Sum(f)  BY DEF AllRequested
<1>5. Sum([c \in D \ {id} |-> f[c]]) \in Nat
  <2>1. IsFiniteSet(D \ {id})  BY <1>1, FS_Subset
  <2>2. [c \in D \ {id} |-> f[c]] \in [D \ {id} -> Nat]  BY <1>1
  <2> QED  BY <2>1, <2>2, SumType
<1>6. CASE id \in D
  <2>1. f[id] = r[id].n  BY <1>6
  <2>2. Sum(f) = f[id] + Sum([c \in D \ {id} |-> f[c]])
    <3> HIDE DEF f, D
    <3> QED  BY <1>1, <1>6, SumRemove
  <2> HIDE DEF f, D
  <2> QED  BY <1>1, <1>3, <1>4, <1>5, <2>1, <2>2
<1>7. CASE id \notin D
  <2>1. r[id].n = 0  BY <1>7 DEF Waiting, RequestsTyped, NoRequest
  <2>2. D \ {id} = D /\ [c \in D \ {id} |-> f[c]] = f  BY <1>7
  <2> HIDE DEF f, D
  <2> QED  BY <1>1, <1>3, <1>4, <1>5, <2>1, <2>2
<1> QED  BY <1>6, <1>7

Replaced(q, r, id, new) == q = [r EXCEPT ![id] = new]

\* A change of one request leaves what the others ask for.
LEMMA OtherRequests ==
  ASSUME NEW r, NEW id \in Ids, RequestsTyped(r), NEW new \in [n: Sizes \cup {0}, t: Nat],
         new.t # 0 => new.n \in Sizes, new.t = 0 => new = NoRequest,
         NEW q, Replaced(q, r, id, new)
  PROVE  RequestsTyped(q) /\ OthersRequested(q, id) = OthersRequested(r, id) /\ q[id] = new
<1>1. q \in [Ids -> [n: Sizes \cup {0}, t: Nat]] /\ q[id] = new /\ \A c \in Ids \ {id} : q[c] = r[c]
  BY DEF RequestsTyped, Replaced
<1>2. \A c \in Ids : IF q[c].t # 0 THEN q[c].n \in Sizes ELSE q[c] = NoRequest
  BY <1>1 DEF RequestsTyped
<1>3. IsFiniteSet(Waiting(q))
  <2>1. Waiting(q) \subseteq Waiting(r) \cup {id}  BY <1>1 DEF Waiting
  <2>2. IsFiniteSet(Waiting(r) \cup {id})  BY FS_AddElement DEF RequestsTyped
  <2> QED  BY <2>1, <2>2, FS_Subset
<1>4. Waiting(q) \ {id} = Waiting(r) \ {id}  BY <1>1 DEF Waiting
<1>5. [c \in Waiting(q) \ {id} |-> q[c].n] = [c \in Waiting(r) \ {id} |-> r[c].n]
  BY <1>1, <1>4 DEF Waiting
<1>6. OthersRequested(q, id) = OthersRequested(r, id)  BY <1>5 DEF OthersRequested
<1>7. RequestsTyped(q)  BY <1>1, <1>2, <1>3 DEF RequestsTyped
<1> QED  BY <1>1, <1>6, <1>7
-----------------------------------------------------------------------------
(* The running total and the cap.  The committed list is the end of the log, *)
(* and what was evicted from it is older than the period: so a window that   *)
(* has not ended yet holds committed tokens only, which are part of a total  *)
(* within the limit; a window that has ended does not change any more.       *)

Books ==
  /\ now <= MaxTime /\ secured \subseteq Ids /\ leaked \in Nat
  /\ total \in 0..Limit
  /\ committed \in Seq(Entry) /\ log \in Seq(Entry)
  /\ RequestsTyped(requested)
  /\ Accounting

\* kept is the end of all, and the rest of all is older than the period.
EndOf(kept, all, clock) ==
  LET gone == Len(all) - Len(kept)
  IN  /\ gone \in Nat
      /\ \A j \in DOMAIN kept : kept[j] = all[gone + j]
      /\ \A i \in 1..gone : clock - all[i].ts > Period

Evicted == EndOf(committed, log, now)

Inv == Owned /\ Books /\ Evicted /\ WindowCapped

LEMMA Constants ==
  /\ Limit \in Nat /\ Period \in Nat /\ Word \in Nat /\ Limit < Word /\ MaxTime \in Nat
  /\ \A n \in Sizes : n \in Nat /\ n > 0 /\ Limit + n < Word
  BY LimiterAssumption

\* Every token of the total is accounted for, in numbers.
LEMMA BooksNumbers ==
  ASSUME Books
  PROVE  /\ total \in Nat /\ total <= Limit /\ leaked \in Nat
         /\ Tokens(committed) \in Nat /\ AllRequested(requested) \in Nat
         /\ total = AllRequested(requested) + Tokens(committed) + leaked
         /\ Tokens(committed) <= Limit
<1>1. AllRequested(requested) \in Nat
  <2>1. IsFiniteSet(Waiting(requested))  BY DEF Books, RequestsTyped
  <2>2. [id \in Waiting(requested) |-> requested[id].n] \in [Waiting(requested) -> Nat]
    BY SizesNat DEF Books, RequestsTyped, Waiting
  <2> QED  BY <2>1, <2>2, SumType DEF AllRequested
<1>2. Tokens(committed) \in Nat  BY TokensType DEF Books
<1>3. total = AllRequested(requested) + Tokens(committed) + leaked
  BY DEF Books, Accounting
<1>4. leaked \in Nat /\ total \in 0..Limit  BY DEF Books
<1> QED  BY <1>1, <1>2, <1>3, <1>4, Constants

\* Nothing wraps around while tokens are given back that the total contains.
LEMMA MinusExact ==
  ASSUME NEW a \in Nat, NEW b \in Nat, b <= a, a < Word PROVE Minus(a, b) = a - b
<1>1. Word \in Nat /\ Word > 0  BY Constants
<1>2. a - b \in 0..(Word - 1)  BY <1>1
<1>3. (a - b + Word) % Word = a - b  BY <1>1, <1>2
<1> QED  BY <1>3 DEF Minus

LEMMA PlusExact ==
  ASSUME NEW a \in Nat, NEW n \in Sizes, a <= Limit PROVE Plus(a, n) = a + n
<1>1. Word \in Nat /\ Word > 0 /\ n \in Nat /\ a + n < Word  BY Constants
<1>2. (a + n) % Word = a + n  BY <1>1
<1> QED  BY <1>2 DEF Plus

\* A window that has not ended holds tokens of the committed list only.
LEMMA OpenWindow ==
  ASSUME NEW kept \in Seq(Entry), NEW all \in Seq(Entry), NEW clock \in Nat,
         EndOf(kept, all, clock), Tokens(kept) <= Limit,
         NEW from \in Nat, from + Period >= clock
  PROVE  InWindow(all, from) <= Limit
<1> DEFINE gone == Len(all) - Len(kept)
           W    == {j \in DOMAIN all : all[j].ts \in from..(from + Period)}
           E    == (gone + 1)..Len(all)
           f    == [i \in E |-> all[i].n]
<1>1. /\ DOMAIN all = 1..Len(all) /\ Len(all) \in Nat /\ DOMAIN kept = 1..Len(kept)
      /\ Len(kept) \in Nat
      /\ \A i \in 1..Len(all) : all[i] \in Entry /\ all[i].n \in Nat
  BY ListFunction
<1>2. gone \in Nat /\ gone \in 0..Len(all)  BY <1>1 DEF EndOf
<1>3. W \subseteq E
  <2> SUFFICES ASSUME NEW j \in 1..Len(all), all[j].ts \in from..(from + Period), j \notin E
               PROVE  FALSE
    BY <1>1
  <2>1. j \in 1..gone  BY <1>1, <1>2
  <2>2. all[j].ts \in Nat  BY <1>1 DEF Entry
  <2>3. clock - all[j].ts > Period  BY <2>1 DEF EndOf
  <2>4. all[j].ts >= from /\ Period \in Nat  BY Constants
  <2> QED  BY <2>2, <2>3, <2>4
<1>4. IsFiniteSet(E) /\ f \in [E -> Nat]
  <2>1. gone + 1 \in Int /\ Len(all) \in Int  BY <1>1, <1>2
  <2>2. IsFiniteSet(E)  BY <2>1, FS_Interval
  <2>3. E \subseteq 1..Len(all)  BY <1>2
  <2> QED  BY <1>1, <2>2, <2>3
<1>5. Sum(f) = Tokens(kept)
  <2>1. Len(kept) = Len(all) - gone  BY <1>1
  <2>2. \A j \in 1..Len(kept) : kept[j] = all[gone + j]  BY <1>1 DEF EndOf
  <2> HIDE DEF gone
  <2> QED  BY <1>2, <2>1, <2>2, SumShift
<1>6. /\ Sum([i \in W |-> f[i]]) \in Nat /\ Sum([i \in E \ W |-> f[i]]) \in Nat
      /\ Sum(f) = Sum([i \in W |-> f[i]]) + Sum([i \in E \ W |-> f[i]])
  <2> HIDE DEF E, W, f
  <2>1. W \in SUBSET E  BY <1>3
  <2>2. IsFiniteSet(E)  BY <1>4
  <2>3. f \in [E -> Nat]  BY <1>4
  <2>4. IsFiniteSet(W) /\ IsFiniteSet(E \ W)  BY <2>1, <2>2, FS_Subset
  <2>5. [i \in W |-> f[i]] \in [W -> Nat] /\ [i \in E \ W |-> f[i]] \in [E \ W -> Nat]
    BY <2>1, <2>3
  <2>6. Sum([i \in W |-> f[i]]) \in Nat  BY <2>4, <2>5, SumType
  <2>7. Sum([i \in E \ W |-> f[i]]) \in Nat  BY <2>4, <2>5, SumType
  <2>8. Sum(f) = Sum([i \in W |-> f[i]]) + Sum([i \in E \ W |-> f[i]])
    BY <2>1, <2>2, <2>3, SumSplit
  <2> QED  BY <2>6, <2>7, <2>8
<1>7. [i \in W |-> f[i]] = [i \in W |-> all[i].n]  BY <1>3
<1>8. InWindow(all, from) = Sum([i \in W |-> f[i]])  BY <1>7 DEF InWindow
<1>9. Tokens(kept) \in Nat  BY TokensType
<1> HIDE DEF f
<1> QED  BY <1>5, <1>6, <1>8, <1>9, Constants

-----------------------------------------------------------------------------
(* The steps.                                                               *)

LEMMA AccountingNext ==
  Accounting' <=> total' = AllRequested(requested') + Tokens(committed') + leaked'
  BY DEF Accounting

LEMMA NoRequestType == NoRequest \in [n: Sizes \cup {0}, t: Nat] /\ NoRequest.t = 0 /\ NoRequest.n = 0
  BY DEF NoRequest

\* What giving a request back takes off the tokens requested.
LEMMA RequestGone ==
  ASSUME NEW r, NEW id \in Ids, RequestsTyped(r)
  PROVE  LET q == [r EXCEPT ![id] = NoRequest]
         IN  /\ RequestsTyped(q)
             /\ AllRequested(r) = r[id].n + AllRequested(q)
             /\ r[id].n \in Nat /\ AllRequested(q) \in Nat
<1> DEFINE q == [r EXCEPT ![id] = NoRequest]
<1>1. RequestsTyped(q) /\ OthersRequested(q, id) = OthersRequested(r, id) /\ q[id] = NoRequest
  <2>1. Replaced(q, r, id, NoRequest)  BY DEF Replaced
  <2> HIDE DEF q
  <2> QED  BY <2>1, OtherRequests, NoRequestType
<1> HIDE DEF q
<1>2. /\ AllRequested(q) = q[id].n + OthersRequested(q, id)
      /\ OthersRequested(q, id) \in Nat /\ AllRequested(q) \in Nat
  BY <1>1, OneRequest
<1>3. AllRequested(r) = r[id].n + OthersRequested(r, id) /\ r[id].n \in Nat
  BY OneRequest
<1> QED  BY <1>1, <1>2, <1>3, NoRequestType DEF q

\* Withdraw, by the store or by a timer.
LEMMA BooksDrop ==
  ASSUME Inv, NEW id \in Ids, Drop(id), UNCHANGED <<now, committed, leaked, log>>
  PROVE  Books'
<1>1. /\ requested' = [requested EXCEPT ![id] = NoRequest]
      /\ total' = Minus(total, requested[id].n)
      /\ secured' = secured \ {id}
  BY DEF Drop, Without
<1>2. /\ RequestsTyped(requested')
      /\ AllRequested(requested) = requested[id].n + AllRequested(requested')
      /\ requested[id].n \in Nat /\ AllRequested(requested') \in Nat
  BY <1>1, RequestGone DEF Inv, Books
<1>3. /\ total \in Nat /\ total <= Limit /\ leaked \in Nat /\ Tokens(committed) \in Nat
      /\ total = AllRequested(requested) + Tokens(committed) + leaked
  BY BooksNumbers DEF Inv
<1>4. total' = total - requested[id].n /\ requested[id].n <= total
  <2>1. requested[id].n <= total /\ total < Word  BY <1>2, <1>3, Constants
  <2> QED  BY <1>1, <1>2, <1>3, <2>1, MinusExact
<1>5. total' = AllRequested(requested') + Tokens(committed') + leaked'
  BY <1>2, <1>3, <1>4
<1>6. total' \in 0..Limit
  <2>1. Limit \in Nat  BY Constants
  <2> QED  BY <1>2, <1>3, <1>4, <2>1
<1> QED  BY <1>1, <1>2, <1>5, <1>6, AccountingNext DEF Inv, Books

LEMMA InvSame ==
  ASSUME Inv, UNCHANGED <<now, committed, log>> PROVE Evicted' /\ WindowCapped'
  BY DEF Inv, Evicted, WindowCapped

LEMMA BooksSame ==
  ASSUME Inv, UNCHANGED <<now, total, requested, committed, leaked, log>>, secured' \subseteq Ids
  PROVE  Books' /\ Evicted' /\ WindowCapped'
<1>1. total' = AllRequested(requested') + Tokens(committed') + leaked'
  BY DEF Inv, Books, Accounting
<1>2. Books'  BY <1>1, AccountingNext DEF Inv, Books
<1> QED  BY <1>2, InvSame

LEMMA InvTick == ASSUME Inv, Tick PROVE Books' /\ Evicted' /\ WindowCapped'
<1>1. /\ now < MaxTime /\ now' = now + 1
      /\ UNCHANGED <<total, requested, committed, secured, leaked, log>>
  BY DEF Tick
<1>2. /\ now \in Nat /\ MaxTime \in Nat /\ Period \in Nat
      /\ committed \in Seq(Entry) /\ log \in Seq(Entry) /\ Len(log) \in Nat
      /\ \A i \in 1..Len(log) : log[i].ts \in Nat
      /\ Len(committed) \in Nat
  BY Constants, ListFunction DEF Inv, Owned, Typed, Books, Entry
<1>3. Books'
  BY <1>1, <1>2, AccountingNext, BooksNumbers DEF Inv, Books
<1>4. EndOf(committed, log, now')
  <2>1. ASSUME NEW i \in 1..(Len(log) - Len(committed)) PROVE now' - log[i].ts > Period
    <3>1. log[i].ts \in Nat /\ now - log[i].ts > Period  BY <1>2 DEF Inv, Evicted, EndOf
    <3> QED  BY <1>1, <1>2, <3>1
  <2> QED  BY <2>1 DEF Inv, Evicted, EndOf
<1>5. ASSUME NEW from \in 0..now' PROVE InWindow(log, from) <= Limit
  <2>1. CASE from <= now
    BY <1>1, <1>2, <2>1 DEF Inv, WindowCapped
  <2>2. CASE from > now
    <3>1. from \in Nat /\ now' \in Nat /\ from + Period >= now'  BY <1>1, <1>2, <2>2
    <3>2. Tokens(committed) <= Limit  BY BooksNumbers DEF Inv
    <3> QED  BY <1>2, <1>4, <3>1, <3>2, OpenWindow
  <2> QED  BY <1>1, <1>2, <2>1, <2>2
<1>6. Evicted'  BY <1>1, <1>4 DEF Evicted
<1>7. WindowCapped'  BY <1>1, <1>5 DEF WindowCapped
<1> QED  BY <1>3, <1>6, <1>7

\* The list of committed tokens grows at its end, and so does the log.
LEMMA InvCommit ==
  ASSUME Inv, NEW id \in Ids, Commit(id) PROVE Books' /\ Evicted' /\ WindowCapped'
<1> DEFINE e == [n |-> requested[id].n, ts |-> now]
<1>1. /\ requested[id].t # 0
      /\ committed' = Append(committed, e) /\ log' = Append(log, e)
      /\ requested' = [requested EXCEPT ![id] = NoRequest]
      /\ secured' = secured \ {id}
      /\ UNCHANGED <<now, total, leaked>>
  BY DEF Commit, Requested, Without
<1>2. e \in Entry /\ e.n = requested[id].n /\ e.ts = now
  BY <1>1 DEF Inv, Owned, Typed, Books, RequestsTyped, Entry
<1> HIDE DEF e
<1>3. /\ committed \in Seq(Entry) /\ log \in Seq(Entry) /\ Len(committed) \in Nat /\ Len(log) \in Nat
      /\ now \in Nat /\ Period \in Nat
  BY Constants, ListFunction DEF Inv, Owned, Typed, Books
<1>4. /\ committed' \in Seq(Entry) /\ log' \in Seq(Entry)
      /\ Len(committed') = Len(committed) + 1 /\ Len(log') = Len(log) + 1
      /\ \A i \in 1..Len(log) : log'[i] = log[i]
      /\ \A i \in 1..Len(committed) : committed'[i] = committed[i]
      /\ committed'[Len(committed) + 1] = e /\ log'[Len(log) + 1] = e
      /\ DOMAIN committed' = 1..Len(committed') /\ DOMAIN log' = 1..Len(log')
      /\ DOMAIN committed = 1..Len(committed) /\ DOMAIN log = 1..Len(log)
  BY <1>1, <1>2, <1>3
<1>5. Tokens(committed') = Tokens(committed) + requested[id].n
  BY <1>1, <1>2, <1>3, TokensAppend
<1>6. /\ RequestsTyped(requested')
      /\ AllRequested(requested) = requested[id].n + AllRequested(requested')
      /\ requested[id].n \in Nat /\ AllRequested(requested') \in Nat
  BY <1>1, RequestGone DEF Inv, Books
<1>7. /\ total \in Nat /\ total <= Limit /\ leaked \in Nat /\ Tokens(committed) \in Nat
      /\ total = AllRequested(requested) + Tokens(committed) + leaked
  BY BooksNumbers DEF Inv
<1>8. total' = AllRequested(requested') + Tokens(committed') + leaked'
  BY <1>1, <1>5, <1>6, <1>7
<1>9. Books'
  BY <1>1, <1>4, <1>6, <1>8, AccountingNext DEF Inv, Books
<1>10. EndOf(committed', log', now)
  <2> DEFINE gone == Len(log) - Len(committed)
  <2>1. /\ gone \in Nat /\ Len(log') - Len(committed') = gone
        /\ \A j \in 1..Len(committed) : committed[j] = log[gone + j]
        /\ \A i \in 1..gone : now - log[i].ts > Period
    BY <1>3, <1>4 DEF Inv, Evicted, EndOf
  <2>2. ASSUME NEW j \in 1..Len(committed') PROVE committed'[j] = log'[gone + j]
    <3>1. CASE j = Len(committed) + 1  BY <1>3, <1>4, <3>1
    <3>2. CASE j \in 1..Len(committed)
      <4>1. gone + j \in 1..Len(log)  BY <1>3, <2>1, <3>2
      <4> QED  BY <1>4, <2>1, <3>2, <4>1
    <3> QED  BY <1>3, <1>4, <3>1, <3>2
  <2>3. ASSUME NEW i \in 1..gone PROVE now - log'[i].ts > Period
    <3>1. i \in 1..Len(log)  BY <1>3
    <3> QED  BY <1>4, <2>1, <3>1
  <2> HIDE DEF gone
  <2> QED  BY <1>4, <2>1, <2>2, <2>3 DEF EndOf
<1>11. ASSUME NEW from \in 0..now PROVE InWindow(log', from) <= Limit
  <2>0. from \in Nat  BY <1>3
  <2>1. CASE from + Period >= now
    <3>1. Tokens(committed') <= Limit  BY <1>5, <1>6, <1>7, Constants
    <3> QED  BY <1>3, <1>4, <1>10, <2>0, <2>1, <3>1, OpenWindow
  <2>2. CASE from + Period < now
    <3> DEFINE W(all) == {j \in DOMAIN all : all[j].ts \in from..(from + Period)}
    <3>1. Len(log) + 1 \notin W(log')  BY <1>2, <1>3, <1>4, <2>0, <2>2
    <3>2. W(log') = W(log)  BY <1>3, <1>4, <3>1
    <3>3. \A i \in W(log) : log'[i].n = log[i].n  BY <1>4
    <3>4. [i \in W(log') |-> log'[i].n] = [i \in W(log) |-> log[i].n]
      <4> HIDE DEF W
      <4> QED  BY <3>2, <3>3
    <3>5. InWindow(log', from) = InWindow(log, from)  BY <3>4 DEF InWindow
    <3> QED  BY <3>5 DEF Inv, WindowCapped
  <2> QED  BY <1>3, <2>0, <2>1, <2>2
<1>12. Evicted'  BY <1>1, <1>10 DEF Evicted
<1>13. WindowCapped'  BY <1>1, <1>11 DEF WindowCapped
<1> QED  BY <1>9, <1>12, <1>13

\* There is a number of elements to evict.
LEMMA ExpiredType ==
  ASSUME NEW seen \in Nat, committed \in Seq(Entry)
  PROVE  /\ Expired(seen) \in 0..Len(committed)
         /\ \A i \in 1..Expired(seen) : seen - committed[i].ts > Period
<1>1. Len(committed) \in Nat /\ Period \in Nat
      /\ \A i \in 1..Len(committed) : committed[i].ts \in Nat
  BY ListFunction, Constants DEF Entry
<1> DEFINE Good(k) == /\ \A i \in 1..k : seen - committed[i].ts > Period
                      /\ k < Len(committed) => seen - committed[k + 1].ts <= Period
           B == {i \in 1..Len(committed) : ~(seen - committed[i].ts > Period)}
<1>2. \E k \in 0..Len(committed) : Good(k)
  <2>1. CASE B = {}
    <3>1. Good(Len(committed))  BY <1>1, <2>1
    <3>2. Len(committed) \in 0..Len(committed)  BY <1>1
    <3> QED  BY <3>1, <3>2
  <2>2. CASE B # {}
    <3>1. PICK m \in B : \A i \in B : m <= i
      <4>1. B \in SUBSET (1..Len(committed))  OBVIOUS
      <4> HIDE DEF B
      <4> QED  BY <1>1, <2>2, <4>1, FirstPosition
    <3>2. m \in 1..Len(committed) /\ m \in Nat /\ ~(seen - committed[m].ts > Period)  BY <1>1, <3>1
    <3>3. \A i \in 1..(m - 1) : i \in 1..Len(committed) /\ i \notin B  BY <1>1, <3>1, <3>2
    <3>4. Good(m - 1)  BY <1>1, <3>2, <3>3
    <3>5. m - 1 \in 0..Len(committed)  BY <1>1, <3>2
    <3> QED  BY <3>4, <3>5
  <2> QED  BY <2>1, <2>2
<1>3. Expired(seen) = CHOOSE k \in 0..Len(committed) : Good(k)  BY DEF Expired
<1> HIDE DEF Good
<1>4. Expired(seen) \in 0..Len(committed) /\ Good(Expired(seen))  BY <1>2, <1>3
<1> QED  BY <1>4 DEF Good

\* Request evicts, and grants when there is room.
LEMMA InvRequest ==
  ASSUME Inv, NEW id \in Ids, NEW n \in Sizes, Request(id, n)
  PROVE  Books' /\ Evicted' /\ WindowCapped'
<1>1. /\ committed \in Seq(Entry) /\ log \in Seq(Entry) /\ Len(committed) \in Nat /\ Len(log) \in Nat
      /\ DOMAIN committed = 1..Len(committed)
      /\ now \in Nat /\ Period \in Nat /\ MaxLag \in Nat
      /\ \A i \in 1..Len(committed) : committed[i].ts \in Nat
  BY LimiterAssumption, ListFunction DEF Inv, Owned, Typed, Books, Entry
<1>2. PICK seen \in (now - MaxLag)..now :
        LET k    == Expired(seen)
            rest == Minus(total, Tokens(SubSeq(committed, 1, k)))
        IN  /\ seen >= 0
            /\ committed' = SubSeq(committed, k + 1, Len(committed))
            /\ \/ /\ total' = rest
                  /\ UNCHANGED <<requested, secured, leaked>>
               \/ /\ Fits(rest, n)
                  /\ total' = Plus(rest, n)
                  /\ requested' = [requested EXCEPT ![id] = [n |-> n, t |-> Len(timers) + 1]]
                  /\ secured' = secured \ {id}
                  /\ leaked' = leaked + requested[id].n
            /\ UNCHANGED <<now, log>>
  BY DEF Request
<1> DEFINE k    == Expired(seen)
           old  == SubSeq(committed, 1, k)
           rest == Minus(total, Tokens(old))
           gone == Len(log) - Len(committed)
<1>3. seen \in Nat /\ seen <= now  BY <1>1, <1>2
<1>4. k \in 0..Len(committed) /\ \A i \in 1..k : seen - committed[i].ts > Period
  BY <1>1, <1>3, ExpiredType
<1> HIDE DEF k
<1>5. committed' = SubSeq(committed, k + 1, Len(committed)) /\ UNCHANGED <<now, log>>
  BY <1>2 DEF k
<1>6. committed' \in Seq(Entry) /\ Tokens(committed) = Tokens(old) + Tokens(committed')
  BY <1>1, <1>4, <1>5, TokensSplit
<1>7. /\ Len(committed') = Len(committed) - k
      /\ DOMAIN committed' = 1..Len(committed')
      /\ \A j \in 1..Len(committed') : committed'[j] = committed[k + j]
  <2>1. \A i \in (k + 1)..Len(committed) : committed[i] \in Entry
    BY <1>1, <1>4, ListFunction
  <2>2. k + 1 \in Int /\ Len(committed) \in Int /\ k \in Int /\ k <= Len(committed)  BY <1>1, <1>4
  <2>3. /\ Len(committed') = IF k + 1 <= Len(committed) THEN Len(committed) - (k + 1) + 1 ELSE 0
        /\ \A i \in 1..(Len(committed) - (k + 1) + 1) : committed'[i] = committed[k + 1 + i - 1]
    BY <1>5, <2>1, <2>2, SubSeqProperties
  <2>4. Len(committed') = Len(committed) - k  BY <2>2, <2>3
  <2>5. ASSUME NEW j \in 1..Len(committed') PROVE committed'[j] = committed[k + j]
    <3>1. j \in 1..(Len(committed) - (k + 1) + 1) /\ k + 1 + j - 1 = k + j  BY <2>2, <2>4
    <3> QED  BY <2>3, <3>1
  <2>6. DOMAIN committed' = 1..Len(committed')  BY <1>6
  <2> QED  BY <2>4, <2>5, <2>6
<1>8. EndOf(committed', log, now)
  <2>1. /\ gone \in Nat
        /\ \A j \in 1..Len(committed) : committed[j] = log[gone + j]
        /\ \A i \in 1..gone : now - log[i].ts > Period
    BY <1>1 DEF Inv, Evicted, EndOf
  <2> HIDE DEF gone
  <2>2. Len(log) - Len(committed') = gone + k  BY <1>1, <1>4, <1>7, <2>1 DEF gone
  <2>3. k \in Nat  BY <1>1, <1>4
  <2>4. ASSUME NEW j \in 1..Len(committed') PROVE committed'[j] = log[gone + k + j]
    <3>1. k + j \in 1..Len(committed) /\ gone + (k + j) = gone + k + j
      BY <1>1, <1>4, <1>7, <2>1, <2>3
    <3>2. committed[k + j] = log[gone + (k + j)]  BY <2>1, <3>1
    <3> QED  BY <1>7, <3>1, <3>2
  <2>5. ASSUME NEW i \in 1..(gone + k) PROVE now - log[i].ts > Period
    <3>1. CASE i \in 1..gone  BY <2>1, <3>1
    <3>2. CASE i \notin 1..gone
      <4>1. i - gone \in 1..k /\ i - gone \in 1..Len(committed) /\ gone + (i - gone) = i
        BY <1>1, <1>4, <2>1, <2>3, <3>2
      <4>2. committed[i - gone] = log[i]  BY <2>1, <4>1
      <4>3. seen - committed[i - gone].ts > Period /\ committed[i - gone].ts \in Nat
        BY <1>1, <1>4, <4>1
      <4> QED  BY <1>1, <1>3, <4>2, <4>3
    <3> QED  BY <3>1, <3>2
  <2>6. gone + k \in Nat  BY <2>1, <2>3
  <2>7. \A j \in DOMAIN committed' : committed'[j] = log[(Len(log) - Len(committed')) + j]
    BY <1>7, <2>2, <2>4
  <2>8. \A i \in 1..(Len(log) - Len(committed')) : now - log[i].ts > Period
    BY <2>2, <2>5
  <2>9. Len(log) - Len(committed') \in Nat  BY <2>2, <2>6
  <2> QED  BY <2>7, <2>8, <2>9 DEF EndOf
<1>9. Evicted' /\ WindowCapped'
  BY <1>5, <1>8 DEF Inv, Evicted, WindowCapped
<1>10. /\ total \in Nat /\ total <= Limit /\ leaked \in Nat /\ AllRequested(requested) \in Nat
       /\ total = AllRequested(requested) + Tokens(committed) + leaked
  BY BooksNumbers DEF Inv
<1>11. Tokens(old) \in Nat /\ Tokens(committed') \in Nat
  BY <1>1, <1>4, <1>6, TokensSplit, TokensType
<1>12. rest = total - Tokens(old) /\ Tokens(old) <= total
  <2>1. Tokens(old) <= total /\ total < Word  BY <1>6, <1>10, <1>11, Constants
  <2> HIDE DEF old
  <2> QED  BY <1>10, <1>11, <2>1, MinusExact
<1> HIDE DEF rest, old
<1>13. rest \in Nat /\ rest <= Limit /\ rest = AllRequested(requested) + Tokens(committed') + leaked
  BY <1>6, <1>10, <1>11, <1>12, Constants
<1>14. CASE total' = rest /\ UNCHANGED <<requested, secured, leaked>>
  <2>1. total' \in 0..Limit  BY <1>13, <1>14, Constants
  <2>2. total' = AllRequested(requested') + Tokens(committed') + leaked'  BY <1>13, <1>14
  <2>3. Books'  BY <1>5, <1>6, <1>14, <2>1, <2>2, AccountingNext DEF Inv, Books
  <2> QED  BY <1>9, <2>3
<1>15. CASE /\ Fits(rest, n)
            /\ total' = Plus(rest, n)
            /\ requested' = [requested EXCEPT ![id] = [n |-> n, t |-> Len(timers) + 1]]
            /\ secured' = secured \ {id}
            /\ leaked' = leaked + requested[id].n
  <2> DEFINE new == [n |-> n, t |-> Len(timers) + 1]
  <2>1. Len(timers) \in Nat  BY DEF Inv, Owned, Typed
  <2>2. new \in [n: Sizes \cup {0}, t: Nat] /\ new.t # 0 /\ new.n = n /\ n \in Sizes
    BY <2>1
  <2>3. RequestsTyped(requested)  BY DEF Inv, Books
  <2>4. requested' = [requested EXCEPT ![id] = new]  BY <1>15
  <2> HIDE DEF new
  <2>5. /\ RequestsTyped(requested') /\ requested'[id] = new
        /\ OthersRequested(requested', id) = OthersRequested(requested, id)
    <3>1. (new.t # 0 => new.n \in Sizes) /\ (new.t = 0 => new = NoRequest)  BY <2>2
    <3>2. new \in [n: Sizes \cup {0}, t: Nat]  BY <2>2
    <3>3. Replaced(requested', requested, id, new)  BY <2>4 DEF Replaced
    <3> QED  BY <2>3, <3>1, <3>2, <3>3, OtherRequests
  <2>6. /\ AllRequested(requested) = requested[id].n + OthersRequested(requested, id)
        /\ AllRequested(requested') = n + OthersRequested(requested, id)
        /\ requested[id].n \in Nat /\ OthersRequested(requested, id) \in Nat
    BY <2>2, <2>3, <2>5, OneRequest
  <2>7. n \in Nat /\ Limit \in Nat  BY Constants
  <2>8. total' = rest + n  BY <1>13, <1>15, PlusExact
  <2>9. total' <= Limit  BY <1>15 DEF Fits
  <2>10. total' \in 0..Limit  BY <1>13, <2>7, <2>8, <2>9
  <2>11. leaked' \in Nat  BY <1>10, <1>15, <2>6
  <2>12. total' = AllRequested(requested') + Tokens(committed') + leaked'
    <3>1. leaked' = leaked + requested[id].n  BY <1>15
    <3> QED  BY <1>10, <1>11, <1>13, <2>6, <2>7, <2>8, <3>1
  <2>13. Books'
    BY <1>5, <1>6, <1>15, <2>5, <2>10, <2>11, <2>12, AccountingNext DEF Inv, Books
  <2> QED  BY <1>9, <2>13
<1> QED  BY <1>2, <1>14, <1>15 DEF k, old, rest

LEMMA InvInit == Init => Inv
<1> SUFFICES ASSUME Init PROVE Inv
  OBVIOUS
<1>1. Owned  BY DEF Init, Owned, Typed, NoRequest, Requested
<1>2. Waiting(requested) = {}  BY DEF Init, Waiting, NoRequest
<1>3. RequestsTyped(requested)
  <2>1. IsFiniteSet(Waiting(requested))  BY <1>2, FS_EmptySet
  <2> QED  BY <2>1 DEF Init, RequestsTyped, NoRequest
<1>4. AllRequested(requested) = 0
  <2>1. [id \in Waiting(requested) |-> requested[id].n] \in [{} -> Nat]  BY <1>2
  <2> QED  BY <2>1, SumEmpty DEF AllRequested
<1>5. Accounting  BY <1>4, TokensEmpty DEF Init, Accounting
<1>6. Books
  <2>1. <<>> \in Seq(Entry)  OBVIOUS
  <2> QED  BY <1>3, <1>5, <2>1, Constants DEF Init, Books
<1>7. Evicted
  <2>1. Len(<<>>) - Len(<<>>) = 0 /\ DOMAIN <<>> = {}  OBVIOUS
  <2> QED  BY <2>1 DEF Init, Evicted, EndOf
<1>8. WindowCapped
  <2>1. ASSUME NEW from \in 0..now PROVE InWindow(log, from) <= Limit
    <3>1. log = <<>> /\ committed = <<>> /\ now = 0  BY DEF Init
    <3>2. <<>> \in Seq(Entry)  OBVIOUS
    <3>3. Tokens(committed) <= Limit  BY <3>1, TokensEmpty, Constants
    <3>4. from \in Nat /\ from + Period >= now  BY <3>1, Constants
    <3> QED  BY <1>7, <3>1, <3>2, <3>3, <3>4, OpenWindow DEF Evicted
  <2> QED  BY <2>1 DEF WindowCapped
<1> QED  BY <1>1, <1>6, <1>7, <1>8 DEF Inv

LEMMA InvNext == ASSUME Inv, [Next]_vars PROVE Inv'
<1>1. Owned'  BY OwnedNext DEF Inv
<1>2. CASE UNCHANGED vars
  BY <1>1, <1>2, BooksSame DEF vars, Inv, Books
<1>3. CASE Tick  BY <1>1, <1>3, InvTick DEF Inv
<1>4. ASSUME NEW t \in DOMAIN timers, Fire(t) PROVE Inv'
  <2>1. UNCHANGED <<now, total, requested, committed, secured, leaked, log>>  BY <1>4 DEF Fire
  <2> QED  BY <1>1, <2>1, BooksSame DEF Inv, Books
<1>5. ASSUME NEW t \in DOMAIN timers, Expire(t) PROVE Inv'
  <2>1. timers[t].id \in Ids  BY TimerType DEF Inv, Owned
  <2>2. Drop(timers[t].id) /\ UNCHANGED <<now, committed, leaked, log>>  BY <1>5 DEF Expire
  <2> QED  BY <1>1, <2>1, <2>2, InvSame, BooksDrop DEF Inv
<1>6. ASSUME NEW id \in Ids, Call(id) PROVE Inv'
  <2>1. CASE Secure(id)
    <3>1. /\ UNCHANGED <<now, total, requested, committed, leaked, log>>
          /\ secured' = secured \cup {id}
      BY <2>1 DEF Secure
    <3> QED  BY <1>1, <3>1, BooksSame DEF Inv, Books
  <2>2. CASE Commit(id)  BY <1>1, <2>2, InvCommit DEF Inv
  <2>3. CASE Withdraw(id)  BY <1>1, <2>3, InvSame, BooksDrop DEF Withdraw, Inv
  <2>4. CASE \E n \in Sizes : Request(id, n)  BY <1>1, <2>4, InvRequest DEF Inv
  <2> QED  BY <1>6, <2>1, <2>2, <2>3, <2>4 DEF Call
<1> QED  BY <1>2, <1>3, <1>4, <1>5, <1>6 DEF Next

LEMMA InvHolds == Spec => []Inv
  BY InvInit, InvNext, PTL DEF Spec

\* Every variable keeps its type; above all the running total stays within the
\* limit, whatever uint64 arithmetic Request and Withdraw do on it.
THEOREM LimiterTypes == Spec => []TypeOK
<1>1. Inv => TypeOK
  <2> SUFFICES ASSUME Inv PROVE TypeOK
    OBVIOUS
  <2>1. now \in 0..MaxTime  BY Constants DEF Inv, Owned, Typed, Books
  <2> QED  BY <2>1 DEF Inv, Owned, Typed, TimerStates, Books, Entry, TypeOK
<1> QED  BY <1>1, InvHolds, PTL

\* The running total is what is committed and requested, and what repeated
\* requests left behind (Request, Withdraw): no order of calls,
\* evictions and late timers loses or double-counts a token.
THEOREM AccountsBalance == Spec => []Accounting
  BY InvHolds, PTL DEF Inv, Books

\* In no window of the period were more tokens committed than the limit
\* allows, though Request evicts by a clock it read before it got the mutex.
THEOREM WindowStaysCapped == Spec => []WindowCapped
  BY InvHolds, PTL DEF Inv
-----------------------------------------------------------------------------
(* What the service over the limiter may rely on.                            *)

\* The limiter of a process that starts, while the timers of the last one are
\* dead.
LEMMA InvReset ==
  ASSUME Inv, total' = 0, requested' = [id \in Ids |-> NoRequest], committed' = <<>>,
         timers' = [t \in DOMAIN timers |-> [timers[t] EXCEPT !.state = "done"]],
         secured' = {}, leaked' = 0, log' = <<>>, now' = now
  PROVE  Inv'
<1>0. Typed /\ now \in Nat /\ now <= MaxTime  BY Constants DEF Inv, Owned, Typed, Books
<1>1. timers' \in Seq([id: Ids, at: Nat, state: TimerStates])
  <2>1. \A t \in 1..Len(timers) : timers[t] \in [id: Ids, at: Nat, state: TimerStates]
    BY <1>0, TimerType DEF Typed
  <2>2. DOMAIN timers = 1..Len(timers) /\ Len(timers) \in Nat  BY <1>0 DEF Typed
  <2>3. \A t \in 1..Len(timers) : timers'[t] \in [id: Ids, at: Nat, state: TimerStates]
    BY <2>1, <2>2 DEF TimerStates
  <2>4. timers' \in [1..Len(timers) -> [id: Ids, at: Nat, state: TimerStates]]  BY <2>2, <2>3
  <2> QED  BY <2>2, <2>4
<1>2. Owned'  BY <1>0, <1>1 DEF Owned, Typed, NoRequest, Requested
<1>3. Waiting(requested') = {}  BY DEF Waiting, NoRequest
<1>4. RequestsTyped(requested')
  <2>1. IsFiniteSet(Waiting(requested'))  BY <1>3, FS_EmptySet
  <2> QED  BY <2>1 DEF RequestsTyped, NoRequest
<1>5. AllRequested(requested') = 0
  <2>1. [id \in Waiting(requested') |-> requested'[id].n] \in [{} -> Nat]  BY <1>3
  <2> QED  BY <2>1, SumEmpty DEF AllRequested
<1>6. Accounting'  BY <1>5, TokensEmpty, AccountingNext
<1>7. Books'
  <2>1. <<>> \in Seq(Entry)  OBVIOUS
  <2> QED  BY <1>0, <1>4, <1>6, <2>1, Constants DEF Inv, Books
<1>8. Evicted'
  <2>1. Len(<<>>) - Len(<<>>) = 0 /\ DOMAIN <<>> = {}  OBVIOUS
  <2> QED  BY <2>1 DEF Evicted, EndOf
<1>9. WindowCapped'
  <2>1. ASSUME NEW from \in 0..now PROVE InWindow(<<>>, from) <= Limit
    <3>1. <<>> \in Seq(Entry) /\ Tokens(<<>>) <= Limit  BY TokensEmpty, Constants
    <3>2. EndOf(<<>>, <<>>, from)
      <4>1. Len(<<>>) - Len(<<>>) = 0 /\ DOMAIN <<>> = {}  OBVIOUS
      <4> QED  BY <4>1 DEF EndOf
    <3>3. from \in Nat /\ from + Period >= from  BY <1>0, Constants
    <3> QED  BY <3>1, <3>2, <3>3, OpenWindow
  <2> QED  BY <1>0, <2>1 DEF WindowCapped
<1> QED  BY <1>2, <1>7, <1>8, <1>9 DEF Inv

\* The ids that hold tokens hold no more than the limit, however many they are.
LEMMA HeldFits ==
  ASSUME Inv, NEW S, \A id \in S : id \in Ids /\ Requested(id),
         NEW f, f = [id \in S |-> requested[id].n]
  PROVE  IsFiniteSet(S) /\ Sum(f) <= Limit
<1> DEFINE D == Waiting(requested)
           g == [id \in D |-> requested[id].n]
<1>1. RequestsTyped(requested) /\ AllRequested(requested) = Sum(g)
  BY DEF Inv, Books, AllRequested
<1>2. IsFiniteSet(D) /\ S \in SUBSET D /\ g \in [D -> Nat]
  BY <1>1, SizesNat DEF RequestsTyped, Waiting, Requested
<1>3. IsFiniteSet(S)  BY <1>2, FS_Subset
<1>4. f = [id \in S |-> g[id]]  BY <1>2
<1> HIDE DEF D, g
<1>5. /\ [id \in S |-> g[id]] \in [S -> Nat] /\ [id \in D \ S |-> g[id]] \in [D \ S -> Nat]
      /\ IsFiniteSet(D \ S)
  BY <1>2, FS_Subset
<1>6. Sum([id \in S |-> g[id]]) \in Nat /\ Sum([id \in D \ S |-> g[id]]) \in Nat
  BY <1>3, <1>5, SumType
<1>7. Sum(g) = Sum([id \in S |-> g[id]]) + Sum([id \in D \ S |-> g[id]])
  BY <1>2, SumSplit
<1>8. Sum(g) <= Limit
  <2>1. Books  BY DEF Inv
  <2>2. total = Sum(g) + Tokens(committed) + leaked /\ Sum(g) \in Nat  BY <1>1, <2>1, BooksNumbers
  <2> QED  BY <2>1, <2>2, BooksNumbers, Constants
<1> QED  BY <1>3, <1>4, <1>6, <1>7, <1>8, Constants
=============================================================================
