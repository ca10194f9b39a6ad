-------------------------- MODULE PriceRulesProofs --------------------------
(***************************************************************************)
(* What the loop over the pricing rules computes, for every list of rules: *)
(* which rule quotes the price for verified deals and which the other one. *)
(***************************************************************************)
EXTENDS PriceRules, FiniteSetTheorems, SequenceTheorems, TLAPS

\* Among some subsets of a finite set there is a smallest one.
LEMMA SmallestSubset ==
  ASSUME NEW D, IsFiniteSet(D), NEW B, B \subseteq SUBSET D, B # {}
  PROVE  \E s \in B : \A t \in B : ~(t \subseteq s /\ t # s)
<1>1. IsWellFoundedOn(StrictSubsetOrdering(D), SUBSET D)
  BY FS_StrictSubsetOrderingWellFounded, FS_FiniteSubsetsOfFinite
<1>2. PICK s \in B : \A t \in B : <<t, s>> \notin StrictSubsetOrdering(D)
  BY <1>1, WFMin, Zenon
<1> QED  BY <1>2 DEF StrictSubsetOrdering

\* A set of positions of a sequence has a first one.
LEMMA FirstPosition ==
  ASSUME NEW n \in Nat, NEW B \in SUBSET (1..n), B # {}
  PROVE  \E m \in B : \A i \in B : m <= i
<1> DEFINE T == {1..i : i \in B}
<1>1. T \in SUBSET SUBSET (1..n) /\ T # {}
  <2>1. \A i \in B : 1..i \in SUBSET (1..n)  OBVIOUS
  <2>2. \A t \in T : t \in SUBSET (1..n)  BY <2>1
  <2>3. \E i \in B : 1..i \in T  OBVIOUS
  <2> QED  BY <2>2, <2>3
<1>2. IsFiniteSet(1..n)  BY FS_Interval
<1>3. PICK s \in T : \A t \in T : ~(t \subseteq s /\ t # s)
  <2>1. PICK D : D = 1..n  OBVIOUS
  <2>2. PICK C : C = T  OBVIOUS
  <2> HIDE DEF T
  <2>3. IsFiniteSet(D)  BY <1>2, <2>1
  <2>4. C \subseteq SUBSET D  BY <1>1, <2>1, <2>2
  <2>5. C # {}  BY <1>1, <2>2
  <2>6. \E s \in C : \A t \in C : ~(t \subseteq s /\ t # s)
    BY <2>3, <2>4, <2>5, SmallestSubset
  <2> QED  BY <2>2, <2>6
<1>4. PICK m \in B : s = 1..m  OBVIOUS
<1>5. ASSUME NEW i \in B, i < m PROVE FALSE
  <2>1. (1..i) \in T /\ 1..i \subseteq s  BY <1>4, <1>5
  <2>2. m \in s /\ m \notin 1..i  BY <1>4, <1>5
  <2> QED  BY <1>3, <2>1, <2>2
<1> QED  BY <1>5

LEMMA LastPosition ==
  ASSUME NEW n \in Nat, NEW B \in SUBSET (1..n), B # {}
  PROVE  \E m \in B : \A i \in B : m >= i
<1> DEFINE C == {n + 1 - i : i \in B}
<1>1. C \in SUBSET (1..n) /\ C # {}
  <2>1. \A i \in B : n + 1 - i \in 1..n  OBVIOUS
  <2> QED  BY <2>1
<1>2. PICK c \in C : \A d \in C : c <= d
  <2> HIDE DEF C
  <2> QED  BY <1>1, FirstPosition
<1>3. PICK m \in B : c = n + 1 - m  OBVIOUS
<1>4. ASSUME NEW i \in B PROVE m >= i
  <2>1. n + 1 - i \in C  OBVIOUS
  <2>2. c <= n + 1 - i  BY <1>2, <2>1
  <2>3. i \in Int /\ m \in Int /\ n \in Int  OBVIOUS
  <2> HIDE DEF C
  <2> QED  BY <1>3, <2>2, <2>3
<1> QED  BY <1>4

LEMMA MinOf ==
  ASSUME NEW n \in Nat, NEW B \in SUBSET (1..n), B # {}
  PROVE  Min(B) \in B /\ \A i \in B : Min(B) <= i
  BY FirstPosition DEF Min

LEMMA MaxOf ==
  ASSUME NEW n \in Nat, NEW B \in SUBSET (1..n), B # {}
  PROVE  Max(B) \in B /\ \A i \in B : Max(B) >= i
  BY LastPosition DEF Max

-----------------------------------------------------------------------------
(* The loop, taken for any set s of positions of the list in their order.    *)

Quoting(list, s, kinds) == {i \in s : list[i].covers /\ list[i].verified \in kinds}

\* A rule for any deal sets the price for unverified deals only when an earlier
\* rule has set the one for verified deals.
Remaining(list, s) ==
  {i \in Quoting(list, s, UnverifiedKinds) :
     list[i].verified = "any" => \E j \in Quoting(list, s, VerifiedKinds) : j < i}

PriceAt(list, s) == IF s = {} THEN NoPrice ELSE list[Min(s)].price

Priced(v, u) == [allow |-> TRUE, verified |-> v, unverified |-> u]

Outcome(list, s) == Priced(PriceAt(list, Quoting(list, s, VerifiedKinds)),
                           PriceAt(list, Remaining(list, s)))

\* A later position does not change which price comes first.
LEMMA PriceAtLater ==
  ASSUME NEW n \in Nat, NEW list \in [1..n -> Rule], NEW s \in SUBSET (1..n), NEW m \in 1..n,
         \A i \in s : i < m
  PROVE  /\ PriceAt(list, s \cup {m}) = IF s = {} THEN list[m].price ELSE PriceAt(list, s)
         /\ (PriceAt(list, s) = NoPrice) <=> (s = {})
<1> DEFINE t == s \cup {m}
<1>1. t \in SUBSET (1..n) /\ t # {}  OBVIOUS
<1>2. Min(t) \in t /\ \A i \in t : Min(t) <= i  BY <1>1, MinOf
<1>3. CASE s = {}
  <2>1. Min(t) = m  BY <1>2, <1>3
  <2> QED  BY <1>1, <1>3, <2>1 DEF PriceAt
<1>4. CASE s # {}
  <2>1. Min(s) \in s /\ \A i \in s : Min(s) <= i  BY <1>4, MinOf
  <2>2. Min(s) \in t /\ Min(s) < m  BY <2>1
  <2>3. s \subseteq Int /\ m \in Int  OBVIOUS
  <2>4. Min(t) \in s
    <3>1. Min(t) \in t /\ Min(t) <= Min(s)  BY <1>2, <2>2
    <3>2. Min(s) \in Int  BY <2>1, <2>3
    <3>3. Min(t) # m  BY <2>2, <2>3, <3>1, <3>2
    <3> QED  BY <3>1, <3>3
  <2>5. Min(t) = Min(s)
    <3> HIDE DEF t
    <3>1. Min(t) <= Min(s) /\ Min(s) <= Min(t)  BY <1>2, <2>1, <2>2, <2>4
    <3>2. Min(t) \in Int /\ Min(s) \in Int  BY <2>1, <2>3, <2>4
    <3> QED  BY <3>1, <3>2
  <2>6. PriceAt(list, t) = PriceAt(list, s)  BY <1>1, <1>4, <2>5 DEF PriceAt
  <2>7. list[Min(s)] \in Rule  BY <2>1
  <2>8. PriceAt(list, s) # NoPrice  BY <1>4, <2>7 DEF PriceAt, Rule
  <2> QED  BY <1>4, <2>6, <2>8
<1> QED  BY <1>3, <1>4

LEMMA PriceSet ==
  ASSUME NEW v, NEW u, NEW x
  PROVE  /\ [Priced(v, u) EXCEPT !.verified = x] = Priced(x, u)
         /\ [Priced(v, u) EXCEPT !.unverified = x] = Priced(v, x)
         /\ Priced(v, u).verified = v /\ Priced(v, u).unverified = u
<1>1. ASSUME NEW a
      PROVE  /\ [[allow |-> a, verified |-> v, unverified |-> u] EXCEPT !.verified = x]
                = [allow |-> a, verified |-> x, unverified |-> u]
             /\ [[allow |-> a, verified |-> v, unverified |-> u] EXCEPT !.unverified = x]
                = [allow |-> a, verified |-> v, unverified |-> x]
  OBVIOUS
<1>2. PICK a : a = TRUE  OBVIOUS
<1>3. Priced(v, u) = [allow |-> a, verified |-> v, unverified |-> u]  BY <1>2, Zenon DEF Priced
<1>4. Priced(x, u) = [allow |-> a, verified |-> x, unverified |-> u]  BY <1>2, Zenon DEF Priced
<1>5. Priced(v, x) = [allow |-> a, verified |-> v, unverified |-> x]  BY <1>2, Zenon DEF Priced
<1>6. [Priced(v, u) EXCEPT !.verified = x] = Priced(x, u)  BY <1>1, <1>3, <1>4, Zenon
<1>7. [Priced(v, u) EXCEPT !.unverified = x] = Priced(v, x)  BY <1>1, <1>3, <1>5, Zenon
<1> QED  BY <1>3, <1>6, <1>7

\* One turn of the loop.
LEMMA OutcomeStep ==
  ASSUME NEW n \in Nat, NEW list \in [1..n -> Rule], NEW r \in SUBSET (1..n), NEW m \in 1..n,
         \A i \in r : i < m
  PROVE  Outcome(list, r \cup {m}) = Apply(Outcome(list, r), list[m])
<1> DEFINE s == r \cup {m}
           V == Quoting(list, r, VerifiedKinds)
           U == Remaining(list, r)
           rule == list[m]
           p == Outcome(list, r)
<1>1. rule \in Rule  OBVIOUS
<1>2. Quoting(list, s, VerifiedKinds) = IF rule.covers /\ ForVerified(rule) THEN V \cup {m} ELSE V
  BY DEF Quoting, ForVerified
<1>3. Remaining(list, s) = IF rule.covers /\ ForUnverified(rule) /\ (rule.verified = "any" => V # {})
                           THEN U \cup {m} ELSE U
  <2>1. m \notin r /\ r \subseteq Int /\ m \in Int  OBVIOUS
  <2>2. ASSUME NEW i \in r
        PROVE  (\E j \in Quoting(list, s, VerifiedKinds) : j < i) <=> (\E j \in V : j < i)
    BY <2>1, <2>2 DEF Quoting
  <2>3. (\E j \in Quoting(list, s, VerifiedKinds) : j < m) <=> V # {}
    <3>1. \A j \in s : j < m <=> j \in r  BY <2>1
    <3>2. r \subseteq s  OBVIOUS
    <3> HIDE DEF s
    <3> QED  BY <3>1, <3>2 DEF Quoting
  <2>4. ASSUME NEW i \in r PROVE i \in Remaining(list, s) <=> i \in U
    BY <2>2 DEF Remaining, Quoting
  <2>5. m \in Remaining(list, s)
          <=> (rule.covers /\ ForUnverified(rule) /\ (rule.verified = "any" => V # {}))
    BY <2>3 DEF Remaining, Quoting, ForUnverified
  <2>6. Remaining(list, s) \subseteq s /\ U \subseteq r /\ m \notin U
    BY <2>1 DEF Remaining, Quoting
  <2>7. \A i : i \in Remaining(list, s) => i \in r \/ i = m  BY <2>6
  <2> HIDE DEF U, V, s, rule
  <2>8. CASE rule.covers /\ ForUnverified(rule) /\ (rule.verified = "any" => V # {})
    <3>1. m \in Remaining(list, s)  BY <2>5, <2>8
    <3>2. Remaining(list, s) = U \cup {m}  BY <2>4, <2>6, <2>7, <3>1
    <3> QED  BY <2>8, <3>2
  <2>9. CASE ~(rule.covers /\ ForUnverified(rule) /\ (rule.verified = "any" => V # {}))
    <3>1. m \notin Remaining(list, s)  BY <2>5, <2>9
    <3>2. Remaining(list, s) = U  BY <2>4, <2>6, <2>7, <3>1
    <3> QED  BY <2>9, <3>2
  <2> QED  BY <2>8, <2>9
<1>4. /\ V \in SUBSET (1..n) /\ \A i \in V : i < m
      /\ U \in SUBSET (1..n) /\ \A i \in U : i < m
  BY DEF Remaining, Quoting
<1> HIDE DEF U, V, s, rule
<1>5. /\ PriceAt(list, V \cup {m}) = IF V = {} THEN rule.price ELSE PriceAt(list, V)
      /\ (PriceAt(list, V) = NoPrice) <=> (V = {})
  BY <1>4, PriceAtLater DEF rule
<1>10. /\ PriceAt(list, U \cup {m}) = IF U = {} THEN rule.price ELSE PriceAt(list, U)
       /\ (PriceAt(list, U) = NoPrice) <=> (U = {})
  BY <1>4, PriceAtLater DEF rule
<1>6. p = Priced(PriceAt(list, V), PriceAt(list, U))
  BY DEF Outcome, U, V
<1>7. Outcome(list, s) = Priced(PriceAt(list, Quoting(list, s, VerifiedKinds)),
                                 PriceAt(list, Remaining(list, s)))
  BY DEF Outcome
<1> HIDE DEF p
<1>8. rule.verified \in {"true", "false", "any"} /\ rule.covers \in BOOLEAN
  BY <1>1 DEF Rule
<1>9. Outcome(list, s) = Apply(p, rule)
  <2> DEFINE v == PriceAt(list, V)
             u == PriceAt(list, U)
  <2> HIDE DEF v, u
  <2>6. p = Priced(v, u)  BY <1>6 DEF v, u
  <2>1. p.verified = v /\ p.unverified = u  BY <2>6, PriceSet
  <2>2. /\ [p EXCEPT !.verified = rule.price] = Priced(rule.price, u)
        /\ [p EXCEPT !.unverified = rule.price] = Priced(v, rule.price)
    <3>1. \A x : [Priced(v, u) EXCEPT !.verified = x] = Priced(x, u)  BY PriceSet
    <3>2. \A x : [Priced(v, u) EXCEPT !.unverified = x] = Priced(v, x)  BY PriceSet
    <3> QED  BY <2>6, <3>1, <3>2, Zenon
  <2>3. CASE ~rule.covers
    <3>1. Apply(p, rule) = p  BY <2>3 DEF Apply
    <3> QED  BY <1>2, <1>3, <1>6, <1>7, <2>3, <3>1
  <2>4. CASE rule.covers /\ ForVerified(rule) /\ V = {}
    <3>1. Apply(p, rule) = Priced(rule.price, u)
      BY <1>5, <2>1, <2>2, <2>4 DEF Apply, SetVerified, v
    <3>2. PriceAt(list, Quoting(list, s, VerifiedKinds)) = rule.price  BY <1>2, <1>5, <2>4
    <3>3. Remaining(list, s) = U
      BY <1>3, <1>8, <2>4 DEF ForVerified, ForUnverified, VerifiedKinds, UnverifiedKinds
    <3> QED  BY <1>7, <3>1, <3>2, <3>3 DEF u
  <2>5. CASE rule.covers /\ ~(ForVerified(rule) /\ V = {})
    <3>1. PriceAt(list, Quoting(list, s, VerifiedKinds)) = v  BY <1>2, <1>5, <2>5 DEF v
    <3>2. ~SetVerified(p, rule)  BY <1>5, <2>1, <2>5 DEF SetVerified, v
    <3>3. Remaining(list, s) = IF ForUnverified(rule) THEN U \cup {m} ELSE U
      BY <1>3, <1>8, <2>5 DEF ForVerified, VerifiedKinds
    <3>4. CASE ForUnverified(rule) /\ U = {}
      <4>1. Apply(p, rule) = Priced(v, rule.price)
        BY <1>10, <2>1, <2>2, <2>5, <3>2, <3>4 DEF Apply, SetUnverified, u
      <4>2. PriceAt(list, Remaining(list, s)) = rule.price  BY <1>10, <3>3, <3>4
      <4> QED  BY <1>7, <3>1, <4>1, <4>2
    <3>5. CASE ~(ForUnverified(rule) /\ U = {})
      <4>1. Apply(p, rule) = p
        <5>1. ~SetUnverified(p, rule)  BY <1>10, <2>1, <3>5 DEF SetUnverified, u
        <5> QED  BY <2>5, <3>2, <5>1 DEF Apply
      <4>2. PriceAt(list, Remaining(list, s)) = PriceAt(list, U)
        <5>1. CASE ~ForUnverified(rule)  BY <3>3, <5>1
        <5>2. CASE ForUnverified(rule) /\ U # {}
          <6>1. PriceAt(list, U \cup {m}) = PriceAt(list, U)  BY <1>10, <5>2
          <6> QED  BY <3>3, <5>2, <6>1
        <5> QED  BY <3>5, <5>1, <5>2
      <4> QED  BY <1>6, <1>7, <3>1, <4>1, <4>2 DEF v
    <3> QED  BY <3>4, <3>5
  <2> QED  BY <2>3, <2>4, <2>5
<1> QED  BY <1>9 DEF s, p, rule

-----------------------------------------------------------------------------
(* The fold of the loop over the list is the outcome of all its positions.   *)

\* What FoldLeft computes with, for the subsets of the positions.
IsLoop(it, list) ==
  it = [s \in SUBSET DOMAIN list |->
          IF s = {} THEN Unset
          ELSE LET m == Max(s) IN Apply(it[s \ {m}], list[m])]

LEMMA FoldIsLoop ==
  ASSUME NEW list, NEW it, IsLoop(it, list)
  PROVE  \E jt : /\ IsLoop(jt, list)
                 /\ FoldLeft(Apply, Unset, list) = jt[DOMAIN list]
  BY DEF FoldLeft, MapThenFoldSet, IsLoop

LEMMA OutcomeNone == ASSUME NEW list PROVE Outcome(list, {}) = Unset
<1>1. Quoting(list, {}, VerifiedKinds) = {} /\ Remaining(list, {}) = {}
  BY DEF Quoting, Remaining
<1> QED  BY <1>1 DEF Outcome, PriceAt, Priced, Unset

LEMMA OutcomeIsLoop ==
  ASSUME NEW n \in Nat, NEW list \in [1..n -> Rule]
  PROVE  IsLoop([s \in SUBSET (1..n) |-> Outcome(list, s)], list)
<1> DEFINE it == [s \in SUBSET (1..n) |-> Outcome(list, s)]
<1>1. ASSUME NEW s \in SUBSET (1..n)
      PROVE  it[s] = IF s = {} THEN Unset ELSE LET m == Max(s) IN Apply(it[s \ {m}], list[m])
  <2>1. CASE s = {}
    <3>1. it[s] = Outcome(list, {})  BY <2>1
    <3> QED  BY <2>1, <3>1, OutcomeNone, Zenon
  <2>2. CASE s # {}
    <3> DEFINE m == Max(s)
    <3>1. m \in s /\ \A i \in s : m >= i  BY <2>2, MaxOf
    <3> HIDE DEF m
    <3> DEFINE r == s \ {m}
    <3>2. m \in 1..n /\ r \in SUBSET (1..n) /\ s = r \cup {m}  BY <3>1
    <3>3. ASSUME NEW i \in r PROVE i < m
      <4>1. m >= i /\ i # m /\ i \in Int /\ m \in Int  BY <3>1
      <4> QED  BY <4>1
    <3> HIDE DEF r
    <3>4. Outcome(list, r \cup {m}) = Apply(Outcome(list, r), list[m])
      BY <3>2, <3>3, OutcomeStep
    <3>5. it[s] = Apply(it[r], list[m])  BY <3>2, <3>4
    <3> QED  BY <2>2, <3>5 DEF m, r
  <2> QED  BY <2>1, <2>2
<1>2. DOMAIN list = 1..n  OBVIOUS
<1> HIDE DEF it
<1>3. it = [s \in SUBSET (1..n) |-> it[s]]  BY DEF it
<1>4. it = [s \in SUBSET (1..n) |->
              IF s = {} THEN Unset ELSE LET m == Max(s) IN Apply(it[s \ {m}], list[m])]
  BY <1>1, <1>3, Zenon
<1>5. IsLoop(it, list)  BY <1>2, <1>4 DEF IsLoop
<1> QED  BY <1>5 DEF it

LEMMA LoopOutcome ==
  ASSUME NEW list \in Seq(Rule)
  PROVE  FoldLeft(Apply, Unset, list) = Outcome(list, DOMAIN list)
<1> DEFINE n == Len(list)
           D == 1..n
           it == [s \in SUBSET D |-> Outcome(list, s)]
<1>1. n \in Nat /\ DOMAIN list = D /\ list \in [1..n -> Rule]  BY LenProperties
<1> HIDE DEF n
<1>2. IsLoop(it, list)  BY <1>1, OutcomeIsLoop
<1>3. PICK jt : IsLoop(jt, list) /\ FoldLeft(Apply, Unset, list) = jt[DOMAIN list]
  BY <1>2, FoldIsLoop
<1>4. IsFiniteSet(D)  BY <1>1, FS_Interval
<1>5. ASSUME NEW g, IsLoop(g, list), NEW r \in SUBSET D
      PROVE  g[r] = IF r = {} THEN Unset ELSE LET m == Max(r) IN Apply(g[r \ {m}], list[m])
  BY <1>1, <1>5 DEF IsLoop
<1> HIDE DEF it
<1> DEFINE B == {s \in SUBSET D : jt[s] # it[s]}
<1>6. CASE B = {}
  <2>1. D \in SUBSET D  OBVIOUS
  <2>2. jt[D] = it[D]  BY <1>6, <2>1
  <2>3. it[D] = Outcome(list, D)  BY <2>1 DEF it
  <2> QED  BY <1>1, <1>3, <2>2, <2>3
<1>7. CASE B # {}
  <2> HIDE DEF D
  <2>1. PICK s \in B : \A t \in B : ~(t \subseteq s /\ t # s)
    <3> HIDE DEF B
    <3>1. B \subseteq SUBSET D  BY DEF B
    <3> QED  BY <1>4, <1>7, <3>1, SmallestSubset
  <2>2. s \in SUBSET D  OBVIOUS
  <2>3. s # {}
    <3>1. s = {} => jt[s] = Unset /\ it[s] = Unset  BY <1>2, <1>3, <1>5, <2>2
    <3> QED  BY <2>1, <3>1
  <2> DEFINE m == Max(s)
  <2>4. m \in s  BY <1>1, <2>2, <2>3, MaxOf DEF D
  <2>5. jt[s] = Apply(jt[s \ {m}], list[m]) /\ it[s] = Apply(it[s \ {m}], list[m])
    BY <1>2, <1>3, <1>5, <2>2, <2>3
  <2> HIDE DEF m
  <2>6. s \ {m} \in SUBSET D /\ s \ {m} \notin B  BY <2>1, <2>2, <2>4
  <2>7. jt[s \ {m}] = it[s \ {m}]  BY <2>6
  <2> QED  BY <2>1, <2>5, <2>7
<1> QED  BY <1>6, <1>7

LEMMA ResolveOutcome ==
  ASSUME NEW book \in Rulebook
  PROVE  /\ ~Refuses(book) => Resolve(book) = Outcome(book.rules, DOMAIN book.rules)
         /\ Resolve(book).allow <=> ~Refuses(book)
<1>1. book.rules \in Seq(Rule)  BY DEF Rulebook
<1>2. CASE Refuses(book)
  BY <1>2 DEF Resolve, NoPrices
<1>3. CASE ~Refuses(book)
  <2>1. Resolve(book) = Outcome(book.rules, DOMAIN book.rules)
    BY <1>1, <1>3, LoopOutcome DEF Resolve
  <2>2. Resolve(book).allow = TRUE  BY <2>1 DEF Outcome, Priced
  <2> QED  BY <1>3, <2>1, <2>2
<1> QED  BY <1>2, <1>3

\* A rulebook that allows deals quotes for verified deals the price of the first
\* covering rule for them, and none only when there is no such rule, however
\* long the list is (the loop of clientRules.PricesFor).
THEOREM VerifiedPrice ==
  ASSUME NEW book \in Rulebook, ~Refuses(book)
  PROVE  /\ Resolve(book).verified = FirstPrice(book, Quotes(book, VerifiedKinds))
         /\ (Resolve(book).verified = NoPrice) <=> (Quotes(book, VerifiedKinds) = {})
<1> DEFINE list == book.rules
           V == Quoting(list, DOMAIN list, VerifiedKinds)
<1>1. list \in Seq(Rule)  BY DEF Rulebook
<1>2. Quotes(book, VerifiedKinds) = V  BY DEF Quotes, Quoting
<1>3. Resolve(book).verified = PriceAt(list, V)  BY ResolveOutcome DEF Outcome, Priced
<1>4. FirstPrice(book, V) = PriceAt(list, V)  BY DEF FirstPrice, PriceAt
<1>5. V # {} => PriceAt(list, V) # NoPrice
  <2>1. Len(list) \in Nat /\ V \in SUBSET (1..Len(list))  BY <1>1, LenProperties DEF Quoting
  <2>2. ASSUME V # {} PROVE Min(V) \in 1..Len(list)  BY <2>1, <2>2, MinOf
  <2>3. ASSUME V # {} PROVE list[Min(V)] \in Rule  BY <1>1, <2>2, <2>3, ElementOfSeq
  <2> QED  BY <2>3 DEF PriceAt, Rule
<1>6. V = {} => PriceAt(list, V) = NoPrice  BY DEF PriceAt
<1> QED  BY <1>2, <1>3, <1>4, <1>5, <1>6

\* The price it quotes for unverified deals is that of a covering rule for them,
\* and there is one whenever a covering rule is for unverified deals only.  That
\* it is the first such rule does not hold: a rule for any deal is spent on the
\* price for verified deals (the else-branch of clientRules.PricesFor).
THEOREM UnverifiedPrice ==
  ASSUME NEW book \in Rulebook, ~Refuses(book)
  PROVE  LET quotes == Quotes(book, UnverifiedKinds)
             price  == Resolve(book).unverified
         IN  /\ price # NoPrice => \E i \in quotes : book.rules[i].price = price
             /\ (\E i \in quotes : book.rules[i].verified = "false") => price # NoPrice
<1> DEFINE list == book.rules
           U == Remaining(list, DOMAIN list)
           quotes == Quotes(book, UnverifiedKinds)
           price  == Resolve(book).unverified
<1>1. list \in Seq(Rule)  BY DEF Rulebook
<1>2. quotes = Quoting(list, DOMAIN list, UnverifiedKinds)  BY DEF Quotes, Quoting
<1>3. price = PriceAt(list, U)  BY ResolveOutcome DEF Outcome, Priced
<1>4. U \subseteq quotes /\ \A i \in quotes : list[i].verified = "false" => i \in U
  BY <1>2 DEF Remaining
<1>5. Len(list) \in Nat /\ U \in SUBSET (1..Len(list))
  BY <1>1, <1>2, <1>4, LenProperties DEF Quoting
<1>6. ASSUME U # {} PROVE Min(U) \in U /\ list[Min(U)] \in Rule
  <2>1. Min(U) \in U  BY <1>5, <1>6, MinOf
  <2> QED  BY <1>1, <1>5, <2>1, ElementOfSeq
<1>7. CASE U = {}
  <2>1. price = NoPrice  BY <1>3, <1>7 DEF PriceAt
  <2> QED  BY <1>4, <1>7, <2>1
<1>8. CASE U # {}
  <2>1. price = list[Min(U)].price  BY <1>3, <1>8 DEF PriceAt
  <2>2. price # NoPrice  BY <1>6, <1>8, <2>1 DEF Rule
  <2> QED  BY <1>4, <1>6, <1>8, <2>1, <2>2
<1> QED  BY <1>7, <1>8
=============================================================================
