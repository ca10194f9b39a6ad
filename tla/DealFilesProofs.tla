--------------------------- MODULE DealFilesProofs ---------------------------
(***************************************************************************)
(* Proofs about the deal data files over the bid store and about the lists *)
(* of bids, for every set of bids, workers, handlers and API requests and  *)
(* every limit: only whole files are imported, GC takes no file that is    *)
(* still needed and leaves none that is not, the pages of a list connect,  *)
(* and the two ways to ask the HTTP API for deals agree.                   *)
(***************************************************************************)
EXTENDS DealFiles, FiniteSetTheorems, SequenceTheorems, TLAPS

\* The store again, with its theorems.  Store and Safety are two instances of
\* one module; this section shows that their definitions agree.
Safety == INSTANCE BidStoreSafety WITH ListLimit <- DefaultListLimit

\* For its lemmas about the positions of a list and their order.
Lists == INSTANCE PriceRulesProofs

LEMMA StoreAssumptions ==
  /\ Bids \subseteq Nat /\ Bids # {} /\ Safety!IsFiniteSet(Bids)
  /\ Safety!IsFiniteSet(Workers)
  /\ {"next", "orphans", "none"} \cap Handlers = {}
  /\ FetchAttempts \in Nat \ {0} /\ ConcurrentImports \in Nat
  /\ DefaultListLimit \in Nat /\ MaxBoots \in Nat \ {0}
  /\ DiscardOrphans \in BOOLEAN /\ StoreFails \in BOOLEAN
  BY BidsAssumption, WorkersAssumption, HandlersAssumption, LimitsAssumption, FlagsAssumption
  DEF IsFiniteSet, Safety!IsFiniteSet

-----------------------------------------------------------------------------
(* The two instances of the store.                                           *)

LEMMA SameRoom == Store!Room <=> Safety!Room
  BY DEF Store!Room, Safety!Room, Store!Cardinality, Safety!Cardinality

LEMMA SameInit == Store!Init <=> Safety!Init
  BY DEF Store!Init, Safety!Init, Store!Txns, Safety!Txns, Store!Closed, Safety!Closed,
      Store!Fresh, Safety!Fresh, Store!NilBid, Safety!NilBid, Store!Idle, Safety!Idle

LEMMA SameData ==
  /\ \A e, r, s : Store!Save(e, r, s) = Safety!Save(e, r, s)
  /\ \A a, b : Store!Loaded(a, b) = Safety!Loaded(a, b)
  /\ \A b : Store!Status(b) = Safety!Status(b) /\ Store!Fresh(b) = Safety!Fresh(b)
  /\ \A b, S : /\ Store!Oldest(b, S) <=> Safety!Oldest(b, S)
               /\ Store!Newest(b, S) <=> Safety!Newest(b, S)
  /\ \A w : /\ Store!WorkerBid(w) = Safety!WorkerBid(w)
            /\ Store!Busy(w) <=> Safety!Busy(w)
  /\ \A a : Store!Open(a) <=> Safety!Open(a)
  /\ Store!QueuedKeys = Safety!QueuedKeys /\ Store!FetchingKeys = Safety!FetchingKeys
  /\ Store!Up <=> Safety!Up
  /\ Store!Idle = Safety!Idle /\ Store!NilBid = Safety!NilBid
  /\ Store!Closed = Safety!Closed /\ Store!Absent = Safety!Absent
  BY DEF Store!Save, Safety!Save, Store!Loaded, Safety!Loaded, Store!Status, Safety!Status,
      Store!Fresh, Safety!Fresh, Store!Oldest, Safety!Oldest, Store!Newest, Safety!Newest,
      Store!WorkerBid, Safety!WorkerBid, Store!Pointee, Safety!Pointee, Store!Busy, Safety!Busy,
      Store!Open, Safety!Open, Store!QueuedKeys, Safety!QueuedKeys, Store!FetchingKeys,
      Safety!FetchingKeys, Store!Up, Safety!Up, Store!Idle, Safety!Idle, Store!NilBid,
      Safety!NilBid, Store!Closed, Safety!Closed, Store!Absent, Safety!Absent

LEMMA SameWrites ==
  /\ \A e, r, s : Store!Enqueued(e, r, s) = Safety!Enqueued(e, r, s)
  /\ \A a, B : Store!Raced(a, B) = Safety!Raced(a, B) /\ Store!AfterWrite(a, B) = Safety!AfterWrite(a, B)
  /\ \A b, e : Store!Write(b, e) <=> Safety!Write(b, e)
  /\ \A a, b : Store!OpenAndSend(a, b) <=> Safety!OpenAndSend(a, b)
  BY SameData, SameRoom DEF Store!Enqueued, Safety!Enqueued, Store!Raced, Safety!Raced,
      Store!AfterWrite, Safety!AfterWrite, Store!Txns, Safety!Txns, Store!Write, Safety!Write,
      Store!OpenAndSend, Safety!OpenAndSend

LEMMA SameMessages ==
  \A b : /\ Store!SaveBid(b) <=> Safety!SaveBid(b)
         /\ Store!SetAwaitingProposalCid(b) <=> Safety!SetAwaitingProposalCid(b)
         /\ Store!SetDealUID(b) <=> Safety!SetDealUID(b)
         /\ \A h : Store!SetProposalCid(h, b) <=> Safety!SetProposalCid(h, b)
  BY SameData, SameWrites DEF Store!SaveBid, Safety!SaveBid, Store!SetAwaitingProposalCid,
      Safety!SetAwaitingProposalCid, Store!SetDealUID, Safety!SetDealUID, Store!SetProposalCid,
      Safety!SetProposalCid

LEMMA SameCommits ==
  /\ \A a : (Store!Commit(a) <=> Safety!Commit(a)) /\ (Store!Abort(a) <=> Safety!Abort(a))
  /\ Store!Dispatch <=> Safety!Dispatch
  BY SameData, SameWrites DEF Store!Commit, Safety!Commit, Store!Abort, Safety!Abort,
      Store!Dispatch, Safety!Dispatch, Store!NextFindsNothing, Safety!NextFindsNothing,
      Store!NextEnqueues, Safety!NextEnqueues, Store!Wake, Safety!Wake

LEMMA SameWork ==
  \A w : /\ Store!TakeJob(w) <=> Safety!TakeJob(w)
         /\ Store!DropJob(w) <=> Safety!DropJob(w)
         /\ Store!FetchExpired(w) <=> Safety!FetchExpired(w)
         /\ Store!FetchFails(w) <=> Safety!FetchFails(w)
         /\ Store!FetchDone(w) <=> Safety!FetchDone(w)
         /\ Store!ImportFails(w) <=> Safety!ImportFails(w)
         /\ Store!ImportDone(w) <=> Safety!ImportDone(w)
  BY SameData DEF Store!TakeJob, Safety!TakeJob, Store!DropJob, Safety!DropJob, Store!Pointee,
      Safety!Pointee, Store!AttemptCap, Safety!AttemptCap, Store!FetchExpired,
      Safety!FetchExpired, Store!FetchFails, Safety!FetchFails, Store!FetchDone, Safety!FetchDone,
      Store!ImportFails, Safety!ImportFails, Store!ImportDone, Safety!ImportDone, Store!Fail,
      Safety!Fail

LEMMA SameImportBegin == \A w : Store!ImportBegin(w) <=> Safety!ImportBegin(w)
  BY DEF Store!ImportBegin, Safety!ImportBegin, Store!ImportSlot, Safety!ImportSlot,
      Store!Importing, Safety!Importing, Store!Cardinality, Safety!Cardinality

LEMMA SameSaveOutcome ==
  \A w : /\ Store!SaveOutcome(w) <=> Safety!SaveOutcome(w)
         /\ Store!SaveOutcomeFails(w) <=> Safety!SaveOutcomeFails(w)
  BY SameData, SameWrites DEF Store!SaveOutcome, Safety!SaveOutcome, Store!SaveOutcomeFails,
      Safety!SaveOutcomeFails, Store!Release, Safety!Release, Store!Cardinality, Safety!Cardinality

LEMMA SameListed == Store!Discardable = Safety!Discardable
  BY DEF Store!Discardable, Safety!Discardable, Store!Listed, Safety!Listed, Store!Cardinality,
      Safety!Cardinality, Store!Status, Safety!Status, Store!Absent, Safety!Absent

LEMMA SameCollect == Store!Collect <=> Safety!Collect
  BY SameData, SameListed, SameWrites DEF Store!Collect, Safety!Collect, Store!GCList,
      Safety!GCList, Store!GCDelete, Safety!GCDelete

LEMMA SameLife ==
  /\ Store!Start <=> Safety!Start
  /\ \A b : Store!OrphanEnqueue(b) <=> Safety!OrphanEnqueue(b)
  /\ Store!BootCommit <=> Safety!BootCommit
  /\ Store!Close <=> Safety!Close
  /\ Store!BootFails <=> Safety!BootFails
  /\ Store!Exit <=> Safety!Exit
  /\ Store!Crash <=> Safety!Crash
  BY SameData, SameRoom, SameWrites DEF Store!Start, Safety!Start, Store!OrphanEnqueue,
      Safety!OrphanEnqueue, Store!BootCommit, Safety!BootCommit, Store!Close, Safety!Close,
      Store!BootFails, Safety!BootFails, Store!Exit, Safety!Exit, Store!Crash, Safety!Crash,
      Store!Stop, Safety!Stop, Store!Reset, Safety!Reset, Store!Txns, Safety!Txns

-----------------------------------------------------------------------------
(* The lists of bids.                                                        *)

\* How many keys come before k.
Rank(keys, o, k) == Cardinality({j \in keys : Before(o, j, k)})

LEMMA RankOrders ==
  ASSUME NEW S \in SUBSET Nat, IsFiniteSet(S), NEW o \in Orders
  PROVE  /\ \A k \in S : Rank(S, o, k) \in 0..(Cardinality(S) - 1)
         /\ \A j, k \in S : Before(o, j, k) <=> Rank(S, o, j) < Rank(S, o, k)
<1> DEFINE Above(k) == {j \in S : Before(o, j, k)}
<1>1. \A k \in S : IsFiniteSet(Above(k)) /\ Cardinality(Above(k)) \in Nat
  <2> SUFFICES ASSUME NEW k \in S PROVE IsFiniteSet(Above(k)) /\ Cardinality(Above(k)) \in Nat
    OBVIOUS
  <2>1. Above(k) \in SUBSET S  OBVIOUS
  <2>2. IsFiniteSet(Above(k))  BY <2>1, FS_Subset
  <2> QED  BY <2>2, FS_CardinalityType
<1>2. ASSUME NEW k \in S PROVE Rank(S, o, k) \in 0..(Cardinality(S) - 1)
  <2>1. Above(k) \in SUBSET S /\ Above(k) # S /\ Cardinality(S) \in Nat
    BY FS_CardinalityType DEF Before, Orders
  <2>2. Cardinality(Above(k)) <= Cardinality(S) /\ Cardinality(Above(k)) # Cardinality(S)
    <3> HIDE DEF Above
    <3> QED  BY <2>1, FS_Subset
  <2> QED  BY <1>1, <2>1, <2>2 DEF Rank
<1>3. ASSUME NEW j \in S, NEW k \in S, Before(o, j, k) PROVE Rank(S, o, j) < Rank(S, o, k)
  <2>1. Above(j) \in SUBSET Above(k) /\ Above(j) # Above(k)
    <3>1. j \in Above(k) /\ j \notin Above(j)  BY <1>3 DEF Before, Orders
    <3>2. \A i \in Above(j) : i \in Above(k)  BY <1>3 DEF Before, Orders
    <3> QED  BY <3>1, <3>2
  <2>2. IsFiniteSet(Above(k)) /\ Cardinality(Above(k)) \in Nat /\ Cardinality(Above(j)) \in Nat
    BY <1>1
  <2>3. Cardinality(Above(j)) <= Cardinality(Above(k)) /\ Cardinality(Above(j)) # Cardinality(Above(k))
    <3> HIDE DEF Above
    <3> QED  BY <2>1, <2>2, FS_Subset
  <2> QED  BY <2>2, <2>3 DEF Rank
<1>4. ASSUME NEW j \in S, NEW k \in S, Rank(S, o, j) < Rank(S, o, k) PROVE Before(o, j, k)
  <2>1. Rank(S, o, j) \in Nat /\ Rank(S, o, k) \in Nat  BY <1>1 DEF Rank
  <2>2. j # k /\ ~Before(o, k, j)  BY <1>3, <1>4, <2>1
  <2> QED  BY <2>2 DEF Before, Orders
<1> QED  BY <1>2, <1>3, <1>4

\* Every place of the list is taken.
LEMMA RankOnto ==
  ASSUME NEW S \in SUBSET Nat, IsFiniteSet(S), NEW o \in Orders,
         NEW i \in 1..Cardinality(S)
  PROVE  \E k \in S : Rank(S, o, k) = i - 1
<1> DEFINE n    == Cardinality(S)
           T    == 0..(n - 1)
           rank == [k \in S |-> Rank(S, o, k)]
<1>1. n \in Nat  BY FS_CardinalityType
<1>2. IsFiniteSet(T) /\ Cardinality(T) = n
  <2>1. 0 \in Int /\ n - 1 \in Int  BY <1>1
  <2>2. /\ IsFiniteSet(0..(n - 1))
        /\ Cardinality(0..(n - 1)) = IF 0 > n - 1 THEN 0 ELSE n - 1 - 0 + 1
    BY <2>1, FS_Interval
  <2> QED  BY <1>1, <2>2
<1>3. rank \in Injection(S, T)
  <2>1. rank \in [S -> T]  BY RankOrders
  <2>2. ASSUME NEW j \in S, NEW k \in S, rank[j] = rank[k] PROVE j = k
    <3>1. Rank(S, o, j) = Rank(S, o, k) /\ Rank(S, o, j) \in T  BY <2>2, RankOrders
    <3>2. ~Before(o, j, k) /\ ~Before(o, k, j)  BY <3>1, RankOrders
    <3> QED  BY <3>2 DEF Before, Orders
  <2> QED  BY <2>1, <2>2 DEF Injection, IsInjective
<1>4. rank \in Surjection(S, T)
  <2> HIDE DEF rank, T
  <2> QED  BY <1>2, <1>3, FS_Injection
<1>5. i - 1 \in T  BY <1>1
<1>6. \E k \in S : rank[k] = i - 1  BY <1>4, <1>5 DEF Surjection
<1> QED  BY <1>6

\* The list of all keys has the key of rank i - 1 in place i.
LEMMA InOrderIs ==
  ASSUME NEW S \in SUBSET Nat, IsFiniteSet(S), NEW o \in Orders
  PROVE  /\ InOrder(S, o) \in Seq(S) /\ Len(InOrder(S, o)) = Cardinality(S)
         /\ \A i \in 1..Cardinality(S) : Rank(S, o, InOrder(S, o)[i]) = i - 1
         /\ \A k \in S : InOrder(S, o)[Rank(S, o, k) + 1] = k
<1> DEFINE n == Cardinality(S)
           f == InOrder(S, o)
<1>1. n \in Nat  BY FS_CardinalityType
<1>2. f = [i \in 1..n |-> CHOOSE k \in S : Rank(S, o, k) = i - 1]  BY DEF InOrder, Rank
<1>3. \A i \in 1..n : f[i] \in S /\ Rank(S, o, f[i]) = i - 1  BY <1>2, RankOnto
<1>4. f \in Seq(S) /\ Len(f) = n  BY <1>1, <1>2, <1>3
<1>5. ASSUME NEW k \in S PROVE f[Rank(S, o, k) + 1] = k
  <2>1. Rank(S, o, k) \in 0..(n - 1)  BY RankOrders
  <2>2. Rank(S, o, k) + 1 \in 1..n  BY <1>1, <2>1
  <2>3. f[Rank(S, o, k) + 1] \in S /\ Rank(S, o, f[Rank(S, o, k) + 1]) = Rank(S, o, k)
    BY <1>3, <2>1, <2>2
  <2>4. \A j \in S : Rank(S, o, j) = Rank(S, o, k) => j = k
    <3> SUFFICES ASSUME NEW j \in S, Rank(S, o, j) = Rank(S, o, k) PROVE j = k
      OBVIOUS
    <3>1. ~Before(o, j, k) /\ ~Before(o, k, j)  BY <2>1, RankOrders
    <3> QED  BY <3>1 DEF Before, Orders
  <2> QED  BY <2>3, <2>4
<1> QED  BY <1>3, <1>4, <1>5

\* The first d keys, and the d keys after the first one.
FirstOf(keys, o, d)    == {k \in keys : Rank(keys, o, k) < d}
AfterFirst(keys, o, d) == {k \in keys : Rank(keys, o, k) \in 1..d}

\* The keys after a cursor, with the cursor if it is there and without it.
From(keys, o, cursor)  == {k \in keys : k = cursor \/ Before(o, cursor, k)}
After(keys, o, cursor) == {k \in keys : Before(o, cursor, k)}

Page(keys, o, offset, l) == ListBids(keys, [offset |-> offset, order |-> o, limit |-> l])

\* A list without an offset: the first keys, as many as the limit allows.
LEMMA FirstPageIs ==
  ASSUME NEW S \in SUBSET Nat, IsFiniteSet(S), NEW o \in Orders,
         NEW l \in Int, SetDefaults(l) \in Nat
  PROVE  LET list == Page(S, o, NoOffset, l)
         IN  /\ Elements(list) = FirstOf(S, o, SetDefaults(l))
             /\ list \in Seq(S)
             /\ \A i, j \in DOMAIN list : i < j => Before(o, list[i], list[j])
<1> DEFINE q     == [offset |-> NoOffset, order |-> o, limit |-> l]
           n     == Cardinality(S)
           found == InOrder(S, o)
           m     == Lesser(SetDefaults(l), n)
           list  == SubSeq(found, 1, m)
<1>1. n \in Nat /\ m \in Nat /\ m <= n
  BY FS_CardinalityType DEF Lesser
<1>2. /\ found \in Seq(S) /\ Len(found) = n
      /\ \A i \in 1..n : Rank(S, o, found[i]) = i - 1
      /\ \A k \in S : found[Rank(S, o, k) + 1] = k
  BY <1>1, InOrderIs
<1>3. ListBids(S, q) = list
  <2>1. FromOffset(S, q) = S  BY DEF FromOffset
  <2>2. q.offset = NoOffset /\ q.limit = l /\ q.order = o  OBVIOUS
  <2>3. SetDefaults(l) + 0 = SetDefaults(l)  OBVIOUS
  <2> QED  BY <1>2, <2>1, <2>2, <2>3 DEF ListBids
<1>4. \A i \in 1..n : found[i] \in S  BY <1>2
<1>5. DOMAIN list = 1..m /\ list \in Seq(S) /\ \A i \in 1..m : list[i] = found[i]
  <2> HIDE DEF found, m, n
  <2>1. \A i \in 1..m : found[i] \in S  BY <1>1, <1>4
  <2>2. /\ SubSeq(found, 1, m) \in Seq(S)
        /\ Len(SubSeq(found, 1, m)) = IF 1 <= m THEN m - 1 + 1 ELSE 0
        /\ \A i \in 1..(m - 1 + 1) : SubSeq(found, 1, m)[i] = found[1 + i - 1]
    BY <1>1, <2>1, SubSeqProperties
  <2> QED  BY <1>1, <2>2
<1> HIDE DEF list, found
<1>7. \A k \in S : Rank(S, o, k) \in 0..(n - 1)  BY <1>1, RankOrders
<1>8. ASSUME NEW k \in S, Rank(S, o, k) < SetDefaults(l) PROVE k \in Elements(list)
  <2>1. Rank(S, o, k) + 1 \in 1..m /\ found[Rank(S, o, k) + 1] = k
    BY <1>1, <1>2, <1>7, <1>8 DEF Lesser
  <2> QED  BY <1>5, <2>1 DEF Elements
<1>9. ASSUME NEW i \in 1..m PROVE list[i] \in S /\ Rank(S, o, list[i]) < SetDefaults(l)
  <2>1. i \in 1..n /\ i <= SetDefaults(l)  BY <1>1 DEF Lesser
  <2>2. list[i] = found[i] /\ found[i] \in S /\ Rank(S, o, found[i]) = i - 1
    BY <1>2, <1>4, <1>5, <2>1
  <2> QED  BY <2>1, <2>2
<1>10. ASSUME NEW i \in 1..m, NEW j \in 1..m, i < j PROVE Before(o, list[i], list[j])
  <2>1. i \in 1..n /\ j \in 1..n  BY <1>1
  <2>2. Rank(S, o, found[i]) < Rank(S, o, found[j])  BY <1>2, <1>10, <2>1
  <2>3. Before(o, found[i], found[j])  BY <1>4, <2>1, <2>2, RankOrders
  <2> QED  BY <1>5, <2>3
<1>11. Elements(list) = FirstOf(S, o, SetDefaults(l))
  BY <1>5, <1>8, <1>9 DEF Elements, FirstOf
<1> QED  BY <1>3, <1>5, <1>10, <1>11 DEF Page

\* The newest bids, which GC and GET /deals ask for.
LEMMA FirstPage ==
  ASSUME NEW S \in SUBSET Nat, IsFiniteSet(S), NEW l \in Int, SetDefaults(l) \in Nat
  PROVE  LET list == ListBids(S, Query(l))
         IN  /\ Elements(list) = {k \in S : Cardinality({c \in S : c > k}) < SetDefaults(l)}
             /\ list \in Seq(S)
             /\ \A i, j \in DOMAIN list : i < j => list[i] > list[j]
<1>1. "descending" \in Orders  BY DEF Orders
<1>2. PICK list \in Seq(S) :
        /\ list = ListBids(S, Query(l))
        /\ Elements(list) = FirstOf(S, "descending", SetDefaults(l))
        /\ \A i, j \in DOMAIN list : i < j => Before("descending", list[i], list[j])
  BY <1>1, FirstPageIs DEF Page, Query
<1>3. \A k \in S : Rank(S, "descending", k) = Cardinality({c \in S : c > k})
  BY DEF Rank, Before
<1>4. \A i, j \in DOMAIN list : i < j => list[i] > list[j]  BY <1>2 DEF Before
<1> QED  BY <1>2, <1>3, <1>4 DEF FirstOf

LEMMA Images ==
  ASSUME NEW p, NEW I, NEW P, \A i \in I : p[i] \in P, \A k \in P : \E i \in I : p[i] = k
  PROVE  {p[i] : i \in I} = P
  OBVIOUS

\* A page after a cursor: of the bids from the offset on, the first is dropped
\* and as many are listed as the limit allows.
LEMMA PageIs ==
  ASSUME NEW S \in SUBSET (Nat \ {0}), IsFiniteSet(S), NEW o \in Orders,
         NEW cursor \in Nat \ {0}, NEW l \in Int
  PROVE  LET page == Page(S, o, cursor, l)
             F    == From(S, o, cursor)
         IN  /\ Elements(page) = AfterFirst(F, o, SetDefaults(l))
             /\ page \in Seq(F)
             /\ \A i, j \in DOMAIN page : i < j => Before(o, page[i], page[j])
<1> DEFINE q == [offset |-> cursor, order |-> o, limit |-> l]
<1>1. PICK F \in SUBSET S : F = From(S, o, cursor) /\ F = FromOffset(S, q)
  BY DEF From, FromOffset, NoOffset
<1>2. PICK page : page = Page(S, o, cursor, l) /\ page = ListBids(S, q)  BY DEF Page
<1>3. F \in SUBSET Nat /\ IsFiniteSet(F)
  <2>1. IsFiniteSet(F)  BY FS_Subset
  <2> QED  BY <2>1
<1>4. PICK n \in Nat : n = Cardinality(F)  BY <1>3, FS_CardinalityType
<1>5. PICK f \in Seq(F) : /\ f = InOrder(F, o) /\ Len(f) = n
                          /\ \A i \in 1..n : f[i] \in F /\ Rank(F, o, f[i]) = i - 1
                          /\ \A k \in F : f[Rank(F, o, k) + 1] = k
  <2>1. /\ InOrder(F, o) \in Seq(F) /\ Len(InOrder(F, o)) = n
        /\ \A i \in 1..n : Rank(F, o, InOrder(F, o)[i]) = i - 1
        /\ \A k \in F : InOrder(F, o)[Rank(F, o, k) + 1] = k
    <3>1. PICK g : g = InOrder(F, o)  OBVIOUS
    <3>2. g \in Seq(F) /\ Len(g) = n
      BY <1>3, <1>4, <3>1, InOrderIs
    <3>3. \A i \in 1..n : Rank(F, o, g[i]) = i - 1
      BY <1>3, <1>4, <3>1, InOrderIs
    <3>4. \A k \in F : g[Rank(F, o, k) + 1] = k
      BY <1>3, <1>4, <3>1, InOrderIs
    <3> QED  BY <3>1, <3>2, <3>3, <3>4, Zenon
  <2>2. \A i \in 1..n : InOrder(F, o)[i] \in F  BY <2>1, ElementOfSeq
  <2> QED  BY <2>1, <2>2
<1>6. /\ \A k \in F : Rank(F, o, k) \in 0..(n - 1)
      /\ \A j, k \in F : Before(o, j, k) <=> Rank(F, o, j) < Rank(F, o, k)
  BY <1>3, <1>4, RankOrders
<1>7. PICK d \in Nat \ {0} : d = SetDefaults(l)
  BY LimitsAssumption DEF SetDefaults, Lesser
<1>8. PICK m \in 0..n : m = Lesser(d + 1, n) /\ m <= d + 1 /\ (m = n \/ m = d + 1)
  BY DEF Lesser
<1>9. PICK list \in Seq(F) : /\ list = SubSeq(f, 1, m) /\ Len(list) = m
                             /\ \A i \in 1..m : list[i] = f[i]
  <2>1. \A i \in 1..m : f[i] \in F  BY <1>5, <1>8
  <2>2. /\ SubSeq(f, 1, m) \in Seq(F)
        /\ Len(SubSeq(f, 1, m)) = IF 1 <= m THEN m - 1 + 1 ELSE 0
        /\ \A i \in 1..(m - 1 + 1) : SubSeq(f, 1, m)[i] = f[1 + i - 1]
    BY <2>1, SubSeqProperties
  <2>3. (IF 1 <= m THEN m - 1 + 1 ELSE 0) = m  OBVIOUS
  <2>4. Len(SubSeq(f, 1, m)) = m  BY <2>2, <2>3
  <2>5. ASSUME NEW i \in 1..m PROVE SubSeq(f, 1, m)[i] = f[i]
    <3>1. i \in 1..(m - 1 + 1) /\ 1 + i - 1 = i  OBVIOUS
    <3>2. SubSeq(f, 1, m)[i] = f[1 + i - 1]  BY <2>2, <3>1, Zenon
    <3> QED  BY <3>1, <3>2, Zenon
  <2> QED  BY <2>2, <2>4, <2>5, Zenon
<1>10. ListBids(S, q) = IF list # <<>> THEN Tail(list) ELSE list
  <2>1. q.offset = cursor /\ q.order = o /\ q.limit = l /\ cursor # NoOffset  BY DEF NoOffset
  <2>2. SubSeq(InOrder(FromOffset(S, q), q.order), 1,
               Lesser(SetDefaults(q.limit) + 1, Len(InOrder(FromOffset(S, q), q.order)))) = list
    BY <1>1, <1>5, <1>7, <1>8, <1>9, <2>1
  <2> HIDE DEF q
  <2> QED  BY <2>1, <2>2 DEF ListBids
<1> DEFINE Reached == {k \in F : Rank(F, o, k) \in 1..d}
<1>11. ASSUME list = <<>>
       PROVE  /\ Elements(page) = Reached /\ page \in Seq(F)
              /\ \A i, j \in DOMAIN page : i < j => Before(o, page[i], page[j])
  <2>1. m = 0
    <3>1. Len(<<>>) = 0  BY EmptySeq
    <3>2. Len(<<>>) = m  BY <1>9, <1>11, Zenon
    <3> QED  BY <3>1, <3>2
  <2>2. n = 0 /\ F = {}  BY <1>4, <1>3, <1>8, <2>1, FS_EmptySet
  <2> HIDE DEF q
  <2>3. page = <<>>  BY <1>10, <1>11, <1>2
  <2>4. DOMAIN page = {} /\ page \in Seq(F)  BY <2>3, EmptySeq
  <2>5. Elements(page) = {}  BY <2>4 DEF Elements
  <2>6. Reached = {}  BY <2>2
  <2> QED  BY <2>4, <2>5, <2>6
<1>12. ASSUME list # <<>>
       PROVE  /\ Elements(page) = Reached /\ page \in Seq(F)
              /\ \A i, j \in DOMAIN page : i < j => Before(o, page[i], page[j])
  <2>1. page = Tail(list) /\ page \in Seq(F)
    <3>1. Tail(list) \in Seq(F)  BY <1>9, <1>12, HeadTailProperties
    <3> HIDE DEF q
    <3> QED  BY <1>10, <1>12, <1>2, <3>1
  <2>2. m >= 1
    <3>1. m # 0  BY <1>9, <1>12, EmptySeq
    <3> QED  BY <3>1
  <2>3. DOMAIN page = 1..(m - 1) /\ \A i \in 1..(m - 1) : page[i] = f[i + 1]
    <3>1. /\ Len(Tail(list)) = Len(list) - 1
          /\ \A i \in 1..Len(Tail(list)) : Tail(list)[i] = list[i + 1]
      BY <1>12, HeadTailProperties
    <3>2. Len(page) = m - 1 /\ \A i \in 1..Len(page) : page[i] = list[i + 1]
      BY <1>9, <2>1, <3>1, Zenon
    <3>3. DOMAIN page = 1..(m - 1)  BY <3>2, LenProperties
    <3>4. ASSUME NEW i \in 1..(m - 1) PROVE page[i] = f[i + 1]
      <4>1. i + 1 \in 1..m /\ page[i] = list[i + 1]  BY <1>8, <3>2
      <4> QED  BY <1>9, <4>1
    <3> QED  BY <3>3, <3>4
  <2>4. \A i \in 1..(m - 1) : page[i] \in F /\ Rank(F, o, page[i]) = i
    <3> SUFFICES ASSUME NEW i \in 1..(m - 1) PROVE page[i] \in F /\ Rank(F, o, page[i]) = i
      OBVIOUS
    <3>1. PICK p \in 1..n : p = i + 1  BY <1>8
    <3>2. page[i] = f[p]  BY <2>3, <3>1
    <3>3. f[p] \in F /\ Rank(F, o, f[p]) = p - 1  BY <1>5, Zenon
    <3>4. p - 1 = i  BY <3>1
    <3> QED  BY <3>2, <3>3, <3>4, Zenon
  <2>5. Elements(page) = Reached
    <3>1. \A i \in 1..(m - 1) : page[i] \in F /\ Rank(F, o, page[i]) \in 1..d
      <4>1. \A i \in 1..(m - 1) : i \in 1..d  BY <1>8
      <4> QED  BY <2>4, <4>1, Zenon
    <3>2. ASSUME NEW k \in F, Rank(F, o, k) \in 1..d PROVE \E i \in 1..(m - 1) : page[i] = k
      <4>1. PICK r \in 0..(n - 1) : r = Rank(F, o, k)  BY <1>6
      <4>2. r \in 1..(m - 1)  BY <1>8, <3>2, <4>1
      <4>3. page[r] = k  BY <1>5, <2>3, <4>1, <4>2
      <4> QED  BY <4>2, <4>3
    <3>3. Elements(page) = {page[i] : i \in 1..(m - 1)}  BY <2>3 DEF Elements
    <3>4. PICK P : P = Reached  OBVIOUS
    <3>5. PICK I : I = 1..(m - 1)  OBVIOUS
    <3>6. \A i \in I : page[i] \in P  BY <3>1, <3>4, <3>5
    <3>7. \A k \in P : \E i \in I : page[i] = k  BY <3>2, <3>4, <3>5
    <3>8. {page[i] : i \in I} = P  BY <3>6, <3>7, Images
    <3> HIDE DEF Reached
    <3> QED  BY <3>3, <3>4, <3>5, <3>8
  <2>6. ASSUME NEW i \in DOMAIN page, NEW j \in DOMAIN page, i < j
        PROVE  Before(o, page[i], page[j])
    <3>1. i \in 1..(m - 1) /\ j \in 1..(m - 1)  BY <2>3
    <3>2. Rank(F, o, page[i]) < Rank(F, o, page[j]) /\ page[i] \in F /\ page[j] \in F
      BY <2>4, <2>6, <3>1
    <3> QED  BY <1>6, <3>2
  <2> HIDE DEF Reached
  <2> QED  BY <2>1, <2>5, <2>6
<1>13. Elements(page) = Reached /\ page \in Seq(F)  BY <1>11, <1>12
<1>14. \A i, j \in DOMAIN page : i < j => Before(o, page[i], page[j])  BY <1>11, <1>12
<1>15. Reached = AfterFirst(F, o, SetDefaults(l))  BY <1>7 DEF AfterFirst
<1> HIDE DEF Reached
<1> QED  BY <1>1, <1>2, <1>13, <1>14, <1>15

\* The page after a cursor that is still there is exactly the next bids in the
\* order asked for, as many as the limit allows, for every limit and order: the
\* offset itself, which ListBids asks for and drops, costs no bid.
THEOREM PageAfterCursor ==
  ASSUME NEW S \in SUBSET (Nat \ {0}), IsFiniteSet(S), NEW o \in Orders,
         NEW cursor \in S, NEW l \in Int
  PROVE  LET page  == Page(S, o, cursor, l)
             after == After(S, o, cursor)
         IN  /\ Elements(page) = FirstOf(after, o, SetDefaults(l))
             /\ page \in Seq(S)
             /\ \A i, j \in DOMAIN page : i < j => Before(o, page[i], page[j])
<1>1. PICK A \in SUBSET S : A = After(S, o, cursor)  BY DEF After
<1>2. PICK F \in SUBSET S : F = From(S, o, cursor)  BY DEF From
<1>3. F = A \cup {cursor} /\ cursor \notin A /\ \A j \in A : Before(o, cursor, j)
  BY <1>1, <1>2 DEF From, After, Before, Orders
<1>4. IsFiniteSet(F) /\ IsFiniteSet(A)  BY FS_Subset
<1>5. Rank(F, o, cursor) = 0
  <2>1. \A j \in F : ~Before(o, j, cursor)  BY <1>3 DEF Before, Orders
  <2>2. {j \in F : Before(o, j, cursor)} = {}  BY <2>1
  <2> QED  BY <2>2, FS_EmptySet DEF Rank
<1>6. ASSUME NEW k \in A
      PROVE  Rank(F, o, k) = Rank(A, o, k) + 1 /\ Rank(A, o, k) \in Nat
  <2>1. PICK B \in SUBSET A : B = {j \in A : Before(o, j, k)}  OBVIOUS
  <2>2. {j \in F : Before(o, j, k)} = B \cup {cursor}  BY <1>3, <2>1
  <2>3. IsFiniteSet(B) /\ cursor \notin B  BY <1>3, <1>4, FS_Subset
  <2>4. Cardinality(B \cup {cursor}) = Cardinality(B) + 1 /\ Cardinality(B) \in Nat
    BY <2>3, FS_AddElement, FS_CardinalityType
  <2> QED  BY <2>1, <2>2, <2>4 DEF Rank
<1>7. PICK d \in Nat \ {0} : d = SetDefaults(l)
  BY LimitsAssumption DEF SetDefaults, Lesser
<1>8. AfterFirst(F, o, d) = FirstOf(A, o, d)
  <2>1. ASSUME NEW k \in F PROVE Rank(F, o, k) \in 1..d <=> k \in A /\ Rank(A, o, k) < d
    <3>1. CASE k = cursor  BY <1>3, <1>5, <3>1
    <3>2. CASE k \in A
      <4>1. PICK r \in Nat : r = Rank(A, o, k) /\ Rank(F, o, k) = r + 1  BY <1>6, <3>2
      <4> QED  BY <3>2, <4>1
    <3> QED  BY <1>3, <3>1, <3>2
  <2> QED  BY <1>3, <2>1 DEF AfterFirst, FirstOf
<1> DEFINE page == Page(S, o, cursor, l)
<1>9. /\ Elements(page) = AfterFirst(F, o, SetDefaults(l))
      /\ page \in Seq(F)
      /\ \A i, j \in DOMAIN page : i < j => Before(o, page[i], page[j])
  <2>1. cursor \in Nat \ {0}  OBVIOUS
  <2> QED  BY <1>2, <2>1, PageIs, Zenon
<1> HIDE DEF page
<1>10. Elements(page) = FirstOf(A, o, SetDefaults(l))  BY <1>7, <1>8, <1>9
<1>11. page \in Seq(S)
  <2>1. \A i \in 1..Len(page) : page[i] \in F  BY <1>9, ElementOfSeq
  <2>2. \A i \in 1..Len(page) : page[i] \in S  BY <1>2, <2>1
  <2> QED  BY <1>9, <2>2
<1> QED  BY <1>1, <1>9, <1>10, <1>11 DEF page

\* When the cursor has been deleted in the meantime, the page passes over one
\* bid, the next one, and over no other: ListBids drops the first bid it finds
\* whether it is the cursor or not.
THEOREM PageAfterDeleted ==
  ASSUME NEW S \in SUBSET (Nat \ {0}), IsFiniteSet(S), NEW o \in Orders,
         NEW cursor \in Nat \ {0}, cursor \notin S, NEW l \in Int
  PROVE  LET page  == Page(S, o, cursor, l)
             after == After(S, o, cursor)
         IN  Elements(page) = AfterFirst(after, o, SetDefaults(l))
<1>1. PICK F : F = From(S, o, cursor)  OBVIOUS
<1>2. After(S, o, cursor) = F  BY <1>1 DEF After, From
<1> DEFINE page == Page(S, o, cursor, l)
<1>3. /\ Elements(page) = AfterFirst(F, o, SetDefaults(l))
      /\ page \in Seq(F)
      /\ \A i, j \in DOMAIN page : i < j => Before(o, page[i], page[j])
  BY <1>1, PageIs, Zenon
<1> HIDE DEF page
<1>4. Elements(page) = AfterFirst(After(S, o, cursor), o, SetDefaults(l))
  BY <1>2, <1>3, Zenon
<1> QED  BY <1>4 DEF page

\* The page of one bid after a cursor that is still there holds its successor.
LEMMA NextPage ==
  ASSUME NEW S \in SUBSET (Nat \ {0}), IsFiniteSet(S), NEW o \in Orders,
         NEW cursor \in S, NEW b \in S, Before(o, cursor, b)
  PROVE  LET second == ListBids(S, [offset |-> cursor, order |-> o, limit |-> 1])
         IN  \E i \in DOMAIN second : Before(o, cursor, second[i]) /\ ~Before(o, b, second[i])
<1>1. PICK A \in SUBSET S : A = After(S, o, cursor) /\ b \in A  BY DEF After
<1>2. IsFiniteSet(A) /\ A \in SUBSET Nat  BY FS_Subset
<1>3. 1 \in 1..Cardinality(A)
  <2>1. A # {}  BY <1>1
  <2>2. Cardinality(A) \in Nat /\ Cardinality(A) # 0
    BY <1>2, <2>1, FS_EmptySet, FS_CardinalityType
  <2> QED  BY <2>2
<1>4. PICK k \in A : Rank(A, o, k) = 1 - 1  BY <1>2, <1>3, RankOnto
<1>5. ~Before(o, b, k)
  <2>1. Rank(A, o, b) \in 0..(Cardinality(A) - 1)  BY <1>1, <1>2, RankOrders
  <2>2. ~(Rank(A, o, b) < Rank(A, o, k))  BY <1>4, <2>1
  <2> QED  BY <1>1, <1>2, <2>2, RankOrders
<1> DEFINE second == ListBids(S, [offset |-> cursor, order |-> o, limit |-> 1])
<1>6. k \in Elements(second)
  <2>1. SetDefaults(1) = 1  BY LimitsAssumption DEF SetDefaults, Lesser
  <2>2. Elements(second) = FirstOf(A, o, SetDefaults(1))
    BY <1>1, PageAfterCursor DEF Page
  <2> HIDE DEF second
  <2> QED  BY <1>4, <2>1, <2>2 DEF FirstOf
<1> HIDE DEF second
<1>7. PICK i \in DOMAIN second : second[i] = k  BY <1>6 DEF Elements
<1>8. Before(o, cursor, k)  BY <1>1 DEF After
<1> QED  BY <1>5, <1>7, <1>8 DEF second

\* A bid that a page does not reach comes after every bid of the page, and the
\* page is not empty.
LEMMA PageBehind ==
  ASSUME NEW A \in SUBSET Nat, IsFiniteSet(A), NEW o \in Orders, NEW d \in Nat \ {0},
         NEW S, NEW page \in Seq(S), Elements(page) = FirstOf(A, o, d),
         NEW b \in A, b \notin Elements(page)
  PROVE  page # <<>> /\ Before(o, page[Len(page)], b)
<1>1. PICK c \in Nat : c = Cardinality(A)  BY FS_CardinalityType
<1>2. \A k \in A : Rank(A, o, k) \in 0..(c - 1)  BY <1>1, RankOrders
<1>3. 1 \in 1..c  BY <1>2
<1>4. PICK k \in A : Rank(A, o, k) = 1 - 1  BY <1>1, <1>3, RankOnto
<1>5. k \in Elements(page)  BY <1>4 DEF FirstOf
<1>6. Len(page) \in DOMAIN page
  <2>1. PICK i \in DOMAIN page : page[i] = k  BY <1>5 DEF Elements
  <2>2. DOMAIN page = 1..Len(page) /\ Len(page) \in Nat  BY LenProperties
  <2> QED  BY <2>1, <2>2
<1>7. PICK z \in A : z = page[Len(page)] /\ Rank(A, o, z) < d
  BY <1>6 DEF Elements, FirstOf
<1>8. Rank(A, o, z) < Rank(A, o, b)
  <2>1. ~(Rank(A, o, b) < d)  BY DEF FirstOf
  <2>2. Rank(A, o, b) \in 0..(c - 1) /\ Rank(A, o, z) \in 0..(c - 1)  BY <1>2
  <2> QED  BY <1>7, <2>1, <2>2
<1>9. Before(o, z, b)  BY <1>8, RankOrders
<1> QED  BY <1>6, <1>7, <1>9

\* The same for the page after a cursor that is still there.
LEMMA NextBehind ==
  ASSUME NEW S \in SUBSET (Nat \ {0}), IsFiniteSet(S), NEW o \in Orders, NEW l \in Int,
         NEW cursor \in S, NEW b \in S, Before(o, cursor, b),
         NEW page, page = Page(S, o, cursor, l), b \notin Elements(page)
  PROVE  page # <<>> /\ Before(o, page[Len(page)], b)
<1>1. PICK A \in SUBSET S : A = After(S, o, cursor) /\ b \in A
  <2>1. After(S, o, cursor) \in SUBSET S  BY DEF After
  <2>2. b \in After(S, o, cursor)  BY DEF After
  <2> QED  BY <2>1, <2>2
<1>2. IsFiniteSet(A) /\ A \in SUBSET Nat  BY FS_Subset
<1>3. PICK d \in Nat \ {0} : d = SetDefaults(l)
  BY LimitsAssumption DEF SetDefaults, Lesser
<1>4. Elements(page) = FirstOf(After(S, o, cursor), o, SetDefaults(l)) /\ page \in Seq(S)
  BY PageAfterCursor, Zenon
<1>5. Elements(page) = FirstOf(A, o, d)  BY <1>1, <1>3, <1>4, Zenon
<1> QED  BY <1>1, <1>2, <1>4, <1>5, PageBehind

\* Whoever follows the pages to the end sees every bid that is there all the
\* time, for every limit and order and whatever other bids come and go between
\* two pages, as long as the last bid of each page is there when the next one is
\* asked for.
THEOREM PagesCover ==
  ASSUME NEW n \in Nat \ {0}, NEW o \in Orders, NEW l \in Int,
         NEW stored, \A i \in 1..n : stored[i] \in SUBSET (Nat \ {0}) /\ IsFiniteSet(stored[i]),
         NEW page,
         page[1] = Page(stored[1], o, NoOffset, l),
         \A i \in 2..n :
           LET cursor == page[i - 1][Len(page[i - 1])]
           IN  cursor \in stored[i] /\ page[i] = Page(stored[i], o, cursor, l),
         page[n] = <<>>,
         NEW b, \A i \in 1..n : b \in stored[i]
  PROVE  \E i \in 1..n : b \in Elements(page[i])
<1> SUFFICES ASSUME \A i \in 1..n : b \notin Elements(page[i]) PROVE FALSE
  OBVIOUS
<1> DEFINE Behind(i) == page[i] # <<>> /\ Before(o, page[i][Len(page[i])], b)
           B == {i \in 1..n : ~Behind(i)}
<1>1. PICK d \in Nat \ {0} : d = SetDefaults(l)
  BY LimitsAssumption DEF SetDefaults, Lesser
<1>2. Behind(1)
  <2>1. PICK S \in SUBSET (Nat \ {0}) : S = stored[1] /\ IsFiniteSet(S) /\ b \in S
    OBVIOUS
  <2>2. PICK p \in Seq(S) : p = page[1] /\ Elements(p) = FirstOf(S, o, d)
    BY <1>1, <2>1, FirstPageIs
  <2>3. b \notin Elements(p)  BY <2>2
  <2>4. PICK A \in SUBSET Nat : A = S /\ IsFiniteSet(A) /\ b \in A  BY <2>1
  <2>5. p # <<>> /\ Before(o, p[Len(p)], b)  BY <2>2, <2>3, <2>4, PageBehind
  <2> QED  BY <2>2, <2>5
<1>3. ASSUME NEW i \in 2..n, Behind(i - 1) PROVE Behind(i)
  <2>1. PICK S \in SUBSET (Nat \ {0}) : S = stored[i] /\ IsFiniteSet(S) /\ b \in S
    <3>1. i \in 1..n  OBVIOUS
    <3> QED  BY <3>1
  <2>2. PICK cursor \in S :
          /\ cursor = page[i - 1][Len(page[i - 1])]
          /\ page[i] = Page(S, o, cursor, l)
    BY <2>1
  <2>3. Before(o, cursor, b)  BY <1>3, <2>2
  <2>4. PICK p : p = page[i]  OBVIOUS
  <2>5. p = Page(S, o, cursor, l) /\ b \notin Elements(p)  BY <2>2, <2>4
  <2>6. p # <<>> /\ Before(o, p[Len(p)], b)
    BY <2>1, <2>2, <2>3, <2>5, NextBehind
  <2> QED  BY <2>4, <2>6
<1> HIDE DEF Behind
<1>4. B = {}
  <2>1. SUFFICES ASSUME B # {} PROVE FALSE
    OBVIOUS
  <2>2. PICK i \in B : \A j \in B : i <= j
    <3>1. B \in SUBSET (1..n)  OBVIOUS
    <3> HIDE DEF B
    <3> QED  BY <2>1, <3>1, Lists!FirstPosition
  <2>3. i \in 2..n
    <3>1. i # 1  BY <1>2
    <3> QED  BY <3>1
  <2>4. i - 1 \in 1..n /\ i - 1 \notin B
    <3>1. i - 1 \in 1..n /\ ~(i <= i - 1)  BY <2>3
    <3> QED  BY <2>2, <3>1
  <2> QED  BY <1>3, <2>3, <2>4
<1>5. Behind(n)  BY <1>4
<1> QED  BY <1>5 DEF Behind

\* Listing page by page passes over no bid, whatever happens to the others
\* between two pages.
THEOREM PagesDoConnect == Spec => PagesConnect
<1>1. ASSUME NEW o \in Orders,
             NEW cursor, cursor \in Present', NEW b, b \in Present', Before(o, cursor, b)
      PROVE  LET second == ListBids(Present', [offset |-> cursor, order |-> o, limit |-> 1])
             IN  \E i \in DOMAIN second : Before(o, cursor, second[i]) /\ ~Before(o, b, second[i])
  <2>1. PICK S \in SUBSET Bids : S = Present'  BY DEF Present
  <2>2. S \in SUBSET (Nat \ {0}) /\ IsFiniteSet(S) /\ cursor \in S /\ b \in S
    BY <1>1, <2>1, BidsAssumption, FS_Subset
  <2> QED  BY <1>1, <2>1, <2>2, NextPage
<1>2. [Next]_vars =>
        [db' # db /\ Present' # Present => \A o \in Orders :
           LET first  == ListBids(Present, [Query(1) EXCEPT !.order = o])
               cursor == first[1]
               second == ListBids(Present', [offset |-> cursor, order |-> o, limit |-> 1])
           IN  first # <<>> /\ cursor \in Present' =>
                 \A b \in Present \cap Present' :
                   Before(o, cursor, b) =>
                     \E i \in DOMAIN second :
                       Before(o, cursor, second[i]) /\ ~Before(o, b, second[i])]_vars
  BY <1>1
<1> QED  BY <1>2, PTL DEF Spec, PagesConnect

-----------------------------------------------------------------------------
(* What a download makes of an answer.                                       *)

\* What Write accepts is a whole file, and written as it was sent.
LEMMA AcceptedSent == AcceptedIsSent
<1> SUFFICES ASSUME NEW a \in Accepted PROVE Genuine(a) /\ (a.padding = 0 => SameBytes(a))
  BY DEF AcceptedIsSent
<1>1. a \in Answers /\ WriteError(a) = "none"  BY DEF Accepted
<1>2. ValidateError(a) = "none" /\ a.end = "complete"  BY <1>1 DEF WriteError
<1>3. HeaderError(a) = "none"  BY <1>2 DEF ValidateError
<1>4. ~Panics(a) /\ a.decodes /\ a.roots = <<Cid>> /\ ~UnreadableHeader(a)
  BY <1>3 DEF HeaderError
<1>5. VarintSize(a.length) = 1  BY <1>4 DEF Panics, VarintSize
<1> QED  BY <1>2, <1>4, <1>5 DEF Genuine, SameBytes, PrefixWritten

\* What the API reports as written is what the source sent.
THEOREM ReportsAreTrue == Spec => []ReportedIsSent
<1>1. ReportedIsSent  BY AcceptedSent DEF ReportedIsSent
<1> QED  BY <1>1, PTL

\* A complete CAR file that has not the payload cid as its only root is reported
\* as invalid, with status 400, whenever it has at most two roots; the header
\* of one with more is too long for the length prefix that ldRead writes back,
\* and the download panics.
THEOREM InvalidCarsReported ==
  ASSUME NEW a \in Answers,
         a.cid = "valid", a.scheme = "http", a.status = "ok",
         a.end = "complete", a.decodes, a.roots # <<Cid>>
  PROVE  IF Len(a.roots) <= 2
         THEN WriteError(a) = "invalid car file" /\ ReplyCode(WriteError(a)) = 400
         ELSE WriteError(a) = "panic" /\ ReplyCode(WriteError(a)) = 0
<1>1. ~UnreadableHeader(a) /\ NewURIError(a) = "none" /\ RequestError(a) = "none"
  BY DEF UnreadableHeader, NewURIError, RequestError
<1>2. Len(a.roots) \in Nat /\ a.length = 17 + 41 * Len(a.roots)
  <2>1. a.roots \in {<<>>, <<Cid>>, <<Other>>, <<Cid, Other>>, <<Cid, Other, Other>>}
    BY DEF Answers
  <2>2. a.length = HeaderLength(Len(a.roots))  BY DEF Answers
  <2>3. Len(a.roots) \in Nat
    <3>1. /\ Len(<<>>) = 0 /\ Len(<<Cid>>) = 1 /\ Len(<<Other>>) = 1
          /\ Len(<<Cid, Other>>) = 2 /\ Len(<<Cid, Other, Other>>) = 3
      OBVIOUS
    <3> QED  BY <2>1, <3>1
  <2> QED  BY <2>2, <2>3 DEF HeaderLength
<1>3. Panics(a) <=> Len(a.roots) > 2
  <2>1. PICK n \in Nat : n = Len(a.roots) /\ a.length = 17 + 41 * n  BY <1>2
  <2>2. VarintSize(a.length) > 1 <=> n > 2  BY <2>1 DEF VarintSize
  <2> QED  BY <1>1, <2>1, <2>2 DEF Panics
<1>4. CASE Len(a.roots) <= 2
  <2>1. ~Panics(a)  BY <1>2, <1>3, <1>4
  <2>2. HeaderError(a) = "invalid car file"  BY <1>1, <2>1 DEF HeaderError
  <2>3. WriteError(a) = "invalid car file"  BY <1>1, <2>2 DEF WriteError, ValidateError
  <2>4. ReplyCode("invalid car file") = 400  BY DEF ReplyCode, BadRequest
  <2> QED  BY <1>4, <2>3, <2>4, Zenon
<1>5. CASE Len(a.roots) > 2
  <2>1. HeaderError(a) = "panic"  BY <1>1, <1>3, <1>5 DEF HeaderError
  <2>2. WriteError(a) = "panic"  BY <1>1, <2>1 DEF WriteError, ValidateError
  <2>3. ReplyCode("panic") = 0  BY DEF ReplyCode, BadRequest
  <2>4. ~(Len(a.roots) <= 2)  BY <1>2, <1>5
  <2> QED  BY <2>2, <2>3, <2>4, Zenon
<1>6. Len(a.roots) <= 2 \/ Len(a.roots) > 2
  <2>1. \A n \in Nat : n <= 2 \/ n > 2  OBVIOUS
  <2> QED  BY <1>2, <2>1, Zenon
<1> QED  BY <1>4, <1>5, <1>6, Zenon

LEMMA DownloadOutcomes ==
  ASSUME NEW d \in Downloads
  PROVE  /\ d.content \in Contents \ {"none"}
         /\ d.error = "none" => \/ d.content = "whole"
                                \/ ChunkedDownload /\ d.content = "unchecked"
<1>1. ASSUME NEW a \in Answers,
             d = [error   |-> IF NewURIError(a) # "none" THEN NewURIError(a) ELSE WriteError(a),
                  content |-> IF Genuine(a) THEN "whole" ELSE "part"]
      PROVE  /\ d.content \in Contents \ {"none"}
             /\ d.error = "none" => d.content = "whole"
  <2>1. d.error = "none" => a \in Accepted  BY <1>1 DEF Accepted
  <2> QED  BY <1>1, <2>1, AcceptedSent DEF AcceptedIsSent, Contents
<1> QED  BY <1>1 DEF Downloads, Contents

-----------------------------------------------------------------------------
(* The store below the files.                                                *)

LEMMA StoreMoves == ASSUME Next PROVE Safety!Next \/ UNCHANGED Safety!vars
<1> USE DEF Safety!Next, Safety!Messages, Safety!Transactions, Safety!Fetch, Safety!Boot, Safety!vars
<1>1. ASSUME NEW w \in Workers, Work(w) PROVE Safety!Next \/ UNCHANGED Safety!vars
  BY <1>1, SameWork, SameImportBegin, SameSaveOutcome
  DEF Work, CreateFile, DownloadDone, DownloadFails, NoDownload, storeVars
<1>2. CASE GCBegin
  BY <1>2, SameCollect DEF GCBegin, storeVars, Store!Collect
<1>3. ASSUME NEW b \in Bids, GCDelete(b) PROVE Safety!Next
  BY <1>3, SameCollect DEF GCDelete, Store!Collect
<1>4. CASE Stop  BY <1>4, SameLife DEF Stop
<1>5. CASE \/ \E r \in Requests : RequestDataURI(r) \/ ReplyDataURI(r)
           \/ GCReadDirectory \/ GCWalk \/ \E p \in Paths : Age(p)
  BY <1>5 DEF RequestDataURI, ReplyDataURI, GCReadDirectory, GCWalk, Age, storeVars
<1>6. ASSUME \/ Store!Messages \/ Store!Transactions \/ Store!Dispatch \/ Store!Start
             \/ \E b \in Bids : Store!OrphanEnqueue(b)
             \/ Store!BootCommit \/ Store!Close
      PROVE  Safety!Next
  BY <1>6, SameMessages, SameCommits, SameLife DEF Store!Messages, Store!Transactions
<1> QED  BY <1>1, <1>2, <1>3, <1>4, <1>5, <1>6 DEF Next

\* Every behaviour of the files is one of the store, so that all its theorems
\* hold here: its workers do no more than its specification lets them do.
THEOREM FilesUseStore == Spec => Safety!Spec
<1>1. Init => Safety!Init  BY SameInit DEF Init
<1>2. ASSUME [Next]_vars PROVE [Safety!Next]_Safety!vars
  BY <1>2, StoreMoves DEF vars, storeVars, Safety!vars
<1> QED  BY <1>1, <1>2, PTL DEF Spec, Safety!Spec

-----------------------------------------------------------------------------
(* The invariant.                                                            *)

\* A worker that downloads writes the file of its bid, which is there unless
\* GC took it.
WriterOK(w) ==
  writing[w] # NoFile =>
    /\ worker[w].pc = "fetching"
    /\ writing[w] \in Bids
    /\ writing[w] = Target(w) \/ {writing[w], Target(w)} \subseteq raced
    /\ file[writing[w]] # "none" \/ writing[w] \in lost

\* A worker that has downloaded finds what it wrote, unless GC took it.
FetchedOK(w) ==
  worker[w].pc \in {"fetched", "importing"} /\ Target(w) \notin raced =>
    \/ file[Target(w)] = "whole" \/ Target(w) \in lost
    \/ ChunkedDownload /\ file[Target(w)] = "unchecked"

\* What a GC pass knows of a bid stays true although the bid moves on: a bid
\* it has listed is kept unless it was finalized, or is to be deleted or
\* already is; finalized bids stay so, and their files are gone once visited.
ListedOK(b) ==
  pass.pc # "idle" =>
    /\ b \in pass.listed => b \in pass.keep \cup pass.remove \cup gc
                            \/ Safety!Status(b) = "removed"
    /\ b \in pass.remove => Safety!Status(b) = "finalized"
    /\ pass.pc = "walking" /\ b \in pass.remove \ pass.todo => file[b] = "none"

PassOK ==
  /\ gc # {} => pass.pc = "deleting"
  /\ pass.remove \subseteq Bids
  /\ \A b \in Bids \ raced : ListedOK(b)

\* The inductive invariant: every step preserves it.
FilesInv ==
  /\ Safety!Inv
  /\ TypeOK
  /\ \A w \in Workers : WriterOK(w) /\ FetchedOK(w)
  /\ PassOK

\* The bid of a worker is one of Bids.
LEMMA TargetIn == ASSUME Safety!Inv, NEW w \in Workers PROVE Target(w) \in Bids
<1>1. Safety!TypeOK /\ worker[w].job \in Safety!Job  BY DEF Safety!Inv, Safety!TypeOK
<1>2. Safety!WorkerBid(w) \in Safety!BidRecord
  BY <1>1, StoreAssumptions, Safety!PointeeType DEF Safety!WorkerBid
<1>3. Store!WorkerBid(w) = Safety!WorkerBid(w)  BY SameData
<1> QED  BY <1>2, <1>3 DEF Target, DealDataFilePathFor, Safety!BidRecord

LEMMA PathsAre ==
  /\ Bids \subseteq Paths /\ NoBidID \in Paths /\ NoBidID \notin Bids
  /\ NoFile \notin Paths
  BY BidsAssumption DEF Paths, NoBidID, NoFile

\* A bid that a worker is busy with is neither finalized nor removed.
LEMMA TargetLives ==
  ASSUME Safety!Inv, NEW w \in Workers, Safety!Busy(w), Target(w) \notin raced
  PROVE  /\ Safety!HasJob(Target(w))
         /\ Safety!Status(Target(w)) \notin {"finalized", "removed"}
<1>1. PICK b \in Bids : b = Target(w)  BY TargetIn
<1>2. w \in Safety!Running(b)
  BY <1>1, SameData DEF Safety!Running, Target, DealDataFilePathFor
<1>3. Safety!HasJob(b)  BY <1>2 DEF Safety!HasJob
<1> QED  BY <1>1, <1>3, StoreAssumptions, Safety!JobStatus

\* No step revives a bid that is finalized or removed.
LEMMA EndsStay ==
  ASSUME Safety!Inv, [Next]_vars, NEW b \in Bids, b \notin raced',
         NEW s \in {"finalized", "removed"}, Safety!Status(b) = s
  PROVE  Safety!Status(b)' = s
<1>1. Safety!Next \/ UNCHANGED Safety!vars
  BY StoreMoves DEF vars, storeVars, Safety!vars
<1>2. CASE UNCHANGED Safety!vars  BY <1>2 DEF Safety!vars, Safety!Status
<1>3. CASE Safety!Next
  <2>1. Safety!Progress(b)  BY <1>3, StoreAssumptions, Safety!ProgressNext
  <2> QED  BY <2>1 DEF Safety!Progress, Safety!LifeCycle
<1> QED  BY <1>1, <1>2, <1>3

LEMMA RacedStays == ASSUME [Next]_vars PROVE raced \subseteq raced'
<1>1. Safety!Next \/ UNCHANGED Safety!vars
  BY StoreMoves DEF vars, storeVars, Safety!vars
<1> QED  BY <1>1, StoreAssumptions, Safety!RacedGrows DEF Safety!vars

-----------------------------------------------------------------------------
(* The workers and their files.                                              *)

WorkersOK == \A w \in Workers : WriterOK(w) /\ FetchedOK(w)

\* The steps of the store that leave a worker and its bid alone.
Elsewhere(w) ==
  \/ Safety!Messages \/ Safety!Transactions \/ Safety!Dispatch \/ Safety!Collect
  \/ Safety!Start \/ (\E b \in Bids : Safety!OrphanEnqueue(b)) \/ Safety!BootCommit \/ Safety!Close
  \/ \E v \in Workers \ {w} : Safety!Fetch(v)
  \/ UNCHANGED storeVars

\* A worker left alone by a step that takes away no file but those it calls
\* lost and that does not touch the file of the worker.
LEMMA WorkerKept ==
  ASSUME FilesInv, [Next]_vars, NEW w \in Workers, Elsewhere(w), writing'[w] = writing[w],
         \A b \in Bids : file[b] # "none" \/ b \in lost => file'[b] # "none" \/ b \in lost',
         Target(w) \notin raced /\ Safety!Busy(w) =>
           \/ Target(w) \in lost'
           \/ file'[Target(w)] = file[Target(w)] /\ (Target(w) \in lost => Target(w) \in lost')
  PROVE  WriterOK(w)' /\ FetchedOK(w)'
<1>1. WriterOK(w) /\ FetchedOK(w) /\ Safety!Inv /\ raced \subseteq raced'
  BY RacedStays DEF FilesInv
<1>2. worker'[w] = worker[w]
  BY <1>1, StoreAssumptions, Safety!WorkerElsewhere DEF Elsewhere, storeVars
<1>3. Safety!Busy(w) => Target(w)' = Target(w) \/ {Target(w)', Target(w)} \subseteq raced'
  <2>1. Target(w) = Safety!WorkerBid(w).id /\ Target(w)' = Safety!WorkerBid(w)'.id
    BY SameData DEF Target, DealDataFilePathFor, Store!WorkerBid, Safety!WorkerBid,
        Store!Pointee, Safety!Pointee
  <2>2. CASE UNCHANGED storeVars
    BY <2>1, <2>2 DEF storeVars, Safety!WorkerBid, Safety!Pointee
  <2>3. CASE ~UNCHANGED storeVars
    BY <1>1, <1>2, <2>1, <2>3, StoreAssumptions, Safety!TargetKept DEF Elsewhere
  <2> QED  BY <2>2, <2>3
<1>4. WriterOK(w)'
  <2> SUFFICES ASSUME writing[w] # NoFile
      PROVE  /\ worker[w].pc = "fetching"
             /\ writing[w] \in Bids
             /\ writing[w] = Target(w)' \/ {writing[w], Target(w)'} \subseteq raced'
             /\ file'[writing[w]] # "none" \/ writing[w] \in lost'
    BY <1>2 DEF WriterOK
  <2>1. /\ worker[w].pc = "fetching" /\ writing[w] \in Bids
        /\ writing[w] = Target(w) \/ {writing[w], Target(w)} \subseteq raced
        /\ file[writing[w]] # "none" \/ writing[w] \in lost
    BY <1>1 DEF WriterOK
  <2>2. Safety!Busy(w)  BY <2>1 DEF Safety!Busy
  <2> QED  BY <1>1, <1>3, <2>1, <2>2
<1>5. FetchedOK(w)'
  <2> SUFFICES ASSUME worker[w].pc \in {"fetched", "importing"}, Target(w)' \notin raced'
      PROVE  \/ file'[Target(w)'] = "whole" \/ Target(w)' \in lost'
             \/ ChunkedDownload /\ file'[Target(w)'] = "unchecked"
    BY <1>2 DEF FetchedOK
  <2>1. Safety!Busy(w)  BY DEF Safety!Busy
  <2>2. Target(w)' = Target(w) /\ Target(w) \notin raced  BY <1>1, <1>3, <2>1
  <2>3. \/ file[Target(w)] = "whole" \/ Target(w) \in lost
        \/ ChunkedDownload /\ file[Target(w)] = "unchecked"
    BY <1>1, <2>2 DEF FetchedOK
  <2> QED  BY <2>1, <2>2, <2>3
<1> QED  BY <1>4, <1>5

\* The worker that takes a step moves from one state to the next; the others
\* are left alone.
LEMMA OthersElsewhere ==
  ASSUME NEW w \in Workers, Safety!Fetch(w), NEW v \in Workers \ {w} PROVE Elsewhere(v)
  BY DEF Elsewhere

\* A step that leaves the files alone.
LEMMA WorkersUntouched ==
  ASSUME FilesInv, [Next]_vars, \A w \in Workers : Elsewhere(w), UNCHANGED <<file, writing, lost>>
  PROVE  WorkersOK'
<1> SUFFICES ASSUME NEW w \in Workers PROVE WriterOK(w)' /\ FetchedOK(w)'
  BY DEF WorkersOK
<1> QED  BY WorkerKept

LEMMA WorkersCreate ==
  ASSUME FilesInv, [Next]_vars, NEW w \in Workers, CreateFile(w) PROVE WorkersOK'
<1>1. /\ worker[w].pc = "fetching" /\ writing' = [writing EXCEPT ![w] = Target(w)]
      /\ file' = [file EXCEPT ![Target(w)] = "part"] /\ lost' = lost \ {Target(w)}
      /\ UNCHANGED storeVars /\ TypeOK /\ Safety!Inv
  BY DEF CreateFile, Create, FilesInv
<1>2. /\ Target(w) \in Bids /\ Target(w) \in Paths /\ Safety!Busy(w)
      /\ \A p \in Paths : file'[p] = IF p = Target(w) THEN "part" ELSE file[p]
      /\ \A v \in Workers : writing'[v] = IF v = w THEN Target(w) ELSE writing[v]
  BY <1>1, TargetIn, PathsAre DEF TypeOK, Safety!Busy
<1>3. ASSUME NEW v \in Workers \ {w} PROVE WriterOK(v)' /\ FetchedOK(v)'
  <2>1. Target(v) \notin raced /\ Safety!Busy(v) => Target(v) # Target(w)
    BY <1>1, <1>2, SameData, StoreAssumptions, Safety!OneWorker DEF Target, DealDataFilePathFor
  <2>2. Target(v) \in Bids /\ Elsewhere(v)  BY <1>1, TargetIn DEF Elsewhere
  <2>3. \A b \in Bids : file[b] # "none" \/ b \in lost => file'[b] # "none" \/ b \in lost'
    BY <1>1, <1>2, PathsAre
  <2> QED  BY <1>1, <1>2, <2>1, <2>2, <2>3, PathsAre, WorkerKept
<1>4. Target(w)' = Target(w)
  BY <1>1 DEF storeVars, Target, DealDataFilePathFor, Store!WorkerBid, Store!Pointee
<1>5. WriterOK(w)' /\ FetchedOK(w)'
  BY <1>1, <1>2, <1>4 DEF WriterOK, FetchedOK, storeVars
<1> QED  BY <1>3, <1>5 DEF WorkersOK

\* The end of a download.
LEMMA WorkersClose ==
  ASSUME FilesInv, [Next]_vars, NEW w \in Workers, writing[w] # NoFile, Safety!Fetch(w),
         NEW d \in Downloads, Close(writing[w], d), Downloaded(w), lost' = lost,
         worker'[w].job = worker[w].job, cell' = cell,
         worker'[w].pc = "saving" \/ (worker'[w].pc = "fetched" /\ d.error = "none")
  PROVE  WorkersOK'
<1>1. WriterOK(w) /\ TypeOK /\ Safety!Inv /\ raced \subseteq raced'
  BY RacedStays DEF FilesInv
<1> DEFINE b == writing[w]
<1>2. /\ worker[w].pc = "fetching" /\ b \in Bids /\ b \in Paths
      /\ b = Target(w) \/ {b, Target(w)} \subseteq raced
      /\ file[b] # "none" \/ b \in lost
  BY <1>1, PathsAre DEF WriterOK
<1>3. /\ file' = [file EXCEPT ![b] = IF file[b] = "none" \/ d.error # "none" THEN file[b]
                                     ELSE d.content]
      /\ \A v \in Workers : writing'[v] = IF v = w THEN NoFile ELSE writing[v]
  BY <1>1 DEF Close, Downloaded, TypeOK
<1>4. /\ \A p \in Paths \ {b} : file'[p] = file[p]
      /\ file'[b] = IF file[b] = "none" \/ d.error # "none" THEN file[b] ELSE d.content
  BY <1>1, <1>2, <1>3 DEF TypeOK
<1>5. d.content # "none"  BY DownloadOutcomes
<1>6. Safety!Busy(w)  BY <1>2 DEF Safety!Busy
<1>7. ASSUME NEW v \in Workers \ {w} PROVE WriterOK(v)' /\ FetchedOK(v)'
  <2>1. Target(v) \notin raced /\ Safety!Busy(v) => Target(v) # b
    BY <1>1, <1>2, <1>6, SameData, StoreAssumptions, Safety!OneWorker
    DEF Target, DealDataFilePathFor
  <2>2. Target(v) \in Bids /\ Elsewhere(v)  BY <1>1, TargetIn DEF Elsewhere
  <2>3. \A c \in Bids : file[c] # "none" \/ c \in lost => file'[c] # "none" \/ c \in lost'
    BY <1>4, <1>5, PathsAre
  <2> QED  BY <1>3, <1>4, <2>1, <2>2, <2>3, PathsAre, WorkerKept
<1>8. WriterOK(w)'  BY <1>3 DEF WriterOK
<1>9. FetchedOK(w)'
  <2>1. Target(w)' = Target(w)
    BY DEF Target, DealDataFilePathFor, Store!WorkerBid, Store!Pointee
  <2>2. CASE worker'[w].pc = "saving"  BY <2>2 DEF FetchedOK
  <2>3. ASSUME worker'[w].pc = "fetched", d.error = "none", Target(w) \notin raced
        PROVE  \/ file'[Target(w)] = "whole" \/ Target(w) \in lost
               \/ ChunkedDownload /\ file'[Target(w)] = "unchecked"
    <3>1. Target(w) = b  BY <1>2, <2>3
    <3>2. d.content = "whole" \/ (ChunkedDownload /\ d.content = "unchecked")
      BY <2>3, DownloadOutcomes
    <3>3. CASE file[b] = "none"  BY <1>2, <3>1, <3>3
    <3>4. CASE file[b] # "none"
      <4>1. file'[b] = d.content  BY <1>4, <2>3, <3>4
      <4> QED  BY <3>1, <3>2, <4>1
    <3> QED  BY <3>3, <3>4
  <2> QED  BY <1>1, <2>1, <2>2, <2>3 DEF FetchedOK
<1> QED  BY <1>7, <1>8, <1>9 DEF WorkersOK

\* Every other step of a worker: either it leaves "fetching" without a file,
\* or it has none.
LEMMA WorkersWork ==
  ASSUME FilesInv, [Next]_vars, NEW w \in Workers, Work(w) PROVE WorkersOK'
<1>1. WriterOK(w) /\ FetchedOK(w) /\ TypeOK /\ Safety!Inv /\ raced \subseteq raced'
  BY RacedStays DEF FilesInv
<1>2. /\ worker \in [Workers -> [pc: Safety!PCs, job: Safety!Job, status: Safety!Statuses]]
      /\ jobCh \in Seq(Safety!Job)
  BY <1>1 DEF Safety!Inv, Safety!TypeOK
<1>3. CASE CreateFile(w)  BY <1>3, WorkersCreate
<1>4. CASE DownloadDone(w)
  <2>1. /\ worker' = [worker EXCEPT ![w].pc = "fetched"] /\ cell' = cell /\ lost' = lost
        /\ Safety!Fetch(w) /\ Downloaded(w) /\ writing[w] # NoFile
    BY <1>4, SameWork DEF DownloadDone, Store!FetchDone, Safety!Fetch
  <2>2. PICK d \in Downloads : d.error = "none" /\ Close(writing[w], d)
    BY <1>4 DEF DownloadDone
  <2> QED  BY <1>2, <2>1, <2>2, WorkersClose
<1>5. CASE DownloadFails(w)
  <2>1. /\ cell' = cell /\ lost' = lost /\ Store!Fail(w, FALSE)
        /\ Safety!Fetch(w) /\ Downloaded(w) /\ writing[w] # NoFile
    BY <1>5, SameWork DEF DownloadFails, Store!FetchFails, Safety!Fetch
  <2>2. PICK d \in Downloads : Close(writing[w], d)  BY <1>5 DEF DownloadFails
  <2>3. worker'[w].pc = "saving" /\ worker'[w].job = worker[w].job
    BY <1>2, <2>1 DEF Store!Fail
  <2> QED  BY <2>1, <2>2, <2>3, WorkersClose
<1>6. ASSUME Safety!Fetch(w), UNCHANGED fileVars, WriterOK(w)' /\ FetchedOK(w)' PROVE WorkersOK'
  <2>1. ASSUME NEW v \in Workers \ {w} PROVE WriterOK(v)' /\ FetchedOK(v)'
    <3>1. Elsewhere(v) /\ UNCHANGED <<file, writing, lost>>
      BY <1>6 DEF fileVars, Elsewhere
    <3> QED  BY <3>1, WorkerKept
  <2> QED  BY <1>6, <2>1 DEF WorkersOK
<1>7. CASE NoDownload(w)
  <2>1. /\ Safety!Fetch(w) /\ UNCHANGED fileVars /\ writing[w] = NoFile
        /\ \E i \in BOOLEAN : Store!Fail(w, i)
    BY <1>7, SameWork DEF NoDownload, Store!FetchExpired, Store!FetchFails, Safety!Fetch
  <2>2. worker'[w].pc = "saving"  BY <1>2, <2>1 DEF Store!Fail
  <2>3. WriterOK(w)' /\ FetchedOK(w)'  BY <2>1, <2>2 DEF WriterOK, FetchedOK, fileVars
  <2> QED  BY <1>6, <2>1, <2>3
<1>8. CASE Store!ImportBegin(w) /\ UNCHANGED fileVars
  <2>1. /\ Safety!Fetch(w) /\ worker[w].pc = "fetched" /\ writing[w] = NoFile
        /\ worker' = [worker EXCEPT ![w].pc = "importing"] /\ cell' = cell
    BY <1>1, <1>8, SameImportBegin DEF Store!ImportBegin, Safety!Fetch, WriterOK
  <2>2. worker'[w].pc = "importing" /\ worker'[w].job = worker[w].job  BY <1>2, <2>1
  <2>3. Target(w)' = Target(w)
    BY <2>1, <2>2 DEF Target, DealDataFilePathFor, Store!WorkerBid, Store!Pointee
  <2>4. WriterOK(w)' /\ FetchedOK(w)'
    BY <1>1, <1>8, <2>1, <2>2, <2>3 DEF WriterOK, FetchedOK, fileVars
  <2> QED  BY <1>6, <1>8, <2>1, <2>4
<1>9. CASE /\ \/ Store!TakeJob(w)
              \/ Store!DropJob(w)
              \/ Store!ImportFails(w)
              \/ Store!ImportDone(w)
              \/ Store!SaveOutcome(w)
              \/ Store!SaveOutcomeFails(w)
           /\ UNCHANGED fileVars
  <2>1. Safety!Fetch(w) /\ worker[w].pc # "fetching"
    BY <1>9, SameWork, SameSaveOutcome
    DEF Safety!Fetch, Store!TakeJob, Store!DropJob, Store!ImportFails, Store!ImportDone,
        Store!SaveOutcome, Store!SaveOutcomeFails
  <2>2. worker'[w].pc \notin {"fetched", "importing"}
    <3>1. CASE Store!TakeJob(w)
      <4>1. PICK j : worker' = [worker EXCEPT ![w] = [Store!Idle EXCEPT !.pc = "fetching", !.job = j]]
        BY <3>1 DEF Store!TakeJob
      <4> QED  BY <1>2, <4>1 DEF Store!Idle
    <3>2. CASE Store!DropJob(w)  BY <1>2, <3>2 DEF Store!DropJob
    <3>3. CASE Store!ImportFails(w) \/ Store!ImportDone(w)
      <4>1. PICK s : worker' = [worker EXCEPT ![w] = [@ EXCEPT !.pc = "saving", !.status = s]]
        BY <3>3 DEF Store!ImportFails, Store!Fail, Store!ImportDone
      <4> QED  BY <1>2, <4>1
    <3>4. CASE Store!SaveOutcome(w) \/ Store!SaveOutcomeFails(w)
      BY <1>2, <3>4
      DEF Store!SaveOutcome, Store!SaveOutcomeFails, Store!Release, Store!Idle
    <3> QED  BY <1>9, <3>1, <3>2, <3>3, <3>4
  <2>3. writing'[w] = NoFile  BY <1>1, <1>9, <2>1 DEF WriterOK, fileVars
  <2>4. WriterOK(w)' /\ FetchedOK(w)'  BY <2>2, <2>3 DEF WriterOK, FetchedOK
  <2> QED  BY <1>6, <1>9, <2>1, <2>4
<1> QED  BY <1>3, <1>4, <1>5, <1>7, <1>8, <1>9 DEF Work

\* The steps of the store in which the files have no part.
StoreAlone ==
  \/ Store!Messages \/ Store!Transactions \/ Store!Dispatch \/ Store!Start
  \/ (\E b \in Bids : Store!OrphanEnqueue(b)) \/ Store!BootCommit \/ Store!Close

LEMMA SameAlone ==
  StoreAlone => \/ Safety!Messages \/ Safety!Transactions \/ Safety!Dispatch \/ Safety!Start
                \/ (\E b \in Bids : Safety!OrphanEnqueue(b)) \/ Safety!BootCommit \/ Safety!Close
  BY SameMessages, SameCommits, SameLife
  DEF StoreAlone, Store!Messages, Safety!Messages, Store!Transactions, Safety!Transactions

\* The API writes to the file of no bid.
LEMMA ApiPath ==
  ASSUME TypeOK, NEW r \in Requests, RequestDataURI(r) \/ ReplyDataURI(r)
  PROVE  /\ \A b \in Bids : file'[b] = file[b]
         /\ file' \in [Paths -> Contents] /\ stale' \subseteq {p \in Paths : file'[p] # "none"}
<1>1. file \in [Paths -> Contents] /\ stale \subseteq {p \in Paths : file[p] # "none"}
  BY DEF TypeOK
<1>2. CASE RequestDataURI(r)
  BY <1>1, <1>2, PathsAre DEF RequestDataURI, Create, DealDataFilePathFor, Contents
<1>3. CASE ReplyDataURI(r)
  <2>1. CASE UNCHANGED <<file, stale>>  BY <1>1, <2>1
  <2>2. ASSUME NEW d \in Downloads, Close(NoBidID, d)
        PROVE  /\ \A b \in Bids : file'[b] = file[b]
               /\ file' \in [Paths -> Contents]
               /\ stale' \subseteq {p \in Paths : file'[p] # "none"}
    BY <1>1, <2>2, DownloadOutcomes, PathsAre DEF Close
  <2> QED  BY <1>3, <2>1, <2>2 DEF ReplyDataURI, DealDataFilePathFor
<1> QED  BY <1>2, <1>3

\* GC removes the file it visits, or none.
LEMMA Walked ==
  ASSUME TypeOK, GCWalk
  PROVE  \E p \in pass.todo :
           /\ p \in Paths /\ pass.pc = "walking"
           /\ pass' = IF pass.todo \ {p} = {} THEN NoPass
                      ELSE [pass EXCEPT !.pc = "walking", !.todo = pass.todo \ {p}]
           /\ UNCHANGED <<storeVars, writing, asked>>
           /\ \/ /\ file[p] # "none" /\ ShouldRemove(p)
                 /\ file'  = [file EXCEPT ![p] = "none"] /\ file'[p] = "none"
                 /\ \A q \in Paths : q # p => file'[q] = file[q]
                 /\ stale' = stale \ {p} /\ lost' = lost \cup ({p} \cap Bids)
              \/ /\ ~(file[p] # "none" /\ ShouldRemove(p))
                 /\ UNCHANGED <<file, stale, lost>>
<1>1. pass.todo \subseteq Paths /\ file \in [Paths -> Contents]  BY DEF TypeOK
<1>2. PICK p \in pass.todo :
        /\ Visit(pass.todo \ {p})
        /\ IF file[p] # "none" /\ ShouldRemove(p)
           THEN /\ file'  = [file EXCEPT ![p] = "none"]
                /\ stale' = stale \ {p}
                /\ lost'  = lost \cup ({p} \cap Bids)
           ELSE UNCHANGED <<file, stale, lost>>
  BY DEF GCWalk
<1>3. pass.pc = "walking" /\ UNCHANGED <<storeVars, writing, asked>>  BY DEF GCWalk
<1> QED  BY <1>1, <1>2, <1>3 DEF Visit

LEMMA WorkersRest ==
  ASSUME FilesInv, [Next]_vars,
         \/ \E r \in Requests : RequestDataURI(r) \/ ReplyDataURI(r)
         \/ GCBegin \/ (\E b \in Bids : GCDelete(b)) \/ GCReadDirectory \/ GCWalk
         \/ (\E p \in Paths : Age(p)) \/ Stop \/ (StoreAlone /\ UNCHANGED fileVars)
         \/ UNCHANGED vars
  PROVE  WorkersOK'
<1>1. TypeOK /\ Safety!Inv /\ \A w \in Workers : Target(w) \in Bids
  BY TargetIn DEF FilesInv
<1>2. ASSUME NEW r \in Requests, RequestDataURI(r) \/ ReplyDataURI(r) PROVE WorkersOK'
  <2>1. /\ \A b \in Bids : file'[b] = file[b]
        /\ UNCHANGED <<storeVars, writing, lost>>
    BY <1>1, <1>2, ApiPath DEF RequestDataURI, ReplyDataURI
  <2>2. ASSUME NEW w \in Workers PROVE WriterOK(w)' /\ FetchedOK(w)'
    <3>1. Elsewhere(w)  BY <2>1 DEF Elsewhere
    <3> QED  BY <1>1, <2>1, <3>1, WorkerKept
  <2> QED  BY <2>2 DEF WorkersOK
<1>3. CASE \/ GCBegin \/ (\E b \in Bids : GCDelete(b)) \/ GCReadDirectory
           \/ (\E p \in Paths : Age(p)) \/ (StoreAlone /\ UNCHANGED fileVars) \/ UNCHANGED vars
  <2>1. UNCHANGED <<file, writing, lost>>
    BY <1>3 DEF GCBegin, GCDelete, GCReadDirectory, Age, fileVars, vars
  <2>2. \A w \in Workers : Elsewhere(w)
    BY <1>3, SameAlone, SameCollect
    DEF Elsewhere, GCBegin, GCDelete, GCReadDirectory, Age, vars, Store!Collect
  <2> QED  BY <2>1, <2>2, WorkersUntouched
<1>4. CASE GCWalk
  <2>1. PICK p \in pass.todo :
          /\ UNCHANGED <<storeVars, writing>>
          /\ \/ /\ \A q \in Paths : q # p => file'[q] = file[q]
                /\ lost' = lost \cup ({p} \cap Bids)
             \/ UNCHANGED <<file, lost>>
    BY <1>1, <1>4, Walked
  <2>2. \A b \in Bids : b \in lost' \/ file'[b] = file[b]  BY <2>1, PathsAre
  <2>3. \A b \in Bids : b \in lost => b \in lost'  BY <2>1
  <2>4. ASSUME NEW w \in Workers PROVE WriterOK(w)' /\ FetchedOK(w)'
    <3>1. Elsewhere(w)  BY <2>1 DEF Elsewhere
    <3> QED  BY <1>1, <2>1, <2>2, <2>3, <3>1, WorkerKept
  <2> QED  BY <2>4 DEF WorkersOK
<1>5. CASE Stop
  <2>1. worker' = [w \in Workers |-> Safety!Idle] /\ writing' = [w \in Workers |-> NoFile]
    BY <1>5, SameData, SameLife DEF Stop, Idle, Safety!BootFails, Safety!Exit, Safety!Crash,
        Safety!Stop, Safety!Reset
  <2> QED  BY <2>1 DEF WorkersOK, WriterOK, FetchedOK, Safety!Idle
<1> QED  BY <1>2, <1>3, <1>4, <1>5

LEMMA WorkersNext == ASSUME FilesInv, [Next]_vars PROVE WorkersOK'
  BY WorkersWork, WorkersRest DEF Next, StoreAlone

-----------------------------------------------------------------------------
(* The types.                                                                *)

LEMMA ListedAre == ListedByGC \subseteq Present /\ Present \subseteq Bids
<1>1. Present \in SUBSET Bids  BY DEF Present
<1>2. Present \in SUBSET Nat /\ IsFiniteSet(Present)  BY <1>1, BidsAssumption, FS_Subset
<1>3. SetDefaults(0) \in Nat  BY LimitsAssumption DEF SetDefaults
<1>4. ListedByGC = {k \in Present : Cardinality({c \in Present : c > k}) < SetDefaults(0)}
  BY <1>2, <1>3, FirstPage DEF ListedByGC
<1> QED  BY <1>1, <1>4

LEMMA Begun ==
  ASSUME GCBegin
  PROVE  /\ UNCHANGED <<db, raced, file, stale, writing, asked, lost>>
         /\ pass'.pc = "deleting" /\ pass'.todo = {}
         /\ pass'.listed = ListedByGC
         /\ pass'.remove = {b \in ListedByGC : Safety!Status(b) = "finalized"}
         /\ pass'.keep = {b \in ListedByGC : Safety!Status(b) # "finalized" /\ b \notin gc'}
         /\ pass' \in [pc: {"idle", "deleting", "walking"}, listed: SUBSET Bids,
                       keep: SUBSET Paths, remove: SUBSET Paths, todo: SUBSET Paths]
<1> DEFINE done == {b \in ListedByGC : Store!Status(b) = "finalized"}
<1>1. UNCHANGED <<db, raced, file, stale, writing, asked, lost>>
  BY DEF GCBegin, Store!GCList, storeVars
<1>2. pass' = [pc     |-> "deleting",
               listed |-> ListedByGC,
               keep   |-> {DealDataFilePathFor(b) : b \in ListedByGC \ (done \cup gc')},
               remove |-> {DealDataFilePathFor(b) : b \in done},
               todo   |-> {}]
  BY DEF GCBegin
<1>3. \A S : {DealDataFilePathFor(b) : b \in S} = S  BY DEF DealDataFilePathFor
<1>4. pass' = [pc |-> "deleting", listed |-> ListedByGC, keep |-> ListedByGC \ (done \cup gc'),
               remove |-> done, todo |-> {}]
  BY <1>2, <1>3
<1>5. ListedByGC \subseteq Bids /\ Bids \subseteq Paths  BY ListedAre, PathsAre
<1>6. \A b : Store!Status(b) = Safety!Status(b)  BY SameData
<1> QED  BY <1>1, <1>4, <1>5, <1>6

LEMMA TypesInit == ASSUME Init PROVE TypeOK
  BY PathsAre DEF Init, TypeOK, Contents, Idle, NoPass

LEMMA TypesNext == ASSUME FilesInv, [Next]_vars PROVE TypeOK'
<1> DEFINE Passes == [pc: {"idle", "deleting", "walking"}, listed: SUBSET Bids, keep: SUBSET Paths,
                      remove: SUBSET Paths, todo: SUBSET Paths]
<1>0. NoPass \in Passes  BY DEF NoPass
<1>1. /\ TypeOK /\ file \in [Paths -> Contents] /\ stale \subseteq {p \in Paths : file[p] # "none"}
      /\ writing \in [Workers -> Paths \cup {NoFile}] /\ asked \subseteq Requests
      /\ pass \in Passes /\ lost \subseteq Bids
      /\ \A w \in Workers : Target(w) \in Bids
  BY TargetIn DEF FilesInv, TypeOK
<1>2. ASSUME UNCHANGED fileVars PROVE TypeOK'  BY <1>1, <1>2 DEF TypeOK, fileVars
<1>3. ASSUME NEW w \in Workers, CreateFile(w) PROVE TypeOK'
  <2>1. Target(w) \in Paths  BY <1>1, PathsAre
  <2>2. file' \in [Paths -> Contents] /\ file'[Target(w)] = "part"
        /\ \A p \in Paths : p # Target(w) => file'[p] = file[p]
    BY <1>1, <1>3, <2>1 DEF CreateFile, Create, Contents
  <2>3. stale' \subseteq {p \in Paths : file'[p] # "none"}
    BY <1>1, <1>3, <2>2 DEF CreateFile, Create
  <2>4. writing' \in [Workers -> Paths \cup {NoFile}] /\ lost' \subseteq Bids
        /\ UNCHANGED <<asked, pass>>
    BY <1>1, <1>3, <2>1 DEF CreateFile
  <2> QED  BY <1>1, <2>2, <2>3, <2>4 DEF TypeOK
<1>4. ASSUME NEW w \in Workers, DownloadDone(w) \/ DownloadFails(w) PROVE TypeOK'
  <2>1. PICK d \in Downloads : Close(writing[w], d)
    BY <1>4 DEF DownloadDone, DownloadFails
  <2>2. PICK p \in Bids : p = writing[w]
    BY <1>4 DEF DownloadDone, DownloadFails, FilesInv, WriterOK
  <2>3. d.content \in Contents \ {"none"}  BY DownloadOutcomes
  <2>4. /\ file' = [file EXCEPT ![p] = IF @ = "none" \/ d.error # "none" THEN @ ELSE d.content]
        /\ stale' = stale \ {p}
    BY <2>1, <2>2 DEF Close
  <2>5. /\ file' \in [Paths -> Contents]
        /\ \A q \in Paths : file[q] # "none" => file'[q] # "none"
    BY <1>1, <2>3, <2>4, PathsAre
  <2>6. stale' \subseteq {q \in Paths : file'[q] # "none"}  BY <1>1, <2>4, <2>5
  <2>7. writing' \in [Workers -> Paths \cup {NoFile}] /\ UNCHANGED <<asked, pass, lost>>
    BY <1>1, <1>4 DEF DownloadDone, DownloadFails, Downloaded
  <2> QED  BY <1>1, <2>5, <2>6, <2>7 DEF TypeOK
<1>5. ASSUME NEW w \in Workers, Work(w) PROVE TypeOK'
  BY <1>2, <1>3, <1>4, <1>5 DEF Work, NoDownload
<1>6. ASSUME NEW r \in Requests, RequestDataURI(r) \/ ReplyDataURI(r) PROVE TypeOK'
  <2>1. file' \in [Paths -> Contents] /\ stale' \subseteq {p \in Paths : file'[p] # "none"}
    BY <1>1, <1>6, ApiPath
  <2>2. asked' \subseteq Requests /\ UNCHANGED <<writing, pass, lost>>
    BY <1>1, <1>6 DEF RequestDataURI, ReplyDataURI
  <2> QED  BY <1>1, <2>1, <2>2 DEF TypeOK
<1>7. CASE GCBegin  BY <1>1, <1>7, Begun DEF TypeOK
<1>8. CASE GCReadDirectory
  <2>1. pass' \in Passes
    <3> DEFINE S == {p \in Paths : file[p] # "none"}
    <3>1. Visit(S) /\ S \subseteq Paths  BY <1>8 DEF GCReadDirectory
    <3> HIDE DEF S
    <3> QED  BY <1>0, <1>1, <3>1 DEF Visit
  <2> QED  BY <1>1, <1>8, <2>1 DEF GCReadDirectory, TypeOK
<1>9. CASE GCWalk
  <2>1. PICK p \in pass.todo :
          /\ p \in Paths
          /\ pass' = IF pass.todo \ {p} = {} THEN NoPass
                     ELSE [pass EXCEPT !.pc = "walking", !.todo = pass.todo \ {p}]
          /\ UNCHANGED <<writing, asked>>
          /\ \/ /\ file' = [file EXCEPT ![p] = "none"] /\ stale' = stale \ {p}
                /\ \A q \in Paths : q # p => file'[q] = file[q]
                /\ lost' = lost \cup ({p} \cap Bids)
             \/ UNCHANGED <<file, stale, lost>>
    BY <1>1, <1>9, Walked
  <2>2. pass' \in Passes  BY <1>0, <1>1, <2>1
  <2>3. file' \in [Paths -> Contents] /\ stale' \subseteq {q \in Paths : file'[q] # "none"}
    BY <1>1, <2>1 DEF Contents
  <2> QED  BY <1>1, <2>1, <2>2, <2>3 DEF TypeOK
<1>10. ASSUME NEW p \in Paths, Age(p) PROVE TypeOK'  BY <1>1, <1>10 DEF Age, TypeOK
<1>11. CASE Stop  BY <1>0, <1>1, <1>11 DEF Stop, Idle, TypeOK
<1>12. CASE (\E b \in Bids : GCDelete(b)) \/ (StoreAlone /\ UNCHANGED fileVars) \/ UNCHANGED vars
  BY <1>2, <1>12 DEF GCDelete, vars
<1> QED
  BY <1>5, <1>6, <1>7, <1>8, <1>9, <1>10, <1>11, <1>12 DEF Next, StoreAlone

-----------------------------------------------------------------------------
(* The GC pass.                                                              *)

\* A step beside the pass: it creates the file of no finalized bid.
LEMMA PassKept ==
  ASSUME FilesInv, [Next]_vars, pass' = pass, gc' \subseteq gc,
         \A b \in Bids : b \in gc => b \in gc' \/ Safety!Status(b)' = "removed",
         \A b \in Bids \ raced : Safety!Status(b) = "finalized" /\ file[b] = "none" => file'[b] = "none"
  PROVE  PassOK'
<1>1. PassOK /\ Safety!Inv /\ raced \subseteq raced'  BY RacedStays DEF FilesInv
<1>2. ASSUME NEW b \in Bids, b \notin raced', pass.pc # "idle"
      PROVE  /\ b \in pass.listed => b \in pass.keep \cup pass.remove \cup gc'
                                     \/ Safety!Status(b)' = "removed"
             /\ b \in pass.remove => Safety!Status(b)' = "finalized"
             /\ pass.pc = "walking" /\ b \in pass.remove \ pass.todo => file'[b] = "none"
  <2>1. b \notin raced  BY <1>1, <1>2
  <2>2. ListedOK(b)  BY <1>1, <2>1 DEF PassOK
  <2>3. Safety!Status(b) = "finalized" => Safety!Status(b)' = "finalized"
    BY <1>1, <1>2, EndsStay
  <2>4. Safety!Status(b) = "removed" => Safety!Status(b)' = "removed"
    BY <1>1, <1>2, EndsStay
  <2> QED  BY <1>2, <2>1, <2>2, <2>3, <2>4 DEF ListedOK
<1>3. \A b \in Bids \ raced' : ListedOK(b)'  BY <1>2 DEF ListedOK
<1>4. (gc' # {} => pass.pc = "deleting") /\ pass.remove \subseteq Bids
  BY <1>1 DEF PassOK
<1> QED  BY <1>3, <1>4 DEF PassOK

\* Only GC and the end of the process change what is to be deleted.
LEMMA GCElsewhere ==
  ASSUME StoreAlone \/ UNCHANGED storeVars \/ \E w \in Workers : Safety!Fetch(w) PROVE gc' = gc
<1>1. CASE \E w \in Workers : Safety!Fetch(w)
  BY <1>1 DEF Safety!Fetch, Safety!TakeJob, Safety!DropJob, Safety!FetchExpired,
      Safety!FetchFails, Safety!FetchDone, Safety!ImportBegin, Safety!ImportFails,
      Safety!ImportDone, Safety!SaveOutcome, Safety!SaveOutcomeFails
<1>2. CASE StoreAlone
  BY <1>2 DEF StoreAlone, Store!Messages, Store!SaveBid, Store!SetAwaitingProposalCid,
      Store!SetDealUID, Store!SetProposalCid, Store!Transactions, Store!Commit, Store!Abort,
      Store!Dispatch, Store!NextFindsNothing, Store!NextEnqueues, Store!Start,
      Store!OrphanEnqueue, Store!BootCommit, Store!Close
<1> QED  BY <1>1, <1>2 DEF storeVars

LEMMA PassWork == ASSUME FilesInv, [Next]_vars, NEW w \in Workers, Work(w) PROVE PassOK'
<1>1. TypeOK /\ Safety!Inv /\ WriterOK(w) /\ file \in [Paths -> Contents]
  BY DEF FilesInv, TypeOK
<1>2. CASE CreateFile(w)
  <2>1. /\ worker[w].pc = "fetching" /\ UNCHANGED <<storeVars, pass>>
        /\ file' = [file EXCEPT ![Target(w)] = "part"]
    BY <1>2 DEF CreateFile, Create
  <2>2. Target(w) \in Bids /\ Safety!Busy(w)  BY <1>1, <2>1, TargetIn DEF Safety!Busy
  <2>3. Target(w) \notin raced => Safety!Status(Target(w)) # "finalized"
    BY <1>1, <2>2, TargetLives
  <2>4. \A b \in Bids \ raced : Safety!Status(b) = "finalized" => file'[b] = file[b]
    BY <1>1, <2>1, <2>3, PathsAre
  <2>5. gc' = gc  BY <2>1 DEF storeVars
  <2> QED  BY <2>1, <2>4, <2>5, PassKept
<1>3. CASE DownloadDone(w) \/ DownloadFails(w)
  <2>1. PICK d \in Downloads : Close(writing[w], d)
    BY <1>3 DEF DownloadDone, DownloadFails
  <2>2. PICK p \in Bids : p = writing[w]
    BY <1>1, <1>3 DEF DownloadDone, DownloadFails, WriterOK
  <2>3. file' = [file EXCEPT ![p] = IF @ = "none" \/ d.error # "none" THEN @ ELSE d.content]
    BY <2>1, <2>2 DEF Close
  <2>4. \A b \in Bids : file[b] = "none" => file'[b] = "none"  BY <1>1, <2>3, PathsAre
  <2>5. Safety!Fetch(w) /\ pass' = pass
    BY <1>3, SameWork DEF DownloadDone, DownloadFails, Safety!Fetch
  <2>6. gc' = gc  BY <2>5, GCElsewhere
  <2> QED  BY <2>4, <2>5, <2>6, PassKept
<1>4. CASE ~CreateFile(w) /\ ~DownloadDone(w) /\ ~DownloadFails(w)
  <2>1. Safety!Fetch(w) /\ UNCHANGED <<file, pass>>
    BY <1>4, SameWork, SameImportBegin, SameSaveOutcome
    DEF Work, NoDownload, Safety!Fetch, fileVars
  <2>2. gc' = gc  BY <2>1, GCElsewhere
  <2> QED  BY <2>1, <2>2, PassKept
<1> QED  BY <1>2, <1>3, <1>4

\* What the pass sets out with, and what it visits.
LEMMA PassGC ==
  ASSUME FilesInv, [Next]_vars,
         GCBegin \/ (\E b \in Bids : GCDelete(b)) \/ GCReadDirectory \/ GCWalk
  PROVE  PassOK'
<1>1. TypeOK /\ PassOK /\ Safety!Inv  BY DEF FilesInv
<1>2. CASE GCBegin
  <2>1. \A b : Safety!Status(b)' = Safety!Status(b)  BY <1>2, Begun DEF Safety!Status
  <2> QED  BY <1>2, <2>1, Begun, ListedAre DEF PassOK, ListedOK
<1>3. ASSUME NEW b \in Bids, GCDelete(b) PROVE PassOK'
  <2>1. UNCHANGED <<file, pass>> /\ Safety!GCDelete(b) /\ db \in [Bids -> Safety!Entry]
    BY <1>1, <1>3, SameData, SameWrites
    DEF GCDelete, Store!GCDelete, Safety!GCDelete, fileVars, Safety!Inv, Safety!TypeOK
  <2>2. gc' = gc \ {b} /\ Safety!Status(b)' = "removed"
    BY <2>1 DEF Safety!GCDelete, Safety!Status, Safety!Entry
  <2> QED  BY <2>1, <2>2, PassKept
<1>4. CASE GCReadDirectory
  <2> DEFINE S == {p \in Paths : file[p] # "none"}
  <2>1. /\ gc = {} /\ pass.pc = "deleting" /\ UNCHANGED <<storeVars, file>>
        /\ pass' = NoPass \/ pass' = [pass EXCEPT !.pc = "walking", !.todo = S]
    BY <1>4 DEF GCReadDirectory, Visit
  <2>2. \A b \in Bids : b \notin S => file[b] = "none"  BY PathsAre
  <2>3. /\ gc' = gc /\ raced' = raced
        /\ \A b : Safety!Status(b)' = Safety!Status(b)
    BY <2>1 DEF storeVars, Safety!Status
  <2>4. CASE pass' = NoPass  BY <2>1, <2>3, <2>4 DEF NoPass, PassOK, ListedOK
  <2>5. CASE pass' = [pass EXCEPT !.pc = "walking", !.todo = S]
    <3>1. /\ pass'.pc = "walking" /\ pass'.todo = S /\ pass'.listed = pass.listed
          /\ pass'.keep = pass.keep /\ pass'.remove = pass.remove
      BY <1>1, <2>5 DEF TypeOK
    <3> HIDE DEF S
    <3> QED  BY <1>1, <2>1, <2>2, <2>3, <3>1 DEF PassOK, ListedOK
  <2> QED  BY <2>1, <2>4, <2>5
<1>5. CASE GCWalk
  <2>1. PICK p \in pass.todo :
          /\ p \in Paths /\ pass.pc = "walking" /\ UNCHANGED storeVars
          /\ pass' = NoPass \/ pass' = [pass EXCEPT !.pc = "walking", !.todo = pass.todo \ {p}]
          /\ \/ /\ file[p] # "none" /\ ShouldRemove(p) /\ file'[p] = "none"
                /\ \A q \in Paths : q # p => file'[q] = file[q]
             \/ ~(file[p] # "none" /\ ShouldRemove(p)) /\ file' = file
    BY <1>1, <1>5, Walked
  <2>2. \A b \in Bids : file[b] = "none" => file'[b] = "none"  BY <2>1, PathsAre
  <2>3. p \in pass.remove => file'[p] = "none"  BY <2>1 DEF ShouldRemove
  <2>4. /\ gc' = gc /\ raced' = raced
        /\ \A b : Safety!Status(b)' = Safety!Status(b)
    BY <2>1 DEF storeVars, Safety!Status
  <2>5. gc = {}  BY <1>1, <2>1 DEF PassOK
  <2>6. CASE pass' = NoPass  BY <2>4, <2>5, <2>6 DEF NoPass, PassOK, ListedOK
  <2>7. CASE pass' = [pass EXCEPT !.pc = "walking", !.todo = pass.todo \ {p}]
    <3>1. /\ pass'.pc = "walking" /\ pass'.todo = pass.todo \ {p} /\ pass'.listed = pass.listed
          /\ pass'.keep = pass.keep /\ pass'.remove = pass.remove
      BY <1>1, <2>7 DEF TypeOK
    <3> QED  BY <1>1, <2>1, <2>2, <2>3, <2>4, <2>5, <3>1 DEF PassOK, ListedOK
  <2> QED  BY <2>1, <2>6, <2>7
<1> QED  BY <1>2, <1>3, <1>4, <1>5

LEMMA PassNext == ASSUME FilesInv, [Next]_vars PROVE PassOK'
<1>1. ASSUME NEW r \in Requests, RequestDataURI(r) \/ ReplyDataURI(r) PROVE PassOK'
  <2>1. \A b \in Bids : file'[b] = file[b]  BY <1>1, ApiPath DEF FilesInv
  <2>2. UNCHANGED <<storeVars, pass>>  BY <1>1 DEF RequestDataURI, ReplyDataURI
  <2>3. gc' = gc  BY <2>2 DEF storeVars
  <2> QED  BY <2>1, <2>2, <2>3, PassKept
<1>2. ASSUME NEW p \in Paths, Age(p) PROVE PassOK'
  <2>1. UNCHANGED <<file, pass>> /\ gc' = gc  BY <1>2 DEF Age, storeVars
  <2> QED  BY <2>1, PassKept
<1>3. CASE Stop
  <2>1. gc' = {} /\ pass' = NoPass
    BY <1>3, SameLife DEF Stop, Safety!BootFails, Safety!Exit, Safety!Crash, Safety!Stop,
        Safety!Reset
  <2> QED  BY <2>1 DEF PassOK, ListedOK, NoPass
<1>4. CASE StoreAlone /\ UNCHANGED fileVars
  <2>1. UNCHANGED <<file, pass>> /\ gc' = gc  BY <1>4, GCElsewhere DEF fileVars
  <2> QED  BY <2>1, PassKept
<1>5. CASE UNCHANGED vars
  <2>1. UNCHANGED <<file, pass>> /\ gc' = gc  BY <1>5 DEF vars, storeVars, fileVars
  <2> QED  BY <2>1, PassKept
<1> QED  BY <1>1, <1>2, <1>3, <1>4, <1>5, PassWork, PassGC DEF Next, StoreAlone

-----------------------------------------------------------------------------
(* The theorems.                                                             *)

LEMMA FilesInit == ASSUME Init PROVE FilesInv
<1>1. Safety!Inv  BY SameInit, StoreAssumptions, Safety!InvInit DEF Init
<1>2. worker = [w \in Workers |-> Safety!Idle] /\ gc = {}
  BY SameInit DEF Init, Safety!Init
<1>3. \A w \in Workers : WriterOK(w) /\ FetchedOK(w)
  BY <1>2 DEF Init, Idle, WriterOK, FetchedOK, Safety!Idle
<1>4. PassOK  BY <1>2 DEF Init, PassOK, ListedOK, NoPass
<1> QED  BY <1>1, <1>3, <1>4, TypesInit DEF FilesInv

LEMMA FilesNext == ASSUME FilesInv, [Next]_vars PROVE FilesInv'
<1>1. Safety!Next \/ UNCHANGED Safety!vars
  BY StoreMoves DEF vars, storeVars, Safety!vars
<1>2. Safety!Inv'  BY <1>1, StoreAssumptions, Safety!InvNext DEF FilesInv
<1>3. TypeOK' /\ PassOK' /\ WorkersOK'  BY TypesNext, PassNext, WorkersNext
<1> QED  BY <1>2, <1>3 DEF FilesInv, WorkersOK

LEMMA FilesHold == Spec => []FilesInv
  BY FilesInit, FilesNext, PTL DEF Spec

\* The variables keep their types; in particular only files that are there
\* are old, so that GC never acts on the age of a file that is gone.
THEOREM FileTypes == Spec => []TypeOK
<1>1. FilesInv => TypeOK  BY DEF FilesInv
<1> QED  BY <1>1, FilesHold, PTL

\* Without the boosted download, Lotus is told to import nothing but the
\* complete file of the bid, across failed attempts, restarts of the process,
\* other downloads and GC.
THEOREM ImportsAreWhole == ASSUME ~ChunkedDownload PROVE Spec => []ImportsWholeFile
<1>1. FilesInv => ImportsWholeFile
  BY SameData DEF FilesInv, FetchedOK, ImportsWholeFile, Target, DealDataFilePathFor
<1> QED  BY <1>1, FilesHold, PTL

\* With the boosted download on, which checks nothing, what is imported is at
\* least all that some source sent: never a part of it.
NoPartImported ==
  \A w \in Workers :
    LET b == Store!WorkerBid(w).id
    IN  worker[w].pc \in {"fetched", "importing"} /\ b \notin raced =>
          file[b] \in {"whole", "unchecked"} \/ b \in lost

\* The statement above, of every behaviour: boosted or not, a failed or
\* interrupted download leaves nothing behind that a later one mistakes for
\* its own.
THEOREM ImportsAreNoPart == Spec => []NoPartImported
<1>1. FilesInv => NoPartImported
  BY SameData DEF FilesInv, FetchedOK, NoPartImported, Target, DealDataFilePathFor
<1> QED  BY <1>1, FilesHold, PTL

\* GC takes the file of no bid that still has a job, unless its list did not
\* reach the bid and nobody has written the file for long.
THEOREM GCSparesJobs == Spec => GCSparesListed
<1>1. ASSUME FilesInv, [Next]_vars, NEW b \in Bids \ raced, Store!HasJob(b),
             file[b] # "none", file'[b] = "none"
      PROVE  b \notin pass.listed /\ b \in stale
  <2>1. TypeOK /\ PassOK /\ Safety!Inv /\ file \in [Paths -> Contents] /\ b \in Paths
    BY <1>1, PathsAre DEF FilesInv, TypeOK
  <2>2. Safety!Status(b) \notin {"finalized", "removed"}
    <3>1. Safety!HasJob(b)
      BY <1>1, SameData DEF Store!HasJob, Safety!HasJob, Store!Waiting, Safety!Waiting,
          Store!Running, Safety!Running, Store!Pointee, Safety!Pointee
    <3> QED  BY <2>1, <3>1, StoreAssumptions, Safety!JobStatus
  <2>3. CASE GCWalk
    <3>1. PICK p \in pass.todo :
            /\ pass.pc = "walking"
            /\ \/ ShouldRemove(p) /\ \A q \in Paths : q # p => file'[q] = file[q]
               \/ file' = file
      BY <2>1, <2>3, Walked
    <3>2. ShouldRemove(b)  BY <1>1, <2>1, <3>1
    <3>3. gc = {} /\ ListedOK(b)  BY <2>1, <3>1 DEF PassOK
    <3> QED  BY <2>2, <3>1, <3>2, <3>3 DEF ShouldRemove, ListedOK
  <2>4. ASSUME NEW w \in Workers, Work(w) PROVE FALSE
    <3>1. CASE CreateFile(w)
      <4>1. Target(w) \in Paths /\ file' = [file EXCEPT ![Target(w)] = "part"]
        BY <2>1, <3>1, TargetIn, PathsAre DEF CreateFile, Create
      <4> QED  BY <1>1, <2>1, <4>1
    <3>2. CASE DownloadDone(w) \/ DownloadFails(w)
      <4>1. PICK d \in Downloads : Close(writing[w], d)
        BY <3>2 DEF DownloadDone, DownloadFails
      <4>2. d.content # "none"  BY DownloadOutcomes
      <4> QED  BY <1>1, <2>1, <4>1, <4>2 DEF Close
    <3> QED  BY <1>1, <2>4, <3>1, <3>2 DEF Work, NoDownload, fileVars
  <2>5. ASSUME NEW r \in Requests, RequestDataURI(r) \/ ReplyDataURI(r) PROVE FALSE
    BY <1>1, <2>1, <2>5, ApiPath
  <2> QED
    BY <1>1, <2>3, <2>4, <2>5
    DEF Next, GCBegin, GCDelete, GCReadDirectory, Age, Stop, fileVars, vars
<1>2. FilesInv /\ [Next]_vars =>
        [\A b \in Bids \ raced :
           Store!HasJob(b) /\ file[b] # "none" /\ file'[b] = "none"
             => b \notin pass.listed /\ b \in stale]_vars
  BY <1>1
<1> QED  BY <1>2, FilesHold, PTL DEF Spec, GCSparesListed

\* A GC pass that reaches its end leaves no file of a bid that was finalized
\* when it began, even if the walk met the file only at the last step or
\* workers came and went meanwhile.
THEOREM PassesRemove == Spec => PassRemovesFinalized
<1>1. ASSUME FilesInv, [Next]_vars, pass.pc # "idle", pass'.pc = "idle", Store!Up, phase' = phase,
             NEW b \in pass.remove \ raced
      PROVE  file'[b] = "none"
  <2>1. TypeOK /\ PassOK /\ b \in Bids /\ b \in Paths /\ ListedOK(b)
    BY <1>1, PathsAre DEF FilesInv, PassOK
  <2>2. CASE GCWalk
    <3>1. PICK p \in pass.todo :
            /\ p \in Paths /\ pass.pc = "walking"
            /\ pass' = IF pass.todo \ {p} = {} THEN NoPass
                       ELSE [pass EXCEPT !.pc = "walking", !.todo = pass.todo \ {p}]
            /\ \/ /\ file[p] # "none" /\ ShouldRemove(p) /\ file'[p] = "none"
                  /\ \A q \in Paths : q # p => file'[q] = file[q]
               \/ ~(file[p] # "none" /\ ShouldRemove(p)) /\ file' = file
      BY <2>1, <2>2, Walked
    <3>2. pass.todo = {p}  BY <1>1, <2>1, <3>1 DEF TypeOK
    <3>3. CASE b = p  BY <1>1, <3>1, <3>3 DEF ShouldRemove
    <3>4. CASE b # p
      <4>1. file[b] = "none"  BY <1>1, <2>1, <3>1, <3>2, <3>4 DEF ListedOK
      <4> QED  BY <2>1, <3>1, <3>4, <4>1
    <3> QED  BY <3>3, <3>4
  <2>3. CASE GCReadDirectory
    <3> DEFINE S == {p \in Paths : file[p] # "none"}
    <3>1. Visit(S) /\ file' = file  BY <2>3 DEF GCReadDirectory
    <3>2. S = {}
      <4> HIDE DEF S
      <4> QED  BY <1>1, <2>1, <3>1 DEF Visit, TypeOK
    <3> QED  BY <2>1, <3>1, <3>2
  <2>4. ~Stop
    BY <1>1, SameLife DEF Store!Up, Stop, Safety!BootFails, Safety!Exit, Safety!Crash, Safety!Stop
  <2>5. ~GCBegin  BY <1>1 DEF GCBegin
  <2>6. CASE ~GCWalk /\ ~GCReadDirectory
    <3>1. pass' = pass
      BY <1>1, <2>4, <2>5, <2>6 DEF Next, Work, CreateFile, DownloadDone, DownloadFails, NoDownload,
          RequestDataURI, ReplyDataURI, GCDelete, Age, fileVars, vars
    <3> QED  BY <1>1, <3>1
  <2> QED  BY <2>2, <2>3, <2>6
<1>2. FilesInv /\ [Next]_vars =>
        [pass.pc # "idle" /\ pass'.pc = "idle" /\ Store!Up /\ phase' = phase
           => \A p \in pass.remove \ raced : file'[p] = "none"]_vars
  BY <1>1
<1> QED  BY <1>2, FilesHold, PTL DEF Spec, PassRemovesFinalized

-----------------------------------------------------------------------------
(* The filter of GET /deals (the loop of listBids): what it keeps of a list  *)
(* is the list of the places that pass, taken for any set s of places.       *)

Kept(list, status, filters, s) == {i \in s : status[list[i]] \in filters}

AtPlaces(list, places) ==
  [j \in 1..Cardinality(places) |-> list[InOrder(places, "ascending")[j]]]

LEMMA AtPlacesIs ==
  ASSUME NEW S, NEW n \in Nat, NEW list \in [1..n -> S], NEW K \in SUBSET (1..n)
  PROVE  /\ AtPlaces(list, K) \in Seq(S) /\ Len(AtPlaces(list, K)) = Cardinality(K)
         /\ Elements(AtPlaces(list, K)) = {list[i] : i \in K}
         /\ AtPlaces(list, {}) = <<>>
<1> DEFINE f == InOrder(K, "ascending")
           c == Cardinality(K)
<1>1. IsFiniteSet(K) /\ c \in Nat /\ K \in SUBSET Nat /\ "ascending" \in Orders
  <2>1. IsFiniteSet(1..n)  BY FS_Interval
  <2>2. IsFiniteSet(K)  BY <2>1, FS_Subset
  <2>3. K \in SUBSET Nat /\ "ascending" \in Orders  BY DEF Orders
  <2> QED  BY <2>2, <2>3, FS_CardinalityType
<1>2. f \in Seq(K) /\ Len(f) = c /\ \A k \in K : f[Rank(K, "ascending", k) + 1] = k
  BY <1>1, InOrderIs
<1>3. \A k \in K : Rank(K, "ascending", k) \in 0..(c - 1)  BY <1>1, RankOrders
<1> HIDE DEF c
<1>4. AtPlaces(list, K) = [j \in 1..c |-> list[f[j]]]  BY DEF AtPlaces, c
<1> HIDE DEF f
<1>5. \A j \in 1..c : f[j] \in K  BY <1>2
<1>6. \A j \in 1..c : list[f[j]] \in S  BY <1>5
<1>7. AtPlaces(list, K) \in Seq(S) /\ Len(AtPlaces(list, K)) = c /\ DOMAIN AtPlaces(list, K) = 1..c
  BY <1>1, <1>4, <1>6
<1>8. ASSUME NEW k \in K PROVE \E j \in 1..c : f[j] = k
  <2>1. Rank(K, "ascending", k) + 1 \in 1..c  BY <1>1, <1>3
  <2> QED  BY <1>2, <2>1
<1>9. Elements(AtPlaces(list, K)) = {list[i] : i \in K}
  <2>1. Elements(AtPlaces(list, K)) = {list[f[j]] : j \in 1..c}
    BY <1>4, <1>7 DEF Elements
  <2> QED  BY <1>5, <1>8, <2>1
<1>10. AtPlaces(list, {}) = <<>>
  <2>1. Cardinality({}) = 0  BY FS_EmptySet
  <2>2. 1..0 = {}  OBVIOUS
  <2> QED  BY <2>1, <2>2 DEF AtPlaces
<1> QED  BY <1>7, <1>9, <1>10 DEF c

\* A later place comes last.
LEMMA AtLaterPlace ==
  ASSUME NEW S, NEW n \in Nat, NEW list \in [1..n -> S], NEW K \in SUBSET (1..n),
         NEW m \in 1..n, \A i \in K : i < m
  PROVE  AtPlaces(list, K \cup {m}) = Append(AtPlaces(list, K), list[m])
<1> DEFINE L == K \cup {m}
           o == "ascending"
           f == InOrder(K, o)
           g == InOrder(L, o)
           c == Cardinality(K)
           x == AtPlaces(list, K)
           y == AtPlaces(list, L)
<1>1. /\ IsFiniteSet(K) /\ c \in Nat /\ K \in SUBSET Nat
      /\ IsFiniteSet(L) /\ L \in SUBSET Nat /\ L \in SUBSET (1..n)
      /\ Cardinality(L) = c + 1 /\ o \in Orders
  <2>1. IsFiniteSet(1..n)  BY FS_Interval
  <2>2. m \notin K  BY SMT
  <2>3. IsFiniteSet(K) /\ c \in Nat  BY <2>1, FS_Subset, FS_CardinalityType
  <2> QED  BY <2>2, <2>3, FS_AddElement DEF Orders
<1>2. /\ f \in Seq(K) /\ Len(f) = c
      /\ \A j \in 1..c : Rank(K, o, f[j]) = j - 1
      /\ \A k \in L : g[Rank(L, o, k) + 1] = k
  BY <1>1, InOrderIs
<1>3. \A k \in K : Rank(L, o, k) = Rank(K, o, k)
  <2>1. ASSUME NEW k \in K PROVE {i \in L : Before(o, i, k)} = {i \in K : Before(o, i, k)}
    <3>1. ~Before(o, m, k) /\ k \in Int /\ m \in Int  BY DEF Before
    <3> QED  BY <3>1
  <2> QED  BY <2>1 DEF Rank
<1>4. Rank(L, o, m) = c
  <2>1. {i \in L : Before(o, i, m)} = K
    <3>1. ~Before(o, m, m) /\ \A i \in K : Before(o, i, m)  BY DEF Before
    <3> QED  BY <3>1
  <2> QED  BY <2>1 DEF Rank
<1>5. \A j \in 1..c : g[j] = f[j]
  <2> SUFFICES ASSUME NEW j \in 1..c PROVE g[j] = f[j]
    OBVIOUS
  <2> HIDE DEF c, f, g, L
  <2>1. f[j] \in K  BY <1>2
  <2>2. Rank(L, o, f[j]) = j - 1 /\ f[j] \in L  BY <1>2, <1>3, <2>1 DEF L
  <2>3. g[j - 1 + 1] = f[j]  BY <1>2, <2>2
  <2>4. j - 1 + 1 = j  OBVIOUS
  <2> QED  BY <2>3, <2>4
<1>6. g[c + 1] = m  BY <1>2, <1>4
<1>7. /\ x \in Seq(S) /\ Len(x) = c /\ y \in Seq(S) /\ Len(y) = c + 1
      /\ \A j \in 1..c : x[j] = list[f[j]]
      /\ \A j \in 1..(c + 1) : y[j] = list[g[j]]
  <2>1. x \in Seq(S) /\ Len(x) = c  BY AtPlacesIs
  <2>2. y \in Seq(S) /\ Len(y) = c + 1  BY <1>1, AtPlacesIs
  <2>3. x = [j \in 1..c |-> list[f[j]]]  BY DEF AtPlaces
  <2>4. y = [j \in 1..(c + 1) |-> list[g[j]]]  BY <1>1 DEF AtPlaces
  <2> HIDE DEF x, y, c, f, g
  <2> QED  BY <2>1, <2>2, <2>3, <2>4
<1> HIDE DEF x, y, c, f, g
<1>8. /\ Append(x, list[m]) \in Seq(S) /\ Len(Append(x, list[m])) = c + 1
      /\ \A j \in 1..c : Append(x, list[m])[j] = x[j]
      /\ Append(x, list[m])[c + 1] = list[m]
  <2>1. list[m] \in S  OBVIOUS
  <2> QED  BY <1>7, <2>1, AppendProperties
<1>9. ASSUME NEW j \in 1..(c + 1) PROVE y[j] = Append(x, list[m])[j]
  <2>1. j \in 1..c \/ j = c + 1  BY <1>1
  <2>2. CASE j \in 1..c  BY <1>5, <1>7, <1>8, <2>2
  <2>3. CASE j = c + 1  BY <1>6, <1>7, <1>8, <2>3
  <2> QED  BY <2>1, <2>2, <2>3
<1>10. y = Append(x, list[m])
  BY <1>7, <1>8, <1>9, SeqEqual
<1> QED  BY <1>10 DEF x, y
\* What FoldLeft computes with, for the subsets of the places of the list.
IsFilter(it, list, status, filters) ==
  it = [s \in SUBSET DOMAIN list |->
          IF s = {} THEN <<>>
          ELSE LET m == Max(s)
               IN  IF status[list[m]] \in filters THEN Append(it[s \ {m}], list[m])
                   ELSE it[s \ {m}]]

LEMMA FoldIsFilter ==
  ASSUME NEW list, NEW status, NEW filters, NEW it, IsFilter(it, list, status, filters)
  PROVE  \E jt : /\ IsFilter(jt, list, status, filters)
                 /\ Filtered(list, status, filters) = jt[DOMAIN list]
  BY DEF Filtered, FoldLeft, MapThenFoldSet, IsFilter

LEMMA LastPlace ==
  ASSUME NEW n \in Nat, NEW s \in SUBSET (1..n), s # {}
  PROVE  Max(s) \in s /\ \A i \in s : Max(s) >= i
  BY Lists!LastPosition DEF Max

LEMMA KeptIsFilter ==
  ASSUME NEW S, NEW n \in Nat, NEW list \in [1..n -> S], NEW status, NEW filters
  PROVE  IsFilter([s \in SUBSET (1..n) |-> AtPlaces(list, Kept(list, status, filters, s))],
                  list, status, filters)
<1> DEFINE it == [s \in SUBSET (1..n) |-> AtPlaces(list, Kept(list, status, filters, s))]
           passes(m) == status[list[m]] \in filters
<1>1. ASSUME NEW s \in SUBSET (1..n)
      PROVE  it[s] = IF s = {} THEN <<>>
                     ELSE LET m == Max(s)
                          IN  IF passes(m) THEN Append(it[s \ {m}], list[m]) ELSE it[s \ {m}]
  <2>1. CASE s = {}
    <3>1. Kept(list, status, filters, s) = {}  BY <2>1 DEF Kept
    <3>2. it[s] = <<>>  BY <3>1, AtPlacesIs
    <3> QED  BY <2>1, <3>2
  <2>2. CASE s # {}
    <3> DEFINE m == Max(s)
    <3>1. m \in s /\ \A i \in s : m >= i  BY <2>2, LastPlace
    <3> HIDE DEF m
    <3> DEFINE r == s \ {m}
               K == Kept(list, status, filters, r)
    <3>2. m \in 1..n /\ r \in SUBSET (1..n) /\ K \in SUBSET (1..n)  BY <3>1 DEF Kept
    <3>3. ASSUME NEW i \in K PROVE i < m
      <4>1. m >= i /\ i # m /\ i \in Int /\ m \in Int  BY <3>1 DEF Kept
      <4> QED  BY <4>1
    <3>4. Kept(list, status, filters, s) = IF passes(m) THEN K \cup {m} ELSE K
      BY <3>1 DEF Kept
    <3>5. it[s] = AtPlaces(list, IF passes(m) THEN K \cup {m} ELSE K) /\ it[r] = AtPlaces(list, K)
      BY <3>2, <3>4
    <3> HIDE DEF K, r, it
    <3>6. AtPlaces(list, K \cup {m}) = Append(AtPlaces(list, K), list[m])
      BY <3>2, <3>3, AtLaterPlace
    <3>7. it[s] = IF passes(m) THEN Append(it[r], list[m]) ELSE it[r]
      BY <3>5, <3>6
    <3> QED  BY <2>2, <3>7 DEF m, r
  <2> QED  BY <2>1, <2>2
<1>2. DOMAIN list = 1..n  OBVIOUS
<1> HIDE DEF it
<1>3. it = [s \in SUBSET (1..n) |-> it[s]]  BY DEF it
<1>4. it = [s \in SUBSET (1..n) |->
              IF s = {} THEN <<>>
              ELSE LET m == Max(s)
                   IN  IF passes(m) THEN Append(it[s \ {m}], list[m]) ELSE it[s \ {m}]]
  BY <1>1, <1>3, Zenon
<1>5. IsFilter(it, list, status, filters)  BY <1>2, <1>4 DEF IsFilter
<1> QED  BY <1>5 DEF it

\* Two functions that satisfy the equation agree on the whole list.
LEMMA FilterUnique ==
  ASSUME NEW S, NEW n \in Nat, NEW list \in [1..n -> S], NEW status, NEW filters,
         NEW it, NEW jt, IsFilter(it, list, status, filters), IsFilter(jt, list, status, filters)
  PROVE  it[1..n] = jt[1..n]
<1>1. ASSUME NEW g, IsFilter(g, list, status, filters)
      PROVE  /\ g[1..0] = <<>>
             /\ \A k \in 1..n : g[1..k] = IF status[list[k]] \in filters
                                          THEN Append(g[1..(k - 1)], list[k]) ELSE g[1..(k - 1)]
  <2>1. DOMAIN list = 1..n  OBVIOUS
  <2>2. \A s \in SUBSET (1..n) :
          g[s] = IF s = {} THEN <<>>
                 ELSE LET m == Max(s)
                      IN  IF status[list[m]] \in filters THEN Append(g[s \ {m}], list[m])
                          ELSE g[s \ {m}]
    BY <1>1, <2>1 DEF IsFilter
  <2>3. 1..0 \in SUBSET (1..n) /\ 1..0 = {}  OBVIOUS
  <2>4. g[1..0] = <<>>  BY <2>2, <2>3
  <2>5. ASSUME NEW k \in 1..n
        PROVE  g[1..k] = IF status[list[k]] \in filters
                         THEN Append(g[1..(k - 1)], list[k]) ELSE g[1..(k - 1)]
    <3>1. 1..k \in SUBSET (1..n) /\ 1..k # {} /\ k \in 1..k
      <4>1. k \in 1..k /\ \A i \in 1..k : i \in 1..n  OBVIOUS
      <4> QED  BY <4>1
    <3>2. Max(1..k) \in 1..k /\ Max(1..k) >= k  BY <3>1, LastPlace
    <3>3. Max(1..k) = k  BY <3>2
    <3>4. (1..k) \ {k} = 1..(k - 1)  OBVIOUS
    <3>5. g[1..k] = LET m == Max(1..k)
                    IN  IF status[list[m]] \in filters THEN Append(g[(1..k) \ {m}], list[m])
                        ELSE g[(1..k) \ {m}]
      BY <2>2, <3>1, Zenon
    <3> QED  BY <3>3, <3>4, <3>5, Zenon
  <2> QED  BY <2>4, <2>5
<1>2. ASSUME NEW k \in 1..n, it[1..(k - 1)] = jt[1..(k - 1)] PROVE it[1..k] = jt[1..k]
  <2>1. it[1..k] = IF status[list[k]] \in filters
                   THEN Append(it[1..(k - 1)], list[k]) ELSE it[1..(k - 1)]
    BY <1>1, Zenon
  <2>2. jt[1..k] = IF status[list[k]] \in filters
                   THEN Append(jt[1..(k - 1)], list[k]) ELSE jt[1..(k - 1)]
    BY <1>1, Zenon
  <2> QED  BY <1>2, <2>1, <2>2, SMT
<1> DEFINE B == {k \in 1..n : it[1..k] # jt[1..k]}
<1>3. CASE B # {}
  <2>1. PICK k \in B : \A i \in B : k <= i
    <3>1. B \in SUBSET (1..n)  OBVIOUS
    <3> HIDE DEF B
    <3> QED  BY <1>3, <3>1, Lists!FirstPosition
  <2>2. k \in 1..n /\ it[1..k] # jt[1..k]  OBVIOUS
  <2>3. k - 1 \notin B
    <3>1. ~(k <= k - 1)  BY <2>2
    <3> QED  BY <2>1, <3>1
  <2>4. CASE k = 1
    <3>1. k - 1 = 0  BY <2>4
    <3>2. it[1..(k - 1)] = jt[1..(k - 1)]  BY <1>1, <3>1
    <3> QED  BY <1>2, <2>2, <3>2
  <2>5. CASE k # 1
    <3>1. k - 1 \in 1..n  BY <2>2, <2>5
    <3>2. it[1..(k - 1)] = jt[1..(k - 1)]  BY <2>3, <3>1
    <3> QED  BY <1>2, <2>2, <3>2
  <2> QED  BY <2>4, <2>5
<1>4. CASE B = {}
  <2>1. CASE n = 0  BY <1>1, <2>1
  <2>2. CASE n # 0
    <3>1. n \in 1..n  BY <2>2
    <3> QED  BY <1>4, <3>1
  <2> QED  BY <2>1, <2>2
<1> QED  BY <1>3, <1>4

\* What the filter keeps of a list, and in which order.
LEMMA FilteredIs ==
  ASSUME NEW S, NEW n \in Nat, NEW list \in [1..n -> S], NEW status, NEW filters
  PROVE  Filtered(list, status, filters) = AtPlaces(list, Kept(list, status, filters, 1..n))
<1> DEFINE it == [s \in SUBSET (1..n) |-> AtPlaces(list, Kept(list, status, filters, s))]
<1>1. IsFilter(it, list, status, filters)  BY KeptIsFilter
<1>2. it[1..n] = AtPlaces(list, Kept(list, status, filters, 1..n))
  <2>1. 1..n \in SUBSET (1..n)  OBVIOUS
  <2> QED  BY <2>1
<1> HIDE DEF it
<1>3. PICK jt : /\ IsFilter(jt, list, status, filters)
                /\ Filtered(list, status, filters) = jt[DOMAIN list]
  BY <1>1, FoldIsFilter
<1>4. DOMAIN list = 1..n  OBVIOUS
<1>5. it[1..n] = jt[1..n]  BY <1>1, <1>3, FilterUnique
<1> QED  BY <1>2, <1>3, <1>4, <1>5
\* The filter keeps what passes, in the order of the list.
LEMMA FilteredOrder ==
  ASSUME NEW S \in SUBSET Nat, NEW n \in Nat, NEW list \in [1..n -> S],
         \A i, j \in DOMAIN list : i < j => list[i] > list[j],
         NEW status, NEW filters
  PROVE  LET some == Filtered(list, status, filters)
         IN  /\ Elements(some) = {b \in Elements(list) : status[b] \in filters}
             /\ \A i, j \in DOMAIN some : i < j => some[i] > some[j]
<1> DEFINE o == "ascending"
<1>1. PICK K \in SUBSET (1..n) : K = Kept(list, status, filters, 1..n)  BY DEF Kept
<1>2. Filtered(list, status, filters) = AtPlaces(list, K)  BY <1>1, FilteredIs
<1>3. PICK c \in Nat : c = Cardinality(K) /\ K \in SUBSET Nat /\ IsFiniteSet(K) /\ o \in Orders
  <2>1. IsFiniteSet(1..n)  BY FS_Interval
  <2>2. IsFiniteSet(K)  BY <2>1, FS_Subset
  <2>3. K \in SUBSET Nat /\ o \in Orders  BY DEF Orders
  <2> QED  BY <2>2, <2>3, FS_CardinalityType
<1>4. PICK some : some = AtPlaces(list, K)  OBVIOUS
<1>5. Elements(some) = {list[i] : i \in K} /\ some \in Seq(S) /\ Len(some) = c
  BY <1>3, <1>4, AtPlacesIs
<1>6. Elements(some) = {b \in Elements(list) : status[b] \in filters}
  <2>1. Elements(list) = {list[i] : i \in 1..n}  BY DEF Elements
  <2>2. K = {i \in 1..n : status[list[i]] \in filters}  BY <1>1 DEF Kept
  <2> QED  BY <1>5, <2>1, <2>2
<1>7. ASSUME NEW i \in DOMAIN some, NEW j \in DOMAIN some, i < j PROVE some[i] > some[j]
  <2>1. i \in 1..c /\ j \in 1..c  BY <1>5, LenProperties
  <2>2. PICK f : f = InOrder(K, o)  OBVIOUS
  <2>3. some[i] = list[f[i]] /\ some[j] = list[f[j]]
    BY <1>3, <1>4, <2>1, <2>2 DEF AtPlaces
  <2>4. f \in Seq(K) /\ Len(f) = c /\ \A k \in 1..c : Rank(K, o, f[k]) = k - 1
    BY <1>3, <2>2, InOrderIs
  <2>5. f[i] \in K /\ f[j] \in K /\ Rank(K, o, f[i]) < Rank(K, o, f[j])
    BY <1>7, <2>1, <2>4
  <2>6. Before(o, f[i], f[j])  BY <1>3, <2>5, RankOrders
  <2>7. f[i] < f[j] /\ f[i] \in DOMAIN list /\ f[j] \in DOMAIN list
    BY <2>5, <2>6 DEF Before
  <2> QED  BY <2>3, <2>7
<1> QED  BY <1>2, <1>4, <1>6, <1>7

\* Whatever filters a caller of GET /deals gives, the reply shows exactly the
\* bids in one of these states among the newest MaxListLimit, the newest first.
THEOREM ShownDeals ==
  ASSUME NEW filters \in SUBSET Store!Statuses
  PROVE  LET shown == DealsByStatus(StatusOf, Present, filters, Store!Statuses).bids
         IN  /\ Elements(shown) = {b \in Present :
                                     /\ filters = {} \/ StatusOf[b] \in filters
                                     /\ Cardinality({c \in Present : c > b}) < MaxListLimit}
             /\ \A i, j \in DOMAIN shown : i < j => shown[i] > shown[j]
<1> DEFINE S    == Present
           list == ListBids(S, Query(-1))
           n    == Len(list)
           all  == {b \in S : Cardinality({c \in S : c > b}) < MaxListLimit}
           some == Filtered(list, StatusOf, filters)
<1>1. S \in SUBSET Nat /\ IsFiniteSet(S)
  <2>1. S \in SUBSET Bids  BY DEF Present
  <2> QED  BY <2>1, BidsAssumption, FS_Subset
<1>2. /\ Elements(list) = all /\ list \in Seq(S)
      /\ \A i, j \in DOMAIN list : i < j => list[i] > list[j]
  <2>1. SetDefaults(-1) = MaxListLimit /\ SetDefaults(-1) \in Nat
    BY LimitsAssumption DEF SetDefaults
  <2> HIDE DEF S
  <2> QED  BY <1>1, <2>1, FirstPage
<1>3. DealsByStatus(StatusOf, S, filters, Store!Statuses).bids = IF filters = {} THEN list ELSE some
  BY DEF DealsByStatus
<1> HIDE DEF list, S
<1>4. n \in Nat /\ DOMAIN list = 1..n /\ list \in [1..n -> S]
  BY <1>2, LenProperties
<1>5. CASE filters = {}
  BY <1>2, <1>3, <1>5 DEF S
<1>6. CASE filters # {}
  <2>1. /\ Elements(some) = {b \in Elements(list) : StatusOf[b] \in filters}
        /\ \A i, j \in DOMAIN some : i < j => some[i] > some[j]
    BY <1>1, <1>2, <1>4, FilteredOrder
  <2> HIDE DEF some, all
  <2>6. {b \in all : StatusOf[b] \in filters}
          = {b \in S : /\ filters = {} \/ StatusOf[b] \in filters
                       /\ Cardinality({k \in S : k > b}) < MaxListLimit}
    BY <1>6 DEF all
  <2> QED  BY <1>2, <1>3, <1>6, <2>1, <2>6 DEF S
<1> QED  BY <1>5, <1>6

\* GET /deals with a filter and GET /deals/<id> agree on which bids are
\* finalized, as far as the list of the former reaches.
THEOREM DealsDoAgree == Spec => []DealsAgree
<1>1. "finalized" \in Store!Statuses  BY DEF Store!Statuses
<1>2. \A b \in Present : DealsById(Present, b).bids = <<b>>  BY DEF DealsById
<1>3. DealsAgree
  <2> DEFINE shown == DealsByStatus(StatusOf, Present, {"finalized"}, Store!Statuses).bids
  <2>1. Elements(shown) = {b \in Present :
                             /\ {"finalized"} = {} \/ StatusOf[b] \in {"finalized"}
                             /\ Cardinality({c \in Present : c > b}) < MaxListLimit}
    BY <1>1, ShownDeals, Zenon
  <2> HIDE DEF shown
  <2>2. \A b \in Present :
          b \in Elements(shown) <=>
            /\ DealsById(Present, b).bids = <<b>>
            /\ StatusOf[b] = "finalized"
            /\ Cardinality({c \in Present : c > b}) < MaxListLimit
    BY <1>2, <2>1
  <2> QED  BY <2>2 DEF DealsAgree, shown
<1> QED  BY <1>3, PTL
=============================================================================
