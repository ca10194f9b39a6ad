------------------------------- MODULE BidList -------------------------------
(***************************************************************************)
(* Queries of the bid store (store.go, ListBids) and the /deals resource   *)
(* of the HTTP API (httpapi.go) that is answered with them.                *)
(***************************************************************************)
EXTENDS Integers, SequencesExt

CONSTANTS DefaultListLimit, MaxListLimit

NoOffset == 0     \* no bid has this id
Orders   == {"descending", "ascending"}

Lesser(m, n) == IF m < n THEN m ELSE n

SetDefaults(limit) ==
  CASE limit = -1              -> MaxListLimit
    [] limit <= 0 /\ limit # -1 -> DefaultListLimit
    [] limit > 0               -> Lesser(limit, MaxListLimit)

Before(order, j, k) == IF order = "descending" THEN j > k ELSE j < k

InOrder(keys, order) ==
  [i \in 1..Cardinality(keys) |->
     CHOOSE k \in keys : Cardinality({j \in keys : Before(order, j, k)}) = i - 1]

(* The keys from the offset on; the offset itself, or its successor when it  *)
(* has been deleted, is asked for with them and dropped from the list.       *)
FromOffset(keys, q) ==
  {k \in keys : \/ q.offset = NoOffset
                \/ k = q.offset \/ Before(q.order, q.offset, k)}

MutantListBids(keys, q) ==           \* drops the offset, but does not ask for one more
  LET found == InOrder(FromOffset(keys, q), q.order)
      list  == SubSeq(found, 1, Lesser(SetDefaults(q.limit), Len(found)))
  IN  IF q.offset # NoOffset /\ list # <<>> THEN Tail(list) ELSE list

ListBids(keys, q) ==
  LET found == InOrder(FromOffset(keys, q), q.order)
      limit == SetDefaults(q.limit) + (IF q.offset = NoOffset THEN 0 ELSE 1)
      list  == SubSeq(found, 1, Lesser(limit, Len(found)))
  IN  IF q.offset # NoOffset /\ list # <<>> THEN Tail(list) ELSE list

Query(limit) == [offset |-> NoOffset, order |-> "descending", limit |-> limit]

-----------------------------------------------------------------------------
MutantDealsByStatus(status, keys, filters, Statuses) ==   \* filters before the limit
  LET passing == {b \in keys : filters = {} \/ status[b] \in filters}
  IN  IF filters \subseteq Statuses
      THEN [code |-> 200, bids |-> ListBids(passing, Query(-1))]
      ELSE [code |-> 400, bids |-> <<>>]

Filtered(list, status, filters) ==
  FoldLeft(LAMBDA bids, b : IF status[b] \in filters THEN Append(bids, b) ELSE bids, <<>>, list)

(* GET /deals?status=... : the filters, which must name statuses, are applied *)
(* to the list, which is the longest that a query can return.                *)
DealsByStatus(status, keys, filters, Statuses) ==
  LET fullList == ListBids(keys, Query(-1))
  IN  IF filters \subseteq Statuses
      THEN [code |-> 200, bids |-> IF filters = {} THEN fullList ELSE Filtered(fullList, status, filters)]
      ELSE [code |-> 400, bids |-> <<>>]

\* GET /deals/<id> : an unknown id makes an empty list.
DealsById(keys, id) ==
  [code |-> 200, bids |-> IF id \in keys THEN <<id>> ELSE <<>>]
=============================================================================
