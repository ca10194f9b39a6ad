------------------------- MODULE BidStoreRefinement -------------------------
(***************************************************************************)
(* The bid store implements BidLifecycle.                                  *)
(***************************************************************************)
EXTENDS BidStoreInv

\* What a bid amounts to; of a bid hit by a race nothing is promised.
Life(b) == IF b \in raced THEN [status |-> "lost", imported |-> FALSE]
           ELSE [status |-> Status(b), imported |-> imports[b] = 1]
Lives == [b \in Bids |-> Life(b)]

Lifecycle == INSTANCE BidLifecycle WITH life <- Lives

\* Workers, transactions, GC and recovery together do to the stored bids and to
\* Lotus only what the life cycle of a bid allows: no bid is finalized whose
\* data was not imported, and none is given up or downloaded again whose data
\* was, until the process ends (fetchOne, fail, enqueueDataURI).
ImplementsLifecycle == Lifecycle!Spec
=============================================================================
