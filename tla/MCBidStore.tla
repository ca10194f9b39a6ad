----------------------------- MODULE MCBidStore -----------------------------
(***************************************************************************)
(* Model-checking instances of the bid store.                              *)
(***************************************************************************)
EXTENDS BidStoreRefinement, TLC

CONSTANTS w1, w2, h1, h2

\* Once every bid is exempt, the invariants have nothing left to say.
SomeBidIntact == raced # Bids
NoneRaced == raced = {}

Symmetry == Permutations({w1, w2}) \cup Permutations({h1, h2})
=============================================================================
