---------------------------- MODULE MCDealFiles ----------------------------
(***************************************************************************)
(* Model-checking instances of the deal data files.                        *)
(***************************************************************************)
EXTENDS DealFiles, TLC

CONSTANTS w1, h1, r1, r2

\* The invariants have nothing left to say once both bids that may get a
\* proposal are exempt.
SomeBidIntact == ~({1, 2} \subseteq raced)

Known == {b \in Bids : Store!Status(b) # "unspecified"}

\* Bound: the third bid is there only before the first proposal arrives.
ThirdBid ==
  3 \in Known =>
    /\ \A a \in Store!Txns : ~Store!Open(a)
    /\ \A b \in Bids : Store!Status(b) \in Store!Absent \cup
                                            {"submitted", "awaiting_proposal"}

\* Bound: the HTTP API downloads in the first life of the process, as long
\* as there has been one bid only.
ApiWithOneBid ==
  asked # {} \/ file[NoBidID] # "none" => boots = 1 /\ Cardinality(Known) <= 1

\* Bound: the process is stopped only if there has been one bid only.
StopWithOneBid == boots = MaxBoots \/ phase # "running" => Cardinality(Known) <= 1

Bounds == SomeBidIntact /\ ThirdBid /\ ApiWithOneBid /\ StopWithOneBid
=============================================================================
