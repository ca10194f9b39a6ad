------------------------------ MODULE MCBidbot ------------------------------
(***************************************************************************)
(* Model-checking instances of the service over the store and the limiter. *)
(***************************************************************************)
EXTENDS Bidbot, TLC

CONSTANTS w1, h1, v1, v2

\* Every deal has the size of one token.
UnitSizes == [b \in Bids |-> 1]

\* Once every bid is exempt, the invariants have nothing left to say.
SomeBidPlain == Plain # {}

\* Bound: the process ends only if there has been one bid at most.
EndsWithOneBid == boots = MaxBoots \/ phase # "running" => Cardinality(known) <= 1

\* Bounds on what follows a race, or an outcome that was not saved: no restart,
\* no other job for the raced bid, no other bid for the one left behind.
Stranded(b) == /\ Status(b) = "fetching_data" /\ Serving(b) = {}
               /\ \A i \in DOMAIN jobCh : Store!Pointee(jobCh[i]).id # b

RacesAreBrief ==
  raced # {} => /\ boots < MaxBoots /\ phase = "running" /\ now < MaxTime
                /\ \A i \in DOMAIN jobCh : Store!Pointee(jobCh[i]).id \notin raced
FaultsWithOneBid == (\E b \in Bids : Stranded(b)) => Cardinality(known) <= 1

Bounds == SomeBidPlain /\ EndsWithOneBid /\ RacesAreBrief /\ FaultsWithOneBid

Symmetry == Permutations(Winners)
=============================================================================
