----------------------------- MODULE MCBidding -----------------------------
(***************************************************************************)
(* Model-checking instances of the daemon's start and its bidding.         *)
(***************************************************************************)
EXTENDS Bidding

CONSTANTS m1, m2

Host   == [dns |-> FALSE, ips |-> <<"ip">>, tcp |-> TRUE]
Named  == [dns |-> TRUE, ips |-> <<"none", "ip">>, tcp |-> TRUE]
NoPort == [dns |-> FALSE, ips |-> <<"ip">>, tcp |-> FALSE]

Size == [min |-> 0, max |-> 1]

Relaxed == [miner |-> Host, market |-> NoAddress, retries |-> 1, sealingLimit |-> 0,
            finalizeEarly |-> FALSE, window |-> 2, attempts |-> 1, ask |-> 0,
            verifiedAsk |-> 0, strict |-> FALSE, rules |-> TRUE,
            dealSize |-> Size, dealDuration |-> Size]
Strict  == [Relaxed EXCEPT !.market = Named, !.retries = 2, !.sealingLimit = 1, !.strict = TRUE]

\* Settings with which the daemon does not start.
Faulty == {[Relaxed EXCEPT !.miner = NoPort], [Relaxed EXCEPT !.retries = 0],
           [Relaxed EXCEPT !.dealDuration = [min |-> 1, max |-> 0]],
           [Relaxed EXCEPT !.window = 0]}

SomeConfigs == {Relaxed, Strict} \cup Faulty

\* An auction whose deadline can only be met early, one in which no bid can be
\* saved, and one that is over.
Timely == [ended |-> FALSE, size |-> 1, duration |-> 1, deadline |-> 2, cid |-> "valid"]
SomeOffers == {Timely, [Timely EXCEPT !.duration = 0, !.deadline = 0],
               [Timely EXCEPT !.ended = TRUE]}

AnyDeal == [verified |-> "any", covers |-> TRUE, price |-> 1]
Deals == [limit |-> 0, rate |-> 0, blocked |-> FALSE, maintenance |-> FALSE,
            rules |-> <<AnyDeal>>]
SomeBooks == {Deals, [Deals EXCEPT !.blocked = TRUE]}

SomeSummaries == {[proving |-> 1, committing |-> 1, other |-> 1],
                  [proving |-> 1, committing |-> 0, other |-> 1]}
=============================================================================
