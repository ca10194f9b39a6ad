---------------------------- MODULE BidLifecycle ----------------------------
(***************************************************************************)
(* What the bid store promises, without its indexes, channels, workers and *)
(* transactions: one status per bid, and whether the data of the bid has   *)
(* been imported to Lotus since the process last started.  A bid is        *)
(* finalized because its data was imported, and given up or queued again   *)
(* only when it was not.                                                   *)
(***************************************************************************)
CONSTANT Bids

VARIABLE life   \* per bid its status and whether its data has been imported

Lost == [status |-> "lost", imported |-> FALSE]   \* nothing is promised any more

Init == life = [b \in Bids |-> [status |-> "unspecified", imported |-> FALSE]]

Move(b, from, to) ==
  /\ life[b].status \in from
  /\ life' = [life EXCEPT ![b].status = to]

Submit(b)      == Move(b, {"unspecified"}, "submitted")
Win(b)         == Move(b, {"submitted"}, "awaiting_proposal")
FinalizeDeal(b) == Move(b, {"awaiting_proposal"}, "finalized")
Discard(b)     == Move(b, {"awaiting_proposal"}, "removed")
Fetch(b)       == Move(b, {"awaiting_proposal", "queued_data"}, "fetching_data")
Queue(b)       == Move(b, {"awaiting_proposal"}, "queued_data")
Finalize(b)    == life[b].imported /\ Move(b, {"fetching_data"}, "finalized")
Abandon(b)     == ~life[b].imported /\ Move(b, {"fetching_data"}, "errored")

\* An import may run ahead of the status that says that data is being fetched.
Import(b) ==
  /\ life[b].status \in {"awaiting_proposal", "queued_data", "fetching_data"}
  /\ ~life[b].imported
  /\ life' = [life EXCEPT ![b] = [status |-> @.status, imported |-> TRUE]]

\* Downloads that ended without an import, by failure or with the process,
\* several of them when the process starts.
Requeue(B) ==
  /\ \A b \in B : life[b].status = "fetching_data" /\ ~life[b].imported
  /\ life' = [b \in Bids |-> IF b \in B THEN [life[b] EXCEPT !.status = "queued_data"]
                             ELSE life[b]]

\* Imports are remembered by the process only.
Restart == life' = [b \in Bids |-> [status |-> life[b].status, imported |-> FALSE]]

Lose(B) == life' = [b \in Bids |-> IF b \in B THEN Lost ELSE life[b]]

Next ==
  \/ \E b \in Bids : \/ Submit(b) \/ Win(b) \/ FinalizeDeal(b) \/ Discard(b)
                     \/ Fetch(b) \/ Queue(b) \/ Import(b) \/ Finalize(b) \/ Abandon(b)
  \/ Restart
  \/ \E B \in SUBSET Bids : Requeue(B) \/ Lose(B)

Spec == Init /\ [][Next]_life
=============================================================================
