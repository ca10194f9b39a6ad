---------------------------- MODULE MCCIDGravity ----------------------------
(***************************************************************************)
(* Model-checking instances of the cached pricing rules.                   *)
(***************************************************************************)
EXTENDS CIDGravity, TLC

CONSTANTS c1, c2

SomeBook(limit, rate, blocked, maintenance, list) ==
  [limit |-> limit, rate |-> rate, blocked |-> blocked,
   maintenance |-> maintenance, rules |-> list]

\* The position of a rule is its price: different for every rule of a book.
Lists(n) ==
  {[i \in 1..k |-> [verified |-> kinds[i], covers |-> covers[i], price |-> i]] :
     <<k, kinds, covers>> \in UNION {{k} \X [1..k -> {"true", "false", "any"}]
                                      \X [1..k -> BOOLEAN] : k \in 0..n}}

\* Every list of up to two rules, and the ways to refuse a deal.
OpenBooks == {SomeBook(0, 0, FALSE, FALSE, list) : list \in Lists(2)}
ShutBooks == {SomeBook(2, 2, FALSE, FALSE, <<>>), SomeBook(0, 3, TRUE, FALSE, <<>>),
              SomeBook(2, 1, FALSE, TRUE, <<>>)}
AllBooks  == OpenBooks \cup ShutBooks
OneBook   == {SomeBook(0, 0, FALSE, FALSE, <<>>)}
=============================================================================
