----------------------------- MODULE PriceRules -----------------------------
(***************************************************************************)
(* Resolving prices for one auction (service/pricing/cid_gravity.go): what *)
(* clientRules.PricesFor does with a set of rules once it has one.         *)
(*                                                                         *)
(* A rulebook is what the CID gravity API returns for a client.  Whether   *)
(* the size and duration windows of a rule include the auction is data the *)
(* caller decides; here a rule says so in the field covers.                *)
(***************************************************************************)
EXTENDS Integers, SequencesExt

NoPrice == -1   \* VerifiedPriceValid or UnverifiedPriceValid is false

Rule     == [verified: {"true", "false", "any"}, covers: BOOLEAN, price: Int \ {NoPrice}]
Rulebook == [limit: Int, rate: Int, blocked: BOOLEAN, maintenance: BOOLEAN, rules: Seq(Rule)]

VerifiedKinds    == {"true", "any"}
UnverifiedKinds  == {"false", "any"}
ForVerified(r)   == r.verified \in VerifiedKinds
ForUnverified(r) == r.verified \in UnverifiedKinds

\* The rulebook allows no deal now, whatever its rules say.
RateLimited(book) == book.limit > 0 /\ book.rate >= book.limit
Refuses(book)     == RateLimited(book) \/ book.blocked \/ book.maintenance

NoPrices == [allow |-> FALSE, verified |-> NoPrice, unverified |-> NoPrice]
Unset     == [allow |-> TRUE, verified |-> NoPrice, unverified |-> NoPrice]

SetVerified(p, r)   == ForVerified(r) /\ p.verified = NoPrice
SetUnverified(p, r) == ForUnverified(r) /\ p.unverified = NoPrice

MutantApply(p, r) ==                 \* a later rule replaces an earlier match
  IF ~r.covers THEN p
  ELSE IF ForVerified(r) THEN [p EXCEPT !.verified = r.price]
  ELSE IF SetUnverified(p, r) THEN [p EXCEPT !.unverified = r.price]
  ELSE p
MutantApplyUnchecked(p, r) ==        \* the else-branch takes rules of any kind
  IF ~r.covers THEN p
  ELSE IF SetVerified(p, r) THEN [p EXCEPT !.verified = r.price]
  ELSE IF p.unverified = NoPrice THEN [p EXCEPT !.unverified = r.price]
  ELSE p

\* One rule of the loop: it sets at most one of the two prices, so a rule for
\* "any" deal sets the unverified price only when the verified one is set.
Apply(p, r) ==
  IF ~r.covers THEN p
  ELSE IF SetVerified(p, r) THEN [p EXCEPT !.verified = r.price]
  ELSE IF SetUnverified(p, r) THEN [p EXCEPT !.unverified = r.price]
  ELSE p

\* The loop returns early once both prices are set; Apply changes none then.
Resolve(book) ==
  IF Refuses(book) THEN NoPrices
  ELSE FoldLeft(Apply, Unset, book.rules)

-----------------------------------------------------------------------------
\* The positions of the covering rules for some kinds of deals, and what the
\* first rule at some positions quotes.
Quotes(book, kinds) ==
  {i \in DOMAIN book.rules : book.rules[i].covers /\ book.rules[i].verified \in kinds}

FirstPrice(book, at) == IF at = {} THEN NoPrice ELSE book.rules[Min(at)].price
=============================================================================
