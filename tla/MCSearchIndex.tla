--------------------------- MODULE MCSearchIndex ----------------------------
(***************************************************************************)
(* Instance of SearchIndex for TLC: two packages with two entities and     *)
(* one, a query that matches names in both and a member in the first, one  *)
(* that matches members only, so that both sides of the results may be the *)
(* shorter or the empty one, and one that makes no regular expression.     *)
(***************************************************************************)
EXTENDS SearchIndex

CONSTANTS p1, p2, a, b, c, q1, q2, q3

MCPackages == <<p1, p2>>
MCEntities == (p1 :> <<a, b>>) @@ (p2 :> <<c>>)
MCNameMatches == (q1 :> {a, c}) @@ (q2 :> {})
MCMemberMatches == (q1 :> {b}) @@ (q2 :> {a, b})

=============================================================================
