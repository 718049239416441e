--------------------------- MODULE MCCivicOutcome ---------------------------
(* Model checking of CivicOutcome on a community of three: two actors alike,  *)
(* and one who loses and regains access, after a second ballot.               *)
EXTENDS CivicOutcome, TLC

CONSTANTS a1, a2, a3

MCActors == {a1, a2, a3}
MCVolatile == {a3}
SecondBallot == {2}
Alike == Permutations(MCActors \ MCVolatile)

\* Bound: of the records that no other write looks at there are few, one update
\* besides the claim and the evidence of two.
FewRecords == Cardinality(updates \ Responsible) <= 1 /\ Cardinality(evidence) <= 2

MCSpec == Init /\ [][Next /\ FewRecords']_vars
=============================================================================
