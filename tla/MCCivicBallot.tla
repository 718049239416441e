--------------------------- MODULE MCCivicBallot ---------------------------
(* Model checking of CivicBallot on a small community.                     *)
EXTENDS CivicBallot, TLC

CONSTANTS a1, a2, a3

MCActors == {a1, a2, a3}
TwoActors == {a1, a3}
NoVolatile == {}
OneVolatile == {a3}
AllAlike == Permutations(MCActors)
BothAlike == Permutations(TwoActors)
\* a1 and a2 are interchangeable; a3 is not when its access changes.
TwoAlike == Permutations({a1, a2})
=============================================================================
