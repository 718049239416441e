------------------------ MODULE MCCivicTransactions ------------------------
(* Model checking of CivicTransactions on a few connections.               *)
EXTENDS CivicTransactions, TLC

CONSTANTS s1, s2, s3, a1, a2

TwoSessions == {s1, s2}
ThreeSessions == {s1, s2, s3}
MCActors == {a1, a2}
TwoAlike == Permutations(TwoSessions) \cup Permutations(MCActors)
ThreeAlike == Permutations(ThreeSessions) \cup Permutations(MCActors)
=============================================================================
