---------------------- MODULE MCSessionOrchestration ----------------------
(* Small instances of SessionOrchestration.                                *)
EXTENDS SessionOrchestration, TLC

CONSTANTS c1, c2, c3, h1, h2, s1, s2, d1, d2

MCOneHost == [c \in Calls |-> h1]
MCTwoHosts == [c \in Calls |-> IF c = c1 THEN h1 ELSE h2]
MCOwnHost == [c \in Calls |-> c]
MCNoLegacy == {}

Symmetry == Permutations(Calls) \cup Permutations(Sessions)
SessionSymmetry == Permutations(Sessions)
=============================================================================
