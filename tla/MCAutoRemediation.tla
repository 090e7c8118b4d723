------------------------- MODULE MCAutoRemediation -------------------------
(* Small instances of AutoRemediation: calls of one process.               *)
EXTENDS AutoRemediation

CONSTANTS c1, c2, c3, h1, s1, d1

MCOneHost == [c \in Calls |-> h1]
MCNoLegacy == {}
=============================================================================
