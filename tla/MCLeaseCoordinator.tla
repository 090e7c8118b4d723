------------------------ MODULE MCLeaseCoordinator ------------------------
(* A small instance of LeaseCoordinator: every call in a process of its own. *)
EXTENDS LeaseCoordinator, TLC

CONSTANTS c1, c2, c3, s1, s2, d1, d2

MCHostOf == [c \in Calls |-> c]
MCNoLegacy == {}
MCLegacy == {[owner |-> s1, state |-> "leased", heartbeat |-> 0]}

Symmetry == Permutations(Calls) \cup Permutations(Sessions)
=============================================================================
