--------------------------- MODULE ExclusiveLock ---------------------------
(***************************************************************************)
(* What a lock made of a directory promises, with the directory abstracted *)
(* away: a user is inside the section of at most one key, nobody enters a  *)
(* section that is occupied, and a section whose user died is lost for     *)
(* good - nothing in the code breaks a lock whose creator is gone.         *)
(* Implemented by withDeviceLeaseLock (see LeaseCoordinator) and           *)
(* by acquireSessionLock (see SessionOrchestration).                       *)
(***************************************************************************)
CONSTANTS Users, Keys, Nowhere

VARIABLES
  inside,   \* the key whose section a user is in, or Nowhere
  lost      \* keys whose section was never left

vars == <<inside, lost>>

Init == inside = [u \in Users |-> Nowhere] /\ lost = {}

Occupied(k) == k \in lost \/ \E u \in Users : inside[u] = k

Enter(u, k) ==
  /\ inside[u] = Nowhere
  /\ ~Occupied(k)
  /\ inside' = [inside EXCEPT ![u] = k]
  /\ UNCHANGED lost

Exit(u) ==
  /\ inside[u] # Nowhere
  /\ inside' = [inside EXCEPT ![u] = Nowhere]
  /\ UNCHANGED lost

\* The users in U are gone, and what they were inside of is lost.
Lose(U) ==
  /\ inside' = [u \in Users |-> IF u \in U THEN Nowhere ELSE inside[u]]
  /\ lost' = lost \cup {k \in Keys : \E u \in U : inside[u] = k}

Next ==
  \/ \E u \in Users : Exit(u) \/ \E k \in Keys : Enter(u, k)
  \/ \E U \in SUBSET Users : Lose(U)

Spec == Init /\ [][Next]_vars
=============================================================================
