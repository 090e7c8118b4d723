------------------------------ MODULE MCReplay ------------------------------
(* A session of three actions: a tap with a resource id, one with a text only, *)
(* one that pays, and a back, which is no replay-safe type; a page that says   *)
(* that the app is offline, under a title that makes no screen id.             *)
EXTENDS Replay, TLC
CONSTANTS open, search, pay, back, home, detail, offline, unseen, noScreen

MCViews == {home, detail, offline, unseen}
MCScreen == (home :> "list") @@ (detail :> "checkout") @@ (offline :> noScreen) @@ (unseen :> "canned")
MCPhase == (home :> "ready") @@ (detail :> "ready") @@ (offline :> "ready") @@ (unseen :> "unknown")
MCReadiness == (home :> "ready") @@ (detail :> "ready") @@ (offline :> "terminal") @@ (unseen :> "unknown")
=============================================================================
