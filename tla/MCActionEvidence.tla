-------------------------- MODULE MCActionEvidence --------------------------
(* An action starts from every state of an app that loads, interrupts, fails  *)
(* for good and asks its user to sign in.                                     *)
EXTENDS ActionEvidence, TLC
CONSTANTS tap, wait, launch, unseen, home, detail, detailMore, loading, slow, dialog, signin, offline

MCIntents == {tap, wait, launch}
MCWaits == {wait}
MCLaunches == {launch}
MCTexted == {tap, wait}
MCViews == {unseen, home, detail, detailMore, loading, slow, dialog, signin, offline}
MCFollows == (home :> {detail, loading, dialog}) @@ (detail :> {detailMore, dialog})
             @@ (detailMore :> {slow}) @@ (loading :> {detail, offline, signin})
             @@ (slow :> {detail}) @@ (dialog :> {home, detail}) @@ (signin :> {home}) @@ (offline :> {}) @@ (unseen :> {})
MCReadiness == [v \in MCViews |-> CASE v = loading -> "waiting" [] v = slow -> "degraded"
                                    [] v = offline -> "terminal" [] v \in {unseen, dialog, signin} -> "other"
                                    [] OTHER -> "ready"]
MCDrifts == {p \in MCViews \X MCViews : p[1] # p[2] /\ ~(p[1] \in {detail, detailMore} /\ p[2] \in {detail, detailMore})}
MCRuleAttempts == {1, 2}
=============================================================================
