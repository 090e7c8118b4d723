--------------------------- MODULE MCRecordedFlow ---------------------------
(* One user, and one recorder at a time.  On panels that report pixels at     *)
(* once: three actions, since two that interact need a third to be told       *)
(* apart; every event is given the last snapshot.  With a clock that is late  *)
(* or none, on panels of pixels and of a longer axis: two actions, and two    *)
(* snapshots more, of taps and drags.                                         *)
EXTENDS RecordedFlow, TLC
CONSTANTS login, home, field, other, button, window

MCScreens == {login, home}
MCElements == {field, other, button, window}
MCInputs == {field, other}
MCWeak == {window}
MCNoPoint == -1
MCWidth == 100

\* Pixels 11, 33 and 100 of the longer axis, a strong swipe from first to last; of pixels
\* the first two, a short drag apart.
MCPoints == {33, 100, 300}
MCElementAt ==
    (login :> [x \in 0..100 |-> IF x <= 20 THEN window ELSE IF x <= 50 THEN field ELSE button])
    @@ (home :> [x \in 0..100 |-> IF x <= 20 THEN button ELSE IF x <= 60 THEN other ELSE NoElement])
MCViewport == (login :> 100) @@ (home :> 60)   \* home: a dialog
MCGaps == {0, 2, 5}

Pixels == [button |-> "early", axes |-> {"x", "y"}, axis |-> 100, lag |-> 0]
Timely == {Pixels,
           [Pixels EXCEPT !.button = "none", !.axes = {"y"}],
           [Pixels EXCEPT !.button = "late"]}
Late == {[Pixels EXCEPT !.lag = NoLag], [Pixels EXCEPT !.axis = 300, !.lag = 2]}
MCDevices == Timely \cup Late

\* Bounds: what is done with which device, and how fast.
InScope == IF device \in Timely THEN shots' = << >> /\ now' # now + 2
           ELSE did' # did => /\ Len(did') <= 2 /\ now' = now + 2
                              /\ did'[Len(did')].kind \in {"tap", "swipe"}
=============================================================================
