---------------------------- MODULE MCRecording ----------------------------
(* Calls of two processes on one recording of an iOS physical device, the     *)
(* platform whose end has every branch; recordings share nothing.             *)
EXTENDS Recording, TLC
CONSTANTS c1, c2, ios
MCCalls == {c1, c2}
CallSymmetry == Permutations(MCCalls)
MCRecs == {ios}
\* Bounds: events in a log's JSON lines and in a call's hands, which only ends that
\* overlap or read a line again can exceed; and one of these two disorders at most.
MaxEvents == MaxLines + 1
ShortLogs == /\ \A r \in Recs : /\ Len(log[r].json) <= MaxEvents
                                /\ ~({"overlapped", "reread"} \subseteq excused[r])
             /\ \A c \in Calls : Len(call[c].events) <= MaxEvents
=============================================================================
