--------------------------- MODULE ActionEvidence ---------------------------
(* performActionWithEvidenceWithMaestro (action-orchestrator.ts): one action  *)
(* of a session.  An interruption is dismissed, the state is read, the        *)
(* executor acts, OCR stands in for it when it found no target, the state is  *)
(* read again until it can be judged, the verdict is kept, and a second guard *)
(* may dismiss what came up and run the action once more.  Between any two    *)
(* awaits the app may move and the process may die.  The page-context cache   *)
(* and the network probe of a failed action only feed its suggestions.        *)
EXTENDS Naturals, Sequences

CONSTANTS Intents,
          Waits,         \* wait_for_ui: looks, does not touch
          Launches,      \* launch_app, terminate_app: no target on the screen
          Texted,        \* taps and waits that carry a text OCR can look for
          Views,         \* states of the app that hasStateChanged tells apart
          Follows,       \* [Views -> SUBSET Views]: what may come next, touched or not
          Readiness,     \* [Views -> classes of StateSummary.readiness]
          Drifts,        \* the pairs of views hasStateDrift tells apart
          Blocked,       \* views with blocking signals, or "interrupted"
          Handoffs,      \* views that require a manual handoff
          Interrupting,  \* views the interruption detector recognises
          Canned,        \* what a dry run reads
          RuleAttempts   \* retry.maxAttempts of the policy's rules, cut at 3

ASSUME EvidenceAssumption ==
    /\ Intents # {} /\ Waits \subseteq Intents /\ Launches \subseteq Intents \ Waits
    /\ Texted \subseteq Intents \ Launches
    /\ Follows \in [Views -> SUBSET Views]
    /\ Readiness \in [Views -> {"ready", "waiting", "degraded", "terminal", "other"}]
    /\ RuleAttempts \subseteq 1 .. 3
    /\ Drifts \subseteq Views \X Views
    /\ Canned \in Views \ (Handoffs \cup Interrupting)

VARIABLES view,   \* what the app shows
          call,   \* the action under way, or the last one
          kept    \* what the session and the baseline keep of it
vars == <<view, call, kept>>

AnyIntent == CHOOSE i \in Intents : TRUE
NothingKept == [timeline |-> 0, baseline |-> FALSE, record |-> "none"]
\* guard: which of the two is running; attempt and limit belong to the loop under
\* way; pre and post are the states read; mark is what the resume read.
NoCall == [pc |-> "idle", intent |-> AnyIntent, dry |-> FALSE,
           guard |-> "pre", attempt |-> 0, limit |-> 0, pre |-> Canned, post |-> Canned,
           mark |-> Canned, target |-> "none", status |-> "failed", reason |-> "none",
           category |-> "none", step |-> "none", fallback |-> FALSE, candidate |-> FALSE,
           refreshed |-> FALSE, verdict |-> "none", did |-> << >>]

Init == view \in Views \ {Canned} /\ call = NoCall /\ kept = NothingKept

-----------------------------------------------------------------------------
(* What the model file makes of two states and a status.                      *)
Changed(c) == c.pre # c.post
Waiting(v) == Readiness[v] = "waiting"
Dead(v) == Readiness[v] = "terminal"
Retryable == {"recoverable_waiting", "partial_progress", "degraded_but_continue_safe"}

Category(c) ==
    IF c.status = "success" /\ Changed(c) THEN "none"
    ELSE IF c.reason = "unsupported" THEN "unsupported"
    ELSE IF c.reason = "selector" \/ c.target = "off_screen" THEN "selector"
    ELSE IF c.target \in {"obscured", "disabled"} \/ c.pre \in Blocked THEN "blocked"
    ELSE IF Waiting(c.pre) THEN "waiting"
    ELSE "no_state_change"

StepState(c) ==
    IF Dead(c.post) THEN "terminal_stop"
    ELSE IF c.status = "success" /\ Changed(c) THEN "checkpoint_candidate"
    ELSE IF c.status = "partial" /\ Changed(c) THEN "partial_progress"
    ELSE IF c.category = "blocked" THEN "replay_recommended"
    ELSE IF Waiting(c.post) THEN "recoverable_waiting"
    ELSE IF Readiness[c.post] = "degraded" THEN "degraded_but_continue_safe"
    ELSE IF c.status = "success" THEN "ready_to_execute"
    ELSE "terminal_stop"

\* Slip: counts the retries and not the attempts.
MaxAttemptsAfterFirst(step) == CASE step \in {"recoverable_waiting", "partial_progress"} -> 4
                                 [] step = "degraded_but_continue_safe" -> 3
                                 [] OTHER -> 1

MaxAttempts(step) == CASE step \in {"recoverable_waiting", "partial_progress"} -> 3
                       [] step = "degraded_but_continue_safe" -> 2
                       [] OTHER -> 1

\* hint: logs or crashes differ, which is weak evidence when the screen does not.
ShouldRetry(c, hint) == /\ c.step \in Retryable /\ c.attempt < c.limit
                        /\ Changed(c) \/ hint \/ c.attempt <= 1

NeedsRefresh(c) == ~Changed(c) /\ c.status # "failed" /\ c.category = "no_state_change"

HandedOff(c, status) == [c EXCEPT !.status = status, !.reason = "handoff",
                                  !.category = "blocked", !.step = "terminal_stop"]
Judged(c, seen) ==
    LET c1 == [c EXCEPT !.post = seen]
        c2 == [c1 EXCEPT !.category = Category(c1)]
        c3 == [c2 EXCEPT !.step = StepState(c2)]
    IN IF seen \in Handoffs THEN HandedOff(c3, "partial") ELSE c3

Concluded(c) == [c EXCEPT !.pc = "timeline", !.verdict = c.status, !.attempt = 0, !.limit = 0]

\* Slip: a terminal state is left to the step state.
SettledWithoutTerminal(c) ==
    LET spent == ~Changed(c) /\ c.attempt >= c.limit /\ c.step \in Retryable
        c1 == IF spent THEN [c EXCEPT !.status = "failed", !.reason = "exhausted"] ELSE c
        c3 == [c1 EXCEPT !.candidate = (c1.step = "checkpoint_candidate" /\ Changed(c1))]
    IN IF c3.post \notin Handoffs /\ NeedsRefresh(c3) THEN [c3 EXCEPT !.pc = "refresh"]
       ELSE Concluded(c3)

Settled(c) ==
    LET spent == ~Changed(c) /\ c.attempt >= c.limit /\ c.step \in Retryable
        c1 == IF spent THEN [c EXCEPT !.status = "failed", !.reason = "exhausted"] ELSE c
        c2 == IF Dead(c.post)
              THEN [c1 EXCEPT !.status = "failed", !.reason = "terminal", !.step = "terminal_stop"]
              ELSE c1
        c3 == [c2 EXCEPT !.candidate = (c2.step = "checkpoint_candidate" /\ Changed(c2))]
    IN IF c3.post \notin Handoffs /\ NeedsRefresh(c3) THEN [c3 EXCEPT !.pc = "refresh"]
       ELSE Concluded(c3)

FirstJudged(c, seen, hint) ==
    LET c1 == Judged(c, seen)
        c2 == [c1 EXCEPT !.attempt = 1, !.limit = MaxAttempts(c1.step)]
    IN IF ShouldRetry(c2, hint) THEN [c2 EXCEPT !.pc = "retry"] ELSE Settled(c2)

-----------------------------------------------------------------------------
At(pc) == call.pc = pc
Seen == IF call.dry THEN Canned ELSE view
Did(c, what) == [c EXCEPT !.did = Append(@, what)]
Touched == IF call.dry THEN view' = view ELSE view' \in Follows[view] \cup {view}
Untouched == UNCHANGED <<view, kept>>

Begin(intent, dry) ==
    /\ call.pc \in {"idle", "done", "dead"}
    /\ call' = [NoCall EXCEPT !.pc = "detect", !.intent = intent, !.dry = dry]
    /\ kept' = NothingKept
    /\ UNCHANGED view

(* resolveInterruptionWithMaestro, before and after the action.               *)
GuardPassed(c, how) ==
    LET c1 == [c EXCEPT !.attempt = 0, !.limit = 0]
    IN IF c.guard = "pre" THEN [c1 EXCEPT !.pc = "preread"]
       ELSE IF how = "clear" THEN [c1 EXCEPT !.pc = "done"]
       ELSE Did([c1 EXCEPT !.pc = "before"], "solved")

GuardFailed(c) ==
    [c EXCEPT !.attempt = 0, !.limit = 0, !.status = "failed", !.reason = "unresolved",
              !.pc = IF c.guard = "pre" THEN "done" ELSE "rerecord"]

Detect ==
    /\ At("detect")
    /\ \/ Seen \notin Interrupting /\ call' = GuardPassed(call, "clear")
       \/ Seen \in Interrupting /\ call' = GuardFailed(call)  \* no rule, no slot, or denied
       \/ /\ Seen \in Interrupting
          /\ \E limit \in RuleAttempts : call' = [call EXCEPT !.pc = "dismiss", !.limit = limit]
    /\ Untouched

Dismiss(ok) ==
    /\ At("dismiss")
    /\ Touched
    /\ LET c1 == [call EXCEPT !.attempt = @ + 1]
       IN call' = IF ok THEN [c1 EXCEPT !.pc = "verify"]
                  ELSE IF c1.attempt < c1.limit THEN c1 ELSE GuardFailed(c1)
    /\ UNCHANGED kept

Verify ==
    /\ At("verify")
    /\ call' = IF Seen \notin Interrupting THEN GuardPassed(call, "solved")
               ELSE IF call.attempt < call.limit THEN [call EXCEPT !.pc = "dismiss"]
               ELSE GuardFailed(call)
    /\ Untouched

(* The action itself.                                                         *)
PreRead ==
    /\ At("preread")
    /\ LET c1 == [call EXCEPT !.pre = Seen, !.post = Seen]
       IN call' = IF Seen \notin Handoffs THEN [c1 EXCEPT !.pc = "execute"]
                  ELSE Settled([HandedOff(c1, "failed") EXCEPT !.attempt = 1, !.limit = 1])
    /\ Untouched

\* Slip: whatever the executor did with its target.
OcrMayHelpAnyway(c) == c.status # "success" /\ c.intent \in Texted

\* A target is "resolved" or "obscured" by another node: the command is sent, and
\* may work whatever is reported.  Otherwise nothing is sent.
OcrMayHelp(c) ==
    /\ c.status # "success" /\ c.intent \in Texted
    /\ c.intent \in Waits \/ c.target \notin {"resolved", "obscured"}

Reported(target, status) ==
    LET c1 == [call EXCEPT !.target = target, !.status = status,
                  !.reason = IF status = "success" THEN "none"
                             ELSE IF target \in {"off_screen", "no_match"} THEN "selector"
                             ELSE "other"]
    IN [c1 EXCEPT !.pc = IF OcrMayHelp(c1) THEN "ocr" ELSE "post"]

ExecuteDry ==
    /\ At("execute") /\ call.dry
    /\ call' = IF call.intent \in Launches THEN Reported("none", "success")
               ELSE [Reported("none", "partial") EXCEPT !.reason = "unsupported"]
    /\ Untouched

Execute(target, status) ==
    /\ At("execute") /\ ~call.dry
    /\ IF call.intent \in Waits \cup Launches THEN target = "none" ELSE TRUE
    /\ IF target \in {"resolved", "obscured"} \/ call.intent \in Launches
       THEN Touched /\ call' = Did(Reported(target, status), "exec")
       ELSE /\ status # "success" \/ call.intent \in Waits
            /\ call' = Reported(target, status) /\ UNCHANGED view
    /\ UNCHANGED kept

(* executeOcrFallback.  A refusal leaves the executor's report; a failure     *)
(* replaces it.                                                               *)
OcrReport(c, status) ==
    [c EXCEPT !.status = status, !.fallback = (status = "success"), !.attempt = 0,
              !.reason = IF status = "success" THEN "none" ELSE "other", !.pc = "post"]

OcrRefused == /\ At("ocr") /\ (call.dry \/ Waiting(call.pre))
              /\ call' = [call EXCEPT !.pc = "post"]
              /\ Untouched

OcrLooks(found) ==
    /\ At("ocr") /\ ~call.dry /\ ~Waiting(call.pre)
    /\ call' = IF ~found THEN OcrReport(call, "failed")
               ELSE IF call.intent \in Waits THEN OcrReport(call, "success")
               ELSE [call EXCEPT !.pc = "ocrtap"]
    /\ Untouched

OcrTap(ok) ==
    /\ At("ocrtap")
    /\ IF ok
       THEN Touched /\ call' = Did([call EXCEPT !.pc = "ocrpost", !.attempt = @ + 1], "ocr")
       ELSE call' = OcrReport(call, "failed") /\ UNCHANGED view
    /\ UNCHANGED kept

\* identity: the page identity differs, which verifyOcrAction counts and
\* hasStateChanged does not.  The second tap is at the first screenshot's bounds.
OcrPost(identity, hint, again) ==
    /\ At("ocrpost")
    /\ call' = IF Seen # call.pre \/ identity
               THEN FirstJudged(OcrReport(call, "success"), Seen, hint)
               ELSE LET c1 == Did(call, "same")
                    IN IF call.attempt < 2 /\ again THEN [c1 EXCEPT !.pc = "ocrtap"]
                       ELSE FirstJudged(OcrReport(c1, "failed"), Seen, hint)
    /\ Untouched

PostRead(hint) ==
    /\ At("post")
    /\ call' = FirstJudged(call, Seen, hint)
    /\ Untouched

RetryRead(hint) ==
    /\ At("retry")
    /\ LET c1 == [Judged(call, Seen) EXCEPT !.attempt = @ + 1]
       IN call' = IF ~Changed(c1) /\ ShouldRetry(c1, hint) THEN c1 ELSE Settled(c1)
    /\ Untouched

\* The step state and the terminal check are not taken again.
Refresh ==
    /\ At("refresh")
    /\ LET c1 == [call EXCEPT !.post = Seen, !.refreshed = TRUE]
           c2 == [c1 EXCEPT !.category = Category(c1)]
       IN call' = Concluded(IF Seen = call.post THEN call
                            ELSE IF Seen \in Handoffs THEN HandedOff(c2, "partial") ELSE c2)
    /\ Untouched

(* What is kept: two events of the timeline, a baseline entry, the record.    *)
KeepTimeline ==
    /\ At("timeline")
    /\ kept' = [kept EXCEPT !.timeline = @ + 1]
    /\ call' = [call EXCEPT !.pc = IF kept'.timeline < 2 THEN "timeline"
                                   ELSE IF call.verdict = "success" THEN "baseline" ELSE "record"]
    /\ UNCHANGED view

KeepBaseline ==
    /\ At("baseline")
    /\ kept' = [kept EXCEPT !.baseline = TRUE]
    /\ call' = [call EXCEPT !.pc = "record"]
    /\ UNCHANGED view

KeepRecord ==
    /\ At("record")
    /\ kept' = [kept EXCEPT !.record = call.verdict]
    /\ call' = [call EXCEPT !.pc = "detect", !.guard = "post"]
    /\ UNCHANGED view

(* resumeInterruptedActionWithMaestro, and the record again if it changes.    *)
ResumeBefore ==
    /\ At("before")
    /\ call' = [call EXCEPT !.mark = Seen, !.pc = "resume"]
    /\ Untouched

Resume(ok) ==
    /\ At("resume")
    /\ LET c1 == [call EXCEPT !.pc = IF ok THEN "after" ELSE "failed"]
       IN IF call.intent \in Waits \/ call.dry THEN call' = c1 /\ UNCHANGED view
          ELSE Touched /\ call' = Did(c1, "resume")
    /\ UNCHANGED kept

ResumeAfter ==
    /\ call.pc \in {"after", "failed"}
    /\ LET drift == <<call.mark, Seen>> \in Drifts
       IN call' = IF At("after") /\ ~drift THEN [call EXCEPT !.pc = "done", !.mark = Canned]
                  ELSE [call EXCEPT !.pc = "rerecord", !.status = "failed", !.mark = Canned,
                                    !.reason = IF drift THEN "drift" ELSE "other"]
    /\ Untouched

\* Slip: what the resume came to is only returned.
RerecordUnwritten(differs) ==
    /\ At("rerecord")
    /\ differs \/ call.verdict = call.status
    /\ call' = [call EXCEPT !.pc = "done"]
    /\ UNCHANGED <<view, kept>>

\* The record is written again if the status or the reason differs from the verdict's;
\* a failure may fail for the same reason twice.
Rerecord(differs) ==
    /\ At("rerecord")
    /\ differs \/ call.verdict = call.status
    /\ kept' = IF differs THEN [kept EXCEPT !.record = call.status] ELSE kept
    /\ call' = [call EXCEPT !.pc = "done"]
    /\ UNCHANGED view

AppMoves == view' \in Follows[view] /\ UNCHANGED <<call, kept>>

Crash == /\ call.pc \notin {"idle", "done", "dead"}
         /\ call' = [call EXCEPT !.pc = "dead"]
         /\ Untouched

Next ==
    \/ \E i \in Intents, dry \in BOOLEAN : Begin(i, dry)
    \/ Detect \/ Verify \/ PreRead \/ ExecuteDry \/ OcrRefused
    \/ \E ok \in BOOLEAN : Dismiss(ok) \/ OcrLooks(ok) \/ OcrTap(ok) \/ Resume(ok) \/ Rerecord(ok)
    \/ \E target \in {"resolved", "obscured", "disabled", "off_screen", "no_match", "none"},
          status \in {"success", "partial", "failed"} : Execute(target, status)
    \/ \E hint \in BOOLEAN : PostRead(hint) \/ RetryRead(hint)
    \/ \E identity, hint, again \in BOOLEAN : OcrPost(identity, hint, again)
    \/ Refresh \/ KeepTimeline \/ KeepBaseline \/ KeepRecord
    \/ ResumeBefore \/ ResumeAfter
    \/ AppMoves \/ Crash

Spec == Init /\ [][Next]_vars

-----------------------------------------------------------------------------
(* The types, for every step of an action.                                    *)
TypeOK ==
    /\ view \in Views
    /\ call.intent \in Intents /\ call.dry \in BOOLEAN /\ call.guard \in {"pre", "post"}
    /\ call.attempt \in 0 .. 3 /\ call.limit \in 0 .. 3
    /\ {call.pre, call.post, call.mark} \subseteq Views
    /\ call.status \in {"success", "partial", "failed"}
    /\ kept \in [timeline : 0 .. 2, baseline : BOOLEAN,
                 record : {"none", "success", "partial", "failed"}]

(* The device is touched for an action once, and again only after a read that *)
(* showed the state before it (the second OCR tap) or after an interruption   *)
(* was dismissed (the resume); nothing is tapped where a manual handoff was   *)
(* due when the action began, unless it is resumed.                           *)
NoBlindRepeat ==
    LET acts == {n \in DOMAIN call.did : call.did[n] \in {"exec", "ocr", "resume"}}
    IN /\ \A m, n \in acts : m < n => \E k \in m .. n : call.did[k] \in {"same", "solved"}
       /\ call.pre \in Handoffs => \A n \in acts : call.did[n] = "resume"

(* What is kept agrees with what the caller is told: the record carries the   *)
(* status returned, and a baseline entry is there when the verdict was a      *)
(* success.  An action that dies leaves no record without its timeline and    *)
(* its baseline, and never a better one than its verdict.                     *)
RecordsAgree ==
    /\ At("done") => \/ kept.record = call.status
                     \/ kept = NothingKept /\ call.guard = "pre" /\ call.status = "failed"
    /\ kept.record # "none" => /\ kept.timeline = 2
                               /\ kept.baseline = (call.verdict = "success")
                               /\ kept.record \in {call.verdict, "failed"}
    /\ kept.baseline => call.verdict = "success"

(* A success returned was reported by the executor or by OCR, the last state  *)
(* read asks for no handoff and is not terminal, and an interruption that     *)
(* came up was dismissed.  A checkpoint candidate is a success that changed   *)
(* the state.  A refresh may end on a terminal state: nothing looks again.    *)
SuccessIsEarned ==
    /\ At("done") /\ call.status = "success" =>
          /\ call.fallback \/ call.reason = "none"
          /\ call.verdict = "success"
          /\ call.post \notin Handoffs
          /\ Dead(call.post) => call.refreshed
          /\ call.refreshed => Changed(call)
    /\ call.candidate => call.verdict \in {"none", "success"} /\ Changed(call) /\ ~Dead(call.post)
=============================================================================
