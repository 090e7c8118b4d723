------------------------------- MODULE Replay -------------------------------
(* The tools that perform recorded or listed actions one after another:       *)
(* replay_checkpoint_chain (replay-chain.ts), replay_last_stable_path         *)
(* (recovery-tools.ts), the step-orchestrated preview of run_flow             *)
(* (flow-runtime.ts, replay-step-*.ts) and complete_task (task-planner.ts).   *)
(* What one action does is ActionEvidence's subject: here it returns, in one  *)
(* step, whatever result it may return.  One tool runs at a time, as the      *)
(* session's lock has it; between two of its actions the app may be anywhere. *)
EXTENDS Naturals, FiniteSets, SequencesExt

CONSTANTS Intents,
          Risky,       \* carry a word of HIGH_RISK_REPLAY_KEYWORDS
          Unsafe,      \* of types outside REPLAY_SAFE_ACTION_TYPES
          Identified,  \* carry a resourceId
          Launching,   \* dry runs of these succeed, those of the others are partial
          Texted,      \* OCR may stand in
          Views, Canned,  \* states of the app; Canned is the one dry runs read
          Screen, Phase, Readiness,  \* what a view's summary says
          RiskyScreens,  \* screen ids with such a word
          NoScreen,      \* of a view whose title makes no screen id
          MaxHistory,  \* bound: the records a chain may find, one more than a path may
          MaxListed,   \* bound: the items of a flow, the steps of a task
          MaxSteps     \* maxSteps of complete_task, 8 at most

ASSUME ReplayAssumption ==
    /\ Risky \cup Unsafe \cup Identified \cup Launching \cup Texted \subseteq Intents
    /\ Canned \in Views /\ {MaxHistory, MaxListed} \subseteq Nat /\ MaxSteps \in Nat \ {0}
    /\ DOMAIN Screen = Views /\ DOMAIN Phase = Views /\ DOMAIN Readiness = Views
    /\ NoScreen \notin RiskyScreens

VARIABLES log,  \* listActionRecordsForSession: the session's records, newest first
          job   \* the tool under way, or the last one
vars == <<log, job>>

Outcomes == {"success", "partial", "failed"}
\* known: records there when the tool began; plan: its steps; results: theirs, in order;
\* final: what the tool reports of them; remaining: step numbers of the progress report.
NoJob == [kind |-> "none", pc |-> "done", dry |-> FALSE, strict |-> TRUE, known |-> 0,
          anchor |-> 0, plan |-> << >>, results |-> << >>, final |-> "success",
          remaining |-> {}, events |-> {}]

Init == log = << >> /\ job = NoJob

-----------------------------------------------------------------------------
(* One action, and its record.                                                *)
\* aim: the screen id that replaced a missing resourceId.
Step(number, intent, aim, source) ==
    [number |-> number, intent |-> intent, aim |-> aim, source |-> source]

\* A dry run reads the canned state and records what it made of it.
DryResults(intent) ==
    {[outcome |-> IF intent \in Launching THEN "success" ELSE "partial", before |-> Canned,
      after |-> Canned, recorded |-> TRUE, stable |-> FALSE, fallback |-> FALSE]}

\* stable: full progress or a met postcondition.  A failure at the first
\* interruption guard leaves no record.  The state before is told apart from the one after
\* where it may be read, see Anchored.
LiveResults(intent) ==
    {r \in [outcome : Outcomes, before : Views \ {Canned}, after : Views \ {Canned},
            recorded : BOOLEAN, stable : BOOLEAN, fallback : BOOLEAN] :
        /\ r.before = r.after \/ (r.stable /\ Screen[r.after] = NoScreen)
        /\ r.stable => r.outcome = "success"
        /\ r.fallback => r.outcome = "success" /\ intent \in Texted
        /\ ~r.recorded => r.outcome = "failed"}

Results(intent, dry) == IF dry THEN DryResults(intent) ELSE LiveResults(intent)

\* Slip: the records of a session in the order they were written.
LoggedLast(step, r) ==
    IF ~r.recorded THEN log
    ELSE log \o <<[id |-> Len(log) + 1, intent |-> step.intent, aim |-> step.aim, outcome |-> r.outcome,
                   stable |-> r.stable, fallback |-> r.fallback, before |-> r.before, after |-> r.after]>>

\* Records are sorted by the time they were written, newest first.  No tool reads the states
\* of a record that is no success.
Logged(step, r) ==
    IF ~r.recorded THEN log
    ELSE <<[id |-> Len(log) + 1, intent |-> step.intent, aim |-> step.aim, outcome |-> r.outcome,
            stable |-> r.stable, fallback |-> r.fallback,
            before |-> IF r.outcome = "success" THEN r.before ELSE Canned,
            after |-> IF r.outcome = "success" THEN r.after ELSE Canned]>> \o log

\* filter: the elements of a list at the positions to keep, in their order.
Selections(list, keep) ==
    {[n \in DOMAIN f |-> list[f[n]]] :
        f \in {g \in SetToSeqs(keep) : \A m, n \in DOMAIN g : m < n => g[m] < g[n]}}

Stands(i) == job.kind = i /\ job.pc = "run"
NextStep == Len(job.results) + 1
Idle == job.pc = "done"

PerformAction(intent) ==
    /\ Idle /\ Len(log) < MaxHistory
    /\ \E r \in LiveResults(intent) : log' = Logged(Step(0, intent, NoScreen, 0), r)
    /\ job' = NoJob

\* Another session, which has no records yet.
StartSession == Idle /\ log' = << >> /\ job' = NoJob

-----------------------------------------------------------------------------
(* replay_checkpoint_chain.                                                   *)
HighRisk(record) == record.intent \in Risky \/ record.aim \in RiskyScreens

\* Slip: whatever came of it.
ReplaySafeAnyOutcome(record) == ~HighRisk(record) /\ record.intent \notin Unsafe

ReplaySafe(record) == /\ ~HighRisk(record) /\ record.outcome = "success"
                      /\ ~record.fallback /\ record.intent \notin Unsafe

\* The loop runs from the end of the list, which is the oldest record.
FindLastStableCheckpoint(records) ==
    LET stable == {i \in DOMAIN records : records[i].outcome = "success" /\ records[i].stable}
    IN IF stable = {} THEN 0 ELSE Max(stable)

IntentFromRecord(record) ==
    Step(0, record.intent,
         IF record.intent \in Identified \/ record.aim # NoScreen
         THEN record.aim ELSE Screen[record.after],
         record.id)

Replaying(kind, dry, anchor, records) ==
    [NoJob EXCEPT !.kind = kind, !.pc = "run", !.dry = dry, !.known = Len(log),
                  !.anchor = anchor, !.plan = [k \in DOMAIN records |-> IntentFromRecord(records[k])]]

StartChain(fromStep, maxSteps, dry) ==
    LET anchor == FindLastStableCheckpoint(log)
        after == SubSeq(log, anchor + 1, Len(log))
        candidates == SubSeq(after, fromStep + 1, Len(after))
        limited == IF maxSteps = 0 THEN candidates
                   ELSE SubSeq(candidates, 1, IF maxSteps < Len(candidates) THEN maxSteps ELSE Len(candidates))
        safe == {i \in DOMAIN limited : ReplaySafe(limited[i])}
        ended(final) == [Replaying("chain", dry, 0, << >>) EXCEPT !.pc = "done", !.final = final]
    IN /\ Idle /\ Len(log) <= MaxHistory
       /\ IF anchor = 0 THEN job' = ended("failed")
          ELSE IF safe = {} THEN job' = ended(IF limited = << >> THEN "full" ELSE "partial")
          ELSE \E replayable \in Selections(limited, safe) :
                  job' = [Replaying("chain", dry, log[anchor].id, replayable) EXCEPT !.pc = "check"]
       /\ UNCHANGED log

Recorded(id) == log[Len(log) + 1 - id]

\* postState?.screenId ?? preState?.screenId
Anchored(record) == IF Screen[record.after] # NoScreen THEN Screen[record.after] ELSE Screen[record.before]

\* Two screen ids, where both are known.
ScreensDiffer(a, b) == NoScreen \notin {a, b} /\ a # b

Divergences(record, seen) ==
    LET differ == [screen |-> ScreensDiffer(Anchored(record), Screen[seen]),
                   readiness |-> Readiness[record.after] # Readiness[seen],
                   appPhase |-> Phase[record.after] # Phase[seen]]
    IN Cardinality({field \in DOMAIN differ : differ[field]})

\* The state may also fail to be read.
ChainCheck(seen, read) ==
    /\ job.kind = "chain" /\ job.pc = "check"
    /\ job.dry => seen = Canned
    /\ job' = IF read /\ Divergences(Recorded(job.anchor), seen) >= 2
              THEN [job EXCEPT !.pc = "done", !.final = "failed"]
              ELSE [job EXCEPT !.pc = "run"]
    /\ UNCHANGED log

Compared(step, r) ==
    IF r.outcome = "failed" THEN "failed"
    ELSE IF r.outcome # Recorded(step.source).outcome
            \/ ScreensDiffer(Screen[Recorded(step.source).after], Screen[r.after]) THEN "diverged"
    ELSE "success"

\* Slip: full unless a step failed.
ChainOverallDiverged(results) ==
    IF \A k \in DOMAIN results : results[k] # "failed" THEN "full"
    ELSE IF \E k \in DOMAIN results : results[k] = "success" THEN "partial"
    ELSE "failed"

ChainOverall(results) ==
    IF \A k \in DOMAIN results : results[k] = "success" THEN "full"
    ELSE IF \E k \in DOMAIN results : results[k] = "success" THEN "partial"
    ELSE "failed"

ChainStep ==
    /\ Stands("chain")
    /\ LET step == job.plan[NextStep]
           goesOn(status) ==
               LET results == Append(job.results, status)
               IN job' = IF Len(results) < Len(job.plan) THEN [job EXCEPT !.results = results]
                         ELSE [job EXCEPT !.results = results, !.pc = "done",
                                          !.final = ChainOverall(results)]
       IN IF job.dry THEN goesOn("success") /\ UNCHANGED log
          ELSE \E r \in LiveResults(step.intent) :
                  log' = Logged(step, r) /\ goesOn(Compared(step, r))

-----------------------------------------------------------------------------
(* replay_last_stable_path: the newest success.  Divergence from its state is *)
(* reported, and does not stop it.                                            *)
StartPath(dry) ==
    LET newest(k) == log[k].outcome = "success" /\ \A j \in 1 .. k - 1 : log[j].outcome # "success"
        replayed == {k \in DOMAIN log : newest(k) /\ ~HighRisk(log[k])}
    IN /\ Idle /\ Len(log) < MaxHistory
       /\ \/ \E k \in replayed : job' = Replaying("path", dry, 0, <<log[k]>>)
          \/ /\ replayed = {}
             /\ job' = [Replaying("path", dry, 0, << >>) EXCEPT !.pc = "done", !.final = "failed"]
       /\ UNCHANGED log

PathStep ==
    /\ Stands("path")
    /\ \E r \in Results(job.plan[1].intent, job.dry) :
          /\ log' = Logged(job.plan[1], r)
          /\ job' = [job EXCEPT !.pc = "done", !.results = <<r.outcome>>, !.final = r.outcome]

-----------------------------------------------------------------------------
(* The preview of a flow: always a dry run.                                   *)
\* Items that are no record are skipped, and leave a gap in the numbers.
PlanFromFlow(items) ==
    Selections([k \in DOMAIN items |-> Step(k, items[k], NoScreen, 0)],
               {k \in DOMAIN items : items[k] \in Intents})

StartFlow(items) ==
    \E plan \in PlanFromFlow(items) :
    LET started == [NoJob EXCEPT !.kind = "flow", !.pc = "run", !.dry = TRUE, !.known = Len(log),
                                 !.plan = plan, !.remaining = 1 .. Len(plan)]
    IN /\ Idle
       /\ job' = IF \E k \in DOMAIN items : items[k] = "unsupported"
                 THEN [started EXCEPT !.pc = "done", !.final = "partial", !.remaining = {},
                                      !.results = [k \in DOMAIN plan |-> "skipped"],
                                      !.events = {"replay_stopped"}]
                 ELSE started
       /\ UNCHANGED log

\* A dry run of anything that succeeds is ready_to_execute; of the rest, terminal_stop.
ShouldStopReplay(r) == r.outcome # "success"

FlowStep ==
    /\ Stands("flow") /\ NextStep <= Len(job.plan)
    /\ LET step == job.plan[NextStep]
           blocked == {job.plan[k].number : k \in NextStep .. Len(job.plan)}
       IN \E r \in DryResults(step.intent) :
             /\ log' = Logged(step, r)
             /\ job' = IF ShouldStopReplay(r)
                       THEN [job EXCEPT !.results = [k \in DOMAIN job.plan |->
                                             CASE k < NextStep -> job.results[k]
                                               [] k = NextStep -> r.outcome
                                               [] OTHER -> "skipped"],
                                        !.remaining = @ \ blocked,
                                        !.events = @ \cup {"replay_stopped"}]
                       ELSE [job EXCEPT !.results = Append(@, r.outcome),
                                        !.remaining = @ \ {step.number}]

\* "completed" is written whenever nothing failed, also after a stop.
FlowEnds ==
    /\ Stands("flow") /\ NextStep > Len(job.plan)
    /\ LET has(status) == \E k \in DOMAIN job.results : job.results[k] = status
       IN job' = [job EXCEPT !.pc = "done",
                     !.final = IF has("failed") THEN "failed"
                               ELSE IF has("partial") THEN "partial" ELSE "success",
                     !.events = IF has("failed") THEN @ ELSE @ \cup {"replay_completed"}]
    /\ UNCHANGED log

-----------------------------------------------------------------------------
(* complete_task.                                                             *)
StartTask(intents, strict, dry) ==
    /\ Idle
    /\ job' = [NoJob EXCEPT !.kind = "task", !.pc = "run", !.dry = dry, !.strict = strict,
                            !.known = Len(log),
                            !.plan = [k \in 1 .. (IF MaxSteps < Len(intents) THEN MaxSteps ELSE Len(intents))
                                         |-> Step(k, intents[k], NoScreen, 0)]]
    /\ UNCHANGED log

\* blocked: the failure category.
TerminalOutcome(r, blocked) ==
    Readiness[r.after] = "terminal" \/ (blocked /\ Readiness[r.after] # "ready")

TaskStep(blocked) ==
    /\ Stands("task")
    /\ LET step == job.plan[NextStep]
       IN \E r \in Results(step.intent, job.dry) :
             LET status == IF r.outcome # "success" THEN r.outcome ELSE job.final
                 halted == r.outcome # "success" /\ job.strict
                 terminal == ~halted /\ TerminalOutcome(r, blocked /\ ~job.dry)
             IN /\ log' = Logged(step, r)
                /\ job' = [job EXCEPT !.results = Append(@, r.outcome),
                              !.final = IF terminal THEN "failed" ELSE status,
                              !.pc = IF halted \/ terminal \/ NextStep = Len(job.plan)
                                     THEN "done" ELSE "run"]

Completed == job.final = "success" /\ Len(job.results) = Len(job.plan)

-----------------------------------------------------------------------------
ItemLists == BoundedSeq(Intents \cup {"scalar", "unsupported"}, MaxListed)
IntentLists == BoundedSeq(Intents, MaxListed) \ {<< >>}

\* Flows and tasks read no records: the bound starts them where there are none.
Next ==
    \/ \E intent \in Intents : PerformAction(intent)
    \/ StartSession
    \/ \E fromStep, maxSteps \in 0 .. 1, dry \in BOOLEAN : StartChain(fromStep, maxSteps, dry)
    \/ \E seen \in Views, read \in BOOLEAN : ChainCheck(seen, read)
    \/ ChainStep
    \/ \E dry \in BOOLEAN : StartPath(dry)
    \/ PathStep
    \/ log = << >> /\ \E items \in ItemLists : StartFlow(items)
    \/ FlowStep \/ FlowEnds
    \/ log = << >> /\ \E intents \in IntentLists, strict, dry \in BOOLEAN : StartTask(intents, strict, dry)
    \/ \E blocked \in BOOLEAN : TaskStep(blocked)

Spec == Init /\ [][Next]_vars

-----------------------------------------------------------------------------
(* The types, with one result at most for every step.                         *)
TypeOK ==
    /\ \A k \in DOMAIN log : /\ log[k].id = Len(log) + 1 - k
                             /\ log[k].intent \in Intents /\ {log[k].before, log[k].after} \subseteq Views
                             /\ log[k].stable \/ log[k].fallback => log[k].outcome = "success"
    /\ job.kind \in {"none", "chain", "path", "flow", "task"} /\ job.pc \in {"check", "run", "done"}
    /\ Len(job.results) <= Len(job.plan)
    /\ \A k \in DOMAIN job.results : job.results[k] \in Outcomes \cup {"diverged", "skipped"}
    /\ job.final \in Outcomes \cup {"full"}
    /\ Idle \/ Len(job.plan) > 0 \/ job.kind = "flow"

Performed == Len(log) - job.known  \* records the tool under way has added
Added(k) == Recorded(job.known + k)

(* A replay performs nothing but successes that were there when it began and  *)
(* were not high-risk as recorded, each at most once, and a chain neither its *)
(* anchor nor one found by OCR or of an unsafe type.  Each step keeps the     *)
(* target its record was judged with; only where that had none, the screen it *)
(* ended on becomes the target, and only then may a step be high-risk after   *)
(* all.  The n-th record it adds is of a step of its plan that has come up,   *)
(* the n-th or a later one, on the target that step was given; a dry chain    *)
(* leaves the session's records alone: no replay makes any other history.     *)
ReplaysOnlySafe ==
    job.kind \in {"chain", "path"} =>
        /\ Performed <= Len(job.results) /\ Len(job.results) <= Len(job.plan)
        /\ job.kind = "chain" /\ job.dry => Performed = 0
        /\ \A k \in DOMAIN job.plan :
              LET source == job.plan[k].source
              IN /\ source \in 1 .. job.known /\ source # job.anchor
                 /\ Recorded(source).outcome = "success" /\ ~HighRisk(Recorded(source))
                 /\ job.plan[k].intent = Recorded(source).intent
                 /\ job.plan[k].aim # Recorded(source).aim \/ HighRisk(job.plan[k]) =>
                        /\ Recorded(source).aim = NoScreen /\ Recorded(source).intent \notin Identified
                        /\ job.plan[k].aim = Screen[Recorded(source).after]
                 /\ \A m \in DOMAIN job.plan : m # k => job.plan[m].source # source
                 /\ job.kind = "chain" =>
                        ~Recorded(source).fallback /\ Recorded(source).intent \notin Unsafe
        /\ \A n \in 1 .. Performed : \E k \in n .. Len(job.results) :
              Added(n).intent = job.plan[k].intent /\ Added(n).aim = job.plan[k].aim

(* "the last (most recent) stable checkpoint" (replay-chain.ts:81) and "all   *)
(* actions AFTER the anchor" (217): nothing newer than the anchor of a chain  *)
(* is a stable success, and every step replays a record newer than it.        *)
ReplaysAfterLastCheckpoint ==
    job.kind = "chain" /\ job.anchor # 0 =>
        /\ \A id \in job.anchor + 1 .. job.known :
              ~(Recorded(id).outcome = "success" /\ Recorded(id).stable)
        /\ \A k \in DOMAIN job.plan : job.plan[k].source > job.anchor

(* What a tool reports is what the records say.  A live chain that is full    *)
(* has performed every step of its plan with the outcome of the record it     *)
(* replays and, unless one of the two screens has no id, on its screen.  A    *)
(* completed task has performed every step, each with success and none on a   *)
(* terminal state.  After the first step that did not succeed a preview and a *)
(* strict task perform nothing, and every step of a preview that is over has  *)
(* one outcome and is no longer remaining.                                    *)
ReportsAreTrue ==
    /\ job.kind = "chain" /\ job.pc = "done" /\ ~job.dry /\ job.final = "full" =>
          /\ Performed = Len(job.plan)
          /\ \A k \in DOMAIN job.plan :
                /\ Added(k).outcome = "success" /\ Added(k).intent = job.plan[k].intent
                /\ ~ScreensDiffer(Screen[Recorded(job.plan[k].source).after], Screen[Added(k).after])
    /\ job.kind = "task" /\ job.pc = "done" /\ Completed =>
          /\ Performed = Len(job.plan)
          /\ \A k \in DOMAIN job.plan :
                /\ Added(k).outcome = "success" /\ Added(k).intent = job.plan[k].intent
                /\ Readiness[Added(k).after] # "terminal"
    /\ job.kind = "flow" \/ (job.kind = "task" /\ job.strict) =>
          \A k, m \in DOMAIN job.results :
              k < m /\ job.results[k] # "success" => job.results[m] = "skipped"
    /\ job.kind = "flow" /\ job.pc = "done" =>
          /\ Len(job.results) = Len(job.plan)
          /\ Performed = Cardinality({k \in DOMAIN job.results : job.results[k] # "skipped"})
          /\ \A k \in DOMAIN job.plan : job.plan[k].number \notin job.remaining
          /\ job.final = "success" => \A k \in DOMAIN job.plan : Added(k).outcome = "success"
=============================================================================
