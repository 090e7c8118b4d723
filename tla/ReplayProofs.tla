---------------------------- MODULE ReplayProofs ----------------------------
(***************************************************************************)
(* Proofs about Replay, for any intents, views, screens and bounds.        *)
(*                                                                         *)
(* The invariant has one part for the records of the session (LogInv), one *)
(* for the shape of the tool under way (JobInv), and one for each of the   *)
(* four tools: what its plan, its results so far and the records it added  *)
(* have to do with one another.  Both properties of the runs speak of      *)
(* tools that are done, or of a plan nothing more is added to; the         *)
(* invariant says what holds after every single action of theirs.  A tool  *)
(* that runs finds the records it planned from where they were, for new    *)
(* ones are put in front: that is SourcesStay and LoggedStep, which every  *)
(* kind of step uses.                                                      *)
(***************************************************************************)
EXTENDS Replay, FiniteSetTheorems, WellFoundedInduction, SequenceTheorems, TLAPS

\* A set of positions has a largest: the segments above its members are finite sets, so
\* one of them contains no other.
LEMMA MaxOfPositions ==
  ASSUME NEW n \in Nat, NEW S \in SUBSET (1 .. n), S # {}
  PROVE  Max(S) \in S /\ \A j \in S : j <= Max(S)
<1> DEFINE Above(i) == {k \in 1 .. n : k > i}
           Family == {Above(i) : i \in S}
<1>1. IsFiniteSet(1 .. n)
  BY FS_Interval
<1>2. IsWellFoundedOn(StrictSubsetOrdering(1 .. n), SUBSET (1 .. n))
  BY <1>1, FS_StrictSubsetOrderingWellFounded, FS_FiniteSubsetsOfFinite, Zenon
<1>3. Family \subseteq SUBSET (1 .. n) /\ Family # {}
  OBVIOUS
<1>4. PICK A \in Family : \A B \in Family : <<B, A>> \notin StrictSubsetOrdering(1 .. n)
  <2> HIDE DEF Family
  <2> QED BY <1>2, <1>3, WFMin, Zenon
<1>5. PICK i \in S : A = Above(i)
  BY <1>4
<1>6. ASSUME NEW j \in S, j > i PROVE FALSE
  <2>1. Above(j) \in Family /\ Above(j) \subseteq Above(i)
    BY <1>6
  <2>2. j \in Above(i) /\ j \notin Above(j)
    BY <1>6
  <2>3. Above(j) # Above(i)
    BY <2>2
  <2> QED
    BY <1>4, <1>5, <2>1, <2>3 DEF StrictSubsetOrdering
<1>7. \A j \in S : i >= j
  BY <1>6
<1> QED
  BY <1>5, <1>7 DEF Max

\* s is made of elements of list at positions to keep, in the order of list.
InOrder(s, list, keep) ==
  \E f \in [1 .. Len(s) -> keep] :
     /\ \A m, n \in 1 .. Len(s) : m < n => f[m] < f[n]
     /\ \A n \in 1 .. Len(s) : s[n] = list[f[n]]

\* What filter keeps is of the kind the kept elements are of, is not empty unless nothing
\* was kept, and stands in the order of the list.
LEMMA SelectionsKeepOrder ==
  ASSUME NEW S, NEW list \in Seq(S), NEW keep \in SUBSET (1 .. Len(list)),
         NEW T, \A i \in keep : list[i] \in T, NEW s \in Selections(list, keep)
  PROVE  /\ s \in Seq(T)
         /\ keep # {} => Len(s) > 0
         /\ InOrder(s, list, keep)
<1> DEFINE c == Cardinality(keep)
<1>1. IsFiniteSet(keep)
  <2>1. IsFiniteSet(1 .. Len(list))
    BY FS_Interval
  <2> QED
    BY <2>1, FS_Subset
<1>2. c \in Nat /\ (c = 0 <=> keep = {})
  BY <1>1, FS_CardinalityType, FS_EmptySet
<1>3. PICK f \in [1 .. c -> keep] : /\ \A m, n \in DOMAIN f : m < n => f[m] < f[n]
                                    /\ s = [n \in DOMAIN f |-> list[f[n]]]
  BY DEF Selections, SetToSeqs
<1> HIDE DEF c
<1>4. s = [n \in 1 .. c |-> list[f[n]]]
  BY <1>3
<1>5. s \in Seq(T) /\ Len(s) = c
  <2>1. \A n \in 1 .. c : f[n] \in keep /\ list[f[n]] \in T
    OBVIOUS
  <2> QED
    BY <1>2, <1>4, <2>1
<1>6. /\ f \in [1 .. Len(s) -> keep]
      /\ \A m, n \in 1 .. Len(s) : m < n => f[m] < f[n]
      /\ \A n \in 1 .. Len(s) : s[n] = list[f[n]]
  BY <1>2, <1>3, <1>4, <1>5
<1>7. Len(s) = c
  BY <1>5
<1>8. keep # {} => c # 0
  BY <1>2, Zenon
<1> QED
  BY <1>2, <1>5, <1>6, <1>7, <1>8, SMTT(30) DEF InOrder

-----------------------------------------------------------------------------
(* The inductive invariant.                                                   *)
\* The types of a record, of a step of a plan and of a tool.
Aims == {NoScreen} \cup {Screen[v] : v \in Views}
LogRecord == [id : Nat, intent : Intents, aim : Aims, outcome : Outcomes,
              stable : BOOLEAN, fallback : BOOLEAN, before : Views, after : Views]
\* What an action may return.
Result == [outcome : Outcomes, before : Views, after : Views, recorded : BOOLEAN, stable : BOOLEAN,
           fallback : BOOLEAN]
PlanStep == [number : Nat, intent : Intents, aim : Aims, source : Nat]
Statuses == Outcomes \cup {"diverged", "skipped"}
Job == [kind : {"none", "chain", "path", "flow", "task"}, pc : {"check", "run", "done"},
        dry : BOOLEAN, strict : BOOLEAN, known : Nat, anchor : Nat,
        plan : Seq(PlanStep), results : Seq(Statuses), final : Outcomes \cup {"full"},
        remaining : SUBSET Nat, events : SUBSET {"replay_stopped", "replay_completed"}]

\* The records are numbered as they are written, the newest first, and only a success is
\* stable or was OCR's.
LogInv ==
    /\ log \in Seq(LogRecord)
    /\ \A k \in DOMAIN log : /\ log[k].id = Len(log) + 1 - k
                             /\ log[k].stable \/ log[k].fallback => log[k].outcome = "success"

\* One action puts at most one record in front of the others: a tool that began earlier finds
\* the record of each id unchanged.
LEMMA LoggedStep ==
  ASSUME LogInv, ReplayAssumption, NEW intent \in Intents, NEW dry \in BOOLEAN,
         NEW r \in Results(intent, dry),
         NEW step \in PlanStep, step.intent = intent, log' = Logged(step, r)
  PROVE  /\ r \in Result
         /\ LogInv'
         /\ Len(log') = IF r.recorded THEN Len(log) + 1 ELSE Len(log)
         /\ \A id \in 1 .. Len(log) : Recorded(id)' = Recorded(id)
         /\ r.outcome # "failed" => r.recorded
         /\ r.recorded => \A id \in {Len(log) + 1} :
               /\ Recorded(id)'.intent = step.intent /\ Recorded(id)'.aim = step.aim
               /\ Recorded(id)'.outcome = r.outcome
               /\ r.outcome = "success" => Recorded(id)'.after = r.after
<1> DEFINE new == [id |-> Len(log) + 1, intent |-> step.intent, aim |-> step.aim, outcome |-> r.outcome,
                   stable |-> r.stable, fallback |-> r.fallback,
                   before |-> IF r.outcome = "success" THEN r.before ELSE Canned,
                   after |-> IF r.outcome = "success" THEN r.after ELSE Canned]
<1>1. /\ r \in Result
      /\ r.outcome # "failed" => r.recorded
      /\ r.stable \/ r.fallback => r.outcome = "success"
  <2>1. CASE dry
    <3> DEFINE o == IF intent \in Launching THEN "success" ELSE "partial"
    <3>1. r = [outcome |-> o, before |-> Canned, after |-> Canned, recorded |-> TRUE, stable |-> FALSE,
               fallback |-> FALSE]
      BY <2>1 DEF Results, DryResults
    <3>2. o \in Outcomes /\ Canned \in Views
      BY DEF Outcomes, ReplayAssumption
    <3> HIDE DEF o
    <3> QED
      BY <3>1, <3>2 DEF Result
  <2>2. CASE ~dry
    BY <2>2 DEF Results, LiveResults, Result
  <2> QED
    BY <2>1, <2>2
<1>2. /\ new \in LogRecord /\ new.id = Len(log) + 1
      /\ (new.stable \/ new.fallback => new.outcome = "success")
  BY <1>1 DEF LogRecord, Result, PlanStep, LogInv, ReplayAssumption
<1>a. /\ new.intent = step.intent /\ new.aim = step.aim /\ new.outcome = r.outcome
      /\ (r.outcome = "success" => new.after = r.after)
  OBVIOUS
<1>3. log' = IF r.recorded THEN <<new>> \o log ELSE log
  BY <1>1 DEF Logged
<1> HIDE DEF new
<1>4. CASE r.recorded
  <2>1. /\ <<new>> \o log \in Seq(LogRecord)
        /\ Len(<<new>> \o log) = Len(log) + 1
        /\ \A k \in 1 .. Len(log) + 1 : (<<new>> \o log)[k] = IF k = 1 THEN new ELSE log[k - 1]
    BY <1>2, <1>4 DEF LogInv
  <2>2. /\ log' \in Seq(LogRecord) /\ Len(log') = Len(log) + 1
        /\ \A k \in 1 .. Len(log) + 1 : log'[k] = IF k = 1 THEN new ELSE log[k - 1]
    BY <1>3, <1>4, <2>1
  <2>3. LogInv'
    <3>1. \A k \in 1 .. Len(log) : log[k].id = Len(log) + 1 - k
                                 /\ (log[k].stable \/ log[k].fallback => log[k].outcome = "success")
      BY DEF LogInv
    <3>2. ASSUME NEW k \in 1 .. Len(log')
          PROVE  log'[k].id = Len(log') + 1 - k
                 /\ (log'[k].stable \/ log'[k].fallback => log'[k].outcome = "success")
      <4>1. CASE k = 1
        BY <1>2, <2>2, <4>1 DEF LogInv
      <4>2. CASE k # 1
        <5>1. k - 1 \in 1 .. Len(log) /\ log'[k] = log[k - 1] /\ k \in Int /\ Len(log) \in Int
          BY <2>2, <4>2 DEF LogInv
        <5>2. log[k - 1].id = Len(log) + 1 - (k - 1)
          BY <3>1, <5>1
        <5>3. log[k - 1].stable \/ log[k - 1].fallback => log[k - 1].outcome = "success"
          BY <3>1, <5>1
        <5> QED
          BY <2>2, <5>1, <5>2, <5>3
      <4> QED
        BY <4>1, <4>2
    <3> QED
      BY <2>2, <3>2 DEF LogInv
  <2>4. \A id \in 1 .. Len(log) : Recorded(id)' = Recorded(id)
    BY <2>2 DEF Recorded, LogInv
  <2>5. \A id \in {Len(log) + 1} : Recorded(id)' = new
    BY <2>2 DEF Recorded, LogInv
  <2> QED
    BY <1>1, <1>a, <1>4, <2>2, <2>3, <2>4, <2>5
<1>5. CASE ~r.recorded
  BY <1>1, <1>3, <1>5 DEF LogInv, Recorded
<1> QED
  BY <1>4, <1>5

-----------------------------------------------------------------------------
Open == ~Idle /\ job.kind # "flow"

\* A tool that is not a flow runs only while a step of its plan is left.
JobInv ==
    /\ job \in Job
    /\ job.known <= Len(log) /\ Len(job.results) <= Len(job.plan)
    /\ Open => Len(job.results) < Len(job.plan)
    /\ job.pc = "check" => job.kind = "chain"
    /\ job.pc = "check" \/ (~Idle /\ job.kind = "path") => job.results = << >>

\* A step has the target of its record, or the screen the record ended on for want of one.
AimedLike(step, record) ==
    \/ step.aim = record.aim
    \/ /\ record.aim = NoScreen /\ record.intent \notin Identified
       /\ step.aim = Screen[record.after]

\* Step k of a plan repeats a record that was there when the tool began, a success that
\* carried no risk, and an older one than the step before it: records are listed newest
\* first, so that beyond the anchor of a chain lie the older ones.
SourceSafe(k) ==
    LET source == job.plan[k].source
    IN  /\ source \in 1 .. job.known
        /\ Recorded(source).outcome = "success" /\ ~HighRisk(Recorded(source))
        /\ job.plan[k].intent = Recorded(source).intent
        /\ AimedLike(job.plan[k], Recorded(source))
        /\ \A m \in DOMAIN job.plan : k < m => job.plan[m].source < source
        /\ IF job.kind = "chain"
           THEN /\ source < job.anchor /\ job.anchor <= job.known
                /\ ~Recorded(source).fallback /\ Recorded(source).intent \notin Unsafe
           ELSE job.anchor = 0

\* The n-th record of a tool is of step k of its plan, on the target that was filled in.
AddedFor(n, k) == Added(n).intent = job.plan[k].intent /\ Added(n).aim = job.plan[k].aim

\* A replay adds no more records than it has results, each of a step that came up, and a dry
\* chain none.
ReplayInv ==
    job.kind \in {"chain", "path"} =>
        /\ Performed <= Len(job.results)
        /\ job.kind = "chain" /\ job.dry => Performed = 0
        /\ \A k \in DOMAIN job.plan : SourceSafe(k)
        /\ \A n \in 1 .. Performed : \E k \in n .. Len(job.results) : AddedFor(n, k)

AllSucceeded == \A k \in DOMAIN job.results : job.results[k] = "success"

\* The k-th record a chain adds is of the step it replays and led to the screen of its source,
\* or to one that cannot be told from it.
Repeated(k) == /\ Added(k).outcome = "success" /\ Added(k).intent = job.plan[k].intent
               /\ ~ScreensDiffer(Screen[Recorded(job.plan[k].source).after], Screen[Added(k).after])

\* As long as each result of a chain is a success, each has its record.
ChainInv ==
    job.kind = "chain" /\ ~job.dry =>
       /\ AllSucceeded => /\ Performed = Len(job.results)
                          /\ \A k \in DOMAIN job.results : Repeated(k)
       /\ job.final = "full" => AllSucceeded /\ Len(job.results) = Len(job.plan)

\* The k-th record a task adds is a success of its k-th step, and did not end in a dead end.
Achieved(k) == /\ Added(k).outcome = "success" /\ Added(k).intent = job.plan[k].intent
               /\ Readiness[Added(k).after] # "terminal"

\* A strict task ends at the first result that is no success; one that may report success
\* has a record for each.
TaskInv ==
    job.kind = "task" =>
       /\ job.final = "success" =>
             /\ Performed = Len(job.results)
             /\ \A k \in DOMAIN job.results : Achieved(k)
       /\ job.strict => \A k \in DOMAIN job.results :
                            job.results[k] # "success" => Idle /\ k = Len(job.results)

\* A flow performs the first items and skips the rest: it skips nothing before something
\* failed, stays partial or is not replayable.
FlowInv ==
    job.kind = "flow" =>
       /\ job.dry
       /\ Performed <= Len(job.results)
       /\ \A k \in DOMAIN job.results :
            /\ k < Performed => job.results[k] = "success"
            /\ IF k <= Performed THEN job.results[k] = Added(k).outcome ELSE job.results[k] = "skipped"
       /\ Performed < Len(job.results) \/ (Performed > 0 /\ job.results[Performed] # "success") \/ Idle
              => Len(job.results) = Len(job.plan)
       /\ \A k \in DOMAIN job.results : job.plan[k].number \notin job.remaining
       /\ Performed < Len(job.results) =>
            (Idle /\ job.final # "success") \/ (Performed > 0 /\ job.results[Performed] = "partial")
       /\ Idle /\ job.final = "success" => \A k \in DOMAIN job.results : job.results[k] = "success"
IInv == LogInv /\ JobInv /\ ReplayInv /\ ChainInv /\ TaskInv /\ FlowInv

-----------------------------------------------------------------------------
(* How tools begin.                                                           *)
\* No tool under way.
LEMMA NoJobIsJob == NoJob \in Job
  BY DEF NoJob, Job, Outcomes

\* Every part of the invariant but that of the records speaks of the tool under way.
LEMMA IdleNow ==
  ASSUME LogInv', job' = NoJob
  PROVE  IInv'
<1>1. /\ job'.kind = "none" /\ job'.pc = "done" /\ job'.known = 0 /\ job'.plan = << >>
      /\ job'.results = << >>
      /\ job' \in Job
  BY DEF NoJob, Job, Outcomes
<1>2. JobInv'
  BY <1>1 DEF JobInv, Open, Idle, LogInv
<1> QED
  BY <1>1, <1>2 DEF IInv, ReplayInv, ChainInv, TaskInv, FlowInv

\* A tool that only begins has no results: what is left to show is that its plan is safe.
LEMMA Fresh ==
  ASSUME LogInv, log' = log, job' \in Job, job'.known = Len(log), job'.results = << >>,
         job'.kind # "flow", job'.pc # "done" => Len(job'.plan) > 0,
         job'.pc = "check" => job'.kind = "chain",
         job'.kind \in {"chain", "path"} => \A k \in DOMAIN job'.plan : SourceSafe(k)',
         job'.kind = "chain" /\ job'.final = "full" => job'.plan = << >>
  PROVE  IInv'
<1>1. Performed' = 0 /\ LogInv' /\ Len(job'.results) = 0 /\ Len(log) \in Nat /\ DOMAIN job'.results = {}
  BY DEF Performed, LogInv
<1>2. Len(job'.plan) \in Nat
  BY DEF Job
<1>3. JobInv'
  BY <1>1, <1>2 DEF JobInv, Open, Idle
<1>4. ReplayInv'
  BY <1>1 DEF ReplayInv
<1>5. ChainInv'
  BY <1>1, <1>2 DEF ChainInv, AllSucceeded
<1>6. TaskInv'
  BY <1>1 DEF TaskInv
<1> QED
  BY <1>1, <1>3, <1>4, <1>5, <1>6 DEF IInv, FlowInv

\* An action outside a tool, and a session of its own.
LEMMA PerformActionKeeps ==
  ASSUME ReplayAssumption, IInv, NEW intent \in Intents, PerformAction(intent)
  PROVE  IInv'
<1>1. PICK r \in LiveResults(intent) : log' = Logged(Step(0, intent, NoScreen, 0), r)
  BY DEF PerformAction
<1>2. Step(0, intent, NoScreen, 0) \in PlanStep /\ Step(0, intent, NoScreen, 0).intent = intent
  BY DEF Step, PlanStep, Aims
<1>3. r \in Results(intent, FALSE)
  BY DEF Results
<1>4. LogInv'
  BY <1>1, <1>2, <1>3, LoggedStep DEF IInv
<1> QED
  BY <1>4, IdleNow DEF PerformAction

LEMMA StartSessionKeeps ==
  ASSUME StartSession
  PROVE  IInv'
<1>1. LogInv'
  BY DEF StartSession, LogInv
<1> QED
  BY <1>1, IdleNow DEF StartSession

\* The plan of a replay has a step for each record it replays.
LEMMA Replayed ==
  ASSUME ReplayAssumption, LogInv, NEW records \in Seq(LogRecord), NEW kind \in {"chain", "path"},
         NEW dry \in BOOLEAN, NEW anchor \in Nat,
         NEW j, j = Replaying(kind, dry, anchor, records)
  PROVE  /\ j \in Job /\ j.kind = kind /\ j.pc = "run"
         /\ j.known = Len(log) /\ j.anchor = anchor /\ j.results = << >> /\ j.final = "success"
         /\ Len(j.plan) = Len(records)
         /\ \A k \in 1 .. Len(records) : /\ j.plan[k].source = records[k].id
                                         /\ j.plan[k].intent = records[k].intent
                                         /\ AimedLike(j.plan[k], records[k])
<1> DEFINE p == [k \in DOMAIN records |-> IntentFromRecord(records[k])]
<1>1. \A record \in LogRecord : /\ IntentFromRecord(record) \in PlanStep
                                /\ IntentFromRecord(record).source = record.id
                                /\ IntentFromRecord(record).intent = record.intent
                                /\ AimedLike(IntentFromRecord(record), record)
  BY DEF IntentFromRecord, Step, PlanStep, LogRecord, Aims, AimedLike
<1>2. /\ p \in Seq(PlanStep) /\ Len(p) = Len(records)
      /\ \A k \in 1 .. Len(records) : p[k] = IntentFromRecord(records[k])
  BY <1>1
<1>3. j = [NoJob EXCEPT !.kind = kind, !.pc = "run", !.dry = dry, !.known = Len(log),
                        !.anchor = anchor, !.plan = p]
  BY DEF Replaying
<1> HIDE DEF p
<1>4. /\ j.kind = kind /\ j.pc = "run"
      /\ j.known = Len(log) /\ j.anchor = anchor /\ j.results = << >> /\ j.final = "success" /\ j.plan = p
  BY <1>3 DEF NoJob
<1>5. j \in Job
  <2>1. NoJob \in Job
    BY DEF NoJob, Job, Outcomes
  <2>2. Len(log) \in Nat
    BY DEF LogInv
  <2> QED
    <3>1. p \in Seq(PlanStep)
      BY <1>2
    <3>2. PICK N \in Job : N = NoJob
      BY <2>1
    <3>3. j = [N EXCEPT !.kind = kind, !.pc = "run", !.dry = dry, !.known = Len(log),
                        !.anchor = anchor, !.plan = p]
      BY <1>3, <3>2
    <3> QED
      BY <2>2, <3>1, <3>3, ZenonT(30) DEF Job
<1>6. \A k \in 1 .. Len(records) : /\ j.plan[k].source = records[k].id
                                   /\ j.plan[k].intent = records[k].intent
                                   /\ AimedLike(j.plan[k], records[k])
  BY <1>1, <1>2, <1>4
<1> QED
  BY <1>2, <1>4, <1>5, <1>6

\* A record stands where its id says.
LEMMA RecordedAt ==
  ASSUME LogInv, NEW p \in 1 .. Len(log)
  PROVE  /\ log[p] \in LogRecord /\ log[p].id = Len(log) + 1 - p /\ log[p].id \in 1 .. Len(log)
         /\ Recorded(log[p].id) = log[p]
<1>1. log[p] \in LogRecord /\ log[p].id = Len(log) + 1 - p /\ Len(log) \in Nat
  BY DEF LogInv
<1> QED
  BY <1>1 DEF Recorded

\* A step stays safe while the tool adds records.
LEMMA SourcesStay ==
  ASSUME JobInv, NEW k \in 1 .. Len(job.plan), SourceSafe(k), job.kind \in {"chain", "path"},
         job'.kind = job.kind, job'.plan = job.plan, job'.known = job.known, job'.anchor = job.anchor,
         \A id \in 1 .. Len(log) : Recorded(id)' = Recorded(id), Len(log) \in Nat
  PROVE  SourceSafe(k)'
<1> DEFINE source == job.plan[k].source
<1>1. source \in 1 .. job.known /\ job.known \in Nat /\ job.known <= Len(log)
  BY DEF SourceSafe, JobInv, Job
<1>2. \A id \in {source} : Recorded(id)' = Recorded(id)
  BY <1>1
<1>3. Recorded(job.plan[k].source)' = Recorded(job.plan[k].source)
  BY <1>2
<1> QED
  BY <1>3 DEF SourceSafe, HighRisk, AimedLike

\* The anchor is one of the records, where there is one.
LEMMA LastStableCheckpoint ==
  ASSUME LogInv
  PROVE  FindLastStableCheckpoint(log) \in 0 .. Len(log)
<1> DEFINE stable == {i \in DOMAIN log : log[i].outcome = "success" /\ log[i].stable}
<1>1. Len(log) \in Nat /\ stable \in SUBSET (1 .. Len(log))
  BY DEF LogInv
<1>2. PICK anchor : anchor = FindLastStableCheckpoint(log)
  OBVIOUS
<1>3. anchor = IF stable = {} THEN 0 ELSE Max(stable)
  BY <1>2 DEF FindLastStableCheckpoint
<1> HIDE DEF stable
<1>4. anchor \in 0 .. Len(log)
  <2>1. CASE stable = {}
    BY <1>1, <1>3, <2>1
  <2>2. CASE stable # {}
    <3>1. anchor \in stable
      BY <1>1, <1>3, <2>2, MaxOfPositions
    <3> QED
      BY <1>1, <3>1
  <2> QED
    BY <2>1, <2>2
<1> QED
  BY <1>2, <1>4

\* A chain plans from the records beyond the anchor, filtered by ReplaySafe.
LEMMA StartChainKeeps ==
  ASSUME ReplayAssumption, IInv, NEW fromStep \in 0 .. 1, NEW maxSteps \in 0 .. 1, NEW dry \in BOOLEAN,
         StartChain(fromStep, maxSteps, dry)
  PROVE  IInv'
<1> DEFINE anchor == FindLastStableCheckpoint(log)
           after == SubSeq(log, anchor + 1, Len(log))
           candidates == SubSeq(after, fromStep + 1, Len(after))
           limited == IF maxSteps = 0 THEN candidates
                      ELSE SubSeq(candidates, 1, IF maxSteps < Len(candidates) THEN maxSteps ELSE Len(candidates))
           safe == {i \in DOMAIN limited : ReplaySafe(limited[i])}
           ended(final) == [Replaying("chain", dry, 0, << >>) EXCEPT !.pc = "done", !.final = final]
<1>1. /\ log' = log
      /\ \/ \E final \in {"full", "partial", "failed"} : job' = ended(final)
         \/ /\ anchor # 0 /\ safe # {}
            /\ \E replayable \in Selections(limited, safe) :
                  job' = [Replaying("chain", dry, log[anchor].id, replayable) EXCEPT !.pc = "check"]
  BY DEF StartChain
<1>2. LogInv /\ Len(log) \in Nat
  BY DEF IInv, LogInv
<1>3. CASE \E final \in {"full", "partial", "failed"} : job' = ended(final)
  <2>1. PICK final \in {"full", "partial", "failed"} : job' = ended(final)
    BY <1>3
  <2>0. PICK j : j = Replaying("chain", dry, 0, << >>)
    OBVIOUS
  <2>a. << >> \in Seq(LogRecord) /\ Len(<< >>) = 0
    OBVIOUS
  <2>2. PICK none \in Seq(LogRecord) : none = << >> /\ Len(none) = 0
    BY <2>a
  <2>3. j \in Job /\ j.kind = "chain" /\ j.known = Len(log) /\ j.results = << >> /\ Len(j.plan) = 0
    <3>1. j = Replaying("chain", dry, 0, none)
      BY <2>0, <2>2
    <3>2. /\ j \in Job /\ j.kind = "chain" /\ j.known = Len(log) /\ j.results = << >>
          /\ Len(j.plan) = Len(none)
      BY <1>2, <3>1, Replayed
    <3> QED
      BY <2>2, <3>2
  <2>4. job' = [j EXCEPT !.pc = "done", !.final = final]
    BY <2>0, <2>1
  <2>5. /\ job' \in Job /\ job'.kind = "chain" /\ job'.pc = "done" /\ job'.known = Len(log)
        /\ job'.results = << >>
        /\ job'.plan = j.plan /\ job'.final = final
    BY <2>3, <2>4 DEF Job, Outcomes
  <2>6. job'.plan = << >> /\ DOMAIN job'.plan = {}
    BY <2>3, <2>5 DEF Job
  <2> QED
    BY <1>1, <1>2, <2>5, <2>6, Fresh
<1>4. CASE /\ anchor # 0 /\ safe # {}
           /\ \E replayable \in Selections(limited, safe) :
                  job' = [Replaying("chain", dry, log[anchor].id, replayable) EXCEPT !.pc = "check"]
  <2>1. PICK replayable \in Selections(limited, safe) :
                  job' = [Replaying("chain", dry, log[anchor].id, replayable) EXCEPT !.pc = "check"]
    BY <1>4
  <2>2. anchor \in 1 .. Len(log)
    BY <1>2, <1>4, LastStableCheckpoint
  <2> HIDE DEF anchor
  <2>3. /\ after \in Seq(LogRecord) /\ Len(after) = Len(log) - anchor
        /\ \A i \in 1 .. Len(after) : after[i] = log[i + anchor]
    BY <1>2, <2>2 DEF LogInv
  <2> HIDE DEF after
  <2>4. /\ candidates \in Seq(LogRecord)
        /\ Len(candidates) = IF fromStep <= Len(after) THEN Len(after) - fromStep ELSE 0
        /\ \A i \in 1 .. Len(candidates) : candidates[i] = after[i + fromStep]
    BY <2>3, SMTT(30)
  <2> HIDE DEF candidates
  <2>5. /\ limited \in Seq(LogRecord) /\ Len(limited) <= Len(candidates)
        /\ \A i \in 1 .. Len(limited) : limited[i] = candidates[i]
    BY <2>4
  <2>6. safe \in SUBSET (1 .. Len(limited)) /\ \A i \in safe : ReplaySafe(limited[i])
    BY <2>5
  <2> HIDE DEF limited, safe
  <2>7. replayable \in Seq(LogRecord) /\ Len(replayable) > 0 /\ InOrder(replayable, limited, safe)
    <3>1. \A i \in safe : limited[i] \in LogRecord
      BY <2>5, <2>6
    <3> QED
      BY <1>4, <2>5, <2>6, <3>1, SelectionsKeepOrder
  <2>8. PICK f \in [1 .. Len(replayable) -> safe] :
               /\ \A m, n \in 1 .. Len(replayable) : m < n => f[m] < f[n]
               /\ \A n \in 1 .. Len(replayable) : replayable[n] = limited[f[n]]
    BY <2>7 DEF InOrder
  <2> DEFINE p(n) == f[n] + fromStep + anchor
  <2>9. ASSUME NEW n \in 1 .. Len(replayable)
        PROVE  p(n) \in anchor + 1 .. Len(log) /\ replayable[n] = log[p(n)] /\ ReplaySafe(log[p(n)])
    <3>1. /\ f[n] \in safe /\ f[n] \in 1 .. Len(limited) /\ replayable[n] = limited[f[n]]
          /\ ReplaySafe(limited[f[n]])
      BY <2>6, <2>8
    <3>2. f[n] \in 1 .. Len(candidates) /\ replayable[n] = candidates[f[n]] /\ Len(candidates) \in Nat
      BY <2>4, <2>5, <3>1, SMTT(30)
    <3>3. /\ f[n] + fromStep \in 1 .. Len(after) /\ replayable[n] = after[f[n] + fromStep]
          /\ Len(after) \in Nat
      <4>1. PICK i : i = f[n]
        OBVIOUS
      <4>2. Len(after) \in Nat /\ Len(candidates) \in Nat
        BY <2>3, <2>4
      <4>3. /\ i \in 1 .. Len(candidates) /\ replayable[n] = candidates[i]
            /\ candidates[i] = after[i + fromStep]
        BY <2>4, <3>2, <4>1, Zenon
      <4>4. Len(candidates) = IF fromStep <= Len(after) THEN Len(after) - fromStep ELSE 0
        BY <2>4, Zenon
      <4>5. i + fromStep \in 1 .. Len(after)
        BY <4>2, <4>3, <4>4
      <4> QED
        BY <4>1, <4>2, <4>3, <4>5, Zenon
    <3>4. replayable[n] = log[(f[n] + fromStep) + anchor]
      BY <2>3, <3>3
    <3>5. (f[n] + fromStep) + anchor \in anchor + 1 .. Len(log)
      BY <1>2, <2>2, <2>3, <3>3, SMTT(30)
    <3>6. replayable[n] = log[p(n)] /\ p(n) \in anchor + 1 .. Len(log)
      BY <3>1, <3>4, <3>5
    <3>7. log[p(n)] = limited[f[n]]
      BY <3>1, <3>6
    <3>8. ReplaySafe(log[p(n)])
      BY <3>1, <3>7
    <3> QED
      BY <3>6, <3>8
  <2>10. \A m, n \in 1 .. Len(replayable) : m < n => p(m) < p(n)
    <3>1. ASSUME NEW m \in 1 .. Len(replayable), NEW n \in 1 .. Len(replayable), m < n
          PROVE  p(m) < p(n)
      <4>1. PICK i, j : i = f[m] /\ j = f[n]
        OBVIOUS
      <4>2. i \in 1 .. Len(limited) /\ j \in 1 .. Len(limited)
        BY <2>6, <2>8, <4>1, Zenon
      <4>3. i < j
        BY <2>8, <3>1, <4>1, Zenon
      <4>4. i + fromStep + anchor < j + fromStep + anchor
        BY <2>2, <4>2, <4>3
      <4> QED
        BY <4>1, <4>4, Zenon
    <3> QED
      BY <3>1
  <2> HIDE DEF p
  <2>11. /\ log[anchor] \in LogRecord /\ log[anchor].id = Len(log) + 1 - anchor
         /\ log[anchor].id \in 1 .. Len(log)
         /\ Recorded(log[anchor].id) = log[anchor]
    BY <1>2, <2>2, RecordedAt
  <2>a. PICK j : j = Replaying("chain", dry, log[anchor].id, replayable)
    OBVIOUS
  <2>12. /\ j \in Job /\ j.kind = "chain" /\ j.known = Len(log) /\ j.anchor = log[anchor].id
         /\ j.results = << >>
         /\ j.final = "success" /\ Len(j.plan) = Len(replayable)
         /\ \A k \in 1 .. Len(replayable) : /\ j.plan[k].source = replayable[k].id
                                            /\ j.plan[k].intent = replayable[k].intent
                                            /\ AimedLike(j.plan[k], replayable[k])
    <3>1. log[anchor].id \in Nat
      BY <2>11
    <3> QED
      BY <1>2, <2>7, <2>a, <3>1, Replayed, SMTT(30)
  <2>13. job' = [j EXCEPT !.pc = "check"]
    BY <2>1, <2>a
  <2>14. /\ job' \in Job /\ job'.kind = "chain" /\ job'.pc = "check" /\ job'.known = Len(log)
         /\ job'.anchor = log[anchor].id /\ job'.results = << >> /\ job'.final = "success"
         /\ DOMAIN job'.plan = 1 .. Len(replayable) /\ Len(job'.plan) > 0
         /\ \A k \in 1 .. Len(replayable) : /\ job'.plan[k].source = replayable[k].id
                                            /\ job'.plan[k].intent = replayable[k].intent
    <3>1. /\ job' \in Job /\ job'.kind = "chain" /\ job'.pc = "check" /\ job'.known = Len(log)
          /\ job'.anchor = log[anchor].id /\ job'.results = << >> /\ job'.final = "success"
          /\ job'.plan = j.plan
      BY <2>12, <2>13 DEF Job
    <3>2. DOMAIN j.plan = 1 .. Len(replayable)
      BY <2>12 DEF Job
    <3> QED
      BY <2>7, <2>12, <3>1, <3>2
  <2>b. \A k \in 1 .. Len(replayable) : AimedLike(job'.plan[k], replayable[k])
    <3>1. job'.plan = j.plan
      BY <2>12, <2>13 DEF Job
    <3> QED
      BY <2>12, <3>1
  <2>15. ASSUME NEW k \in 1 .. Len(replayable) PROVE SourceSafe(k)'
    <3>1. p(k) \in anchor + 1 .. Len(log) /\ replayable[k] = log[p(k)] /\ ReplaySafe(log[p(k)])
      BY <2>9
    <3>2. p(k) \in 1 .. Len(log)
      BY <1>2, <2>2, <3>1
    <3>3. /\ job'.plan[k].source = Len(log) + 1 - p(k) /\ job'.plan[k].source \in 1 .. Len(log)
          /\ Recorded(job'.plan[k].source) = log[p(k)]
      BY <1>2, <2>14, <3>1, <3>2, RecordedAt
    <3>4. job'.plan[k].source < job'.anchor /\ job'.anchor <= Len(log)
      BY <1>2, <2>2, <2>11, <2>14, <3>1, <3>3
    <3>5. ASSUME NEW m \in 1 .. Len(replayable), k < m PROVE job'.plan[m].source < job'.plan[k].source
      <4>1. p(m) \in 1 .. Len(log) /\ replayable[m] = log[p(m)] /\ p(k) < p(m)
        BY <1>2, <2>2, <2>9, <2>10, <3>5, SMTT(30)
      <4>2. job'.plan[m].source = Len(log) + 1 - p(m)
        BY <1>2, <2>14, <4>1, RecordedAt, SMTT(30)
      <4> QED
        BY <1>2, <3>2, <3>3, <4>1, <4>2
    <3>6. Recorded(job.plan[k].source)' = log[p(k)]
      BY <1>1, <2>14, <3>3 DEF Recorded
    <3>7. /\ log[p(k)].outcome = "success" /\ ~HighRisk(log[p(k)])
          /\ log[p(k)].fallback = FALSE /\ log[p(k)].intent \notin Unsafe
      BY <2>2, <3>1, <3>2, <1>2, RecordedAt DEF ReplaySafe, LogRecord
    <3> QED
      <4>1. AimedLike(job.plan[k], Recorded(job.plan[k].source))'
        BY <2>b, <3>1, <3>6 DEF AimedLike
      <4> QED
        BY <2>14, <3>1, <3>3, <3>4, <3>5, <3>6, <3>7, <4>1 DEF SourceSafe, HighRisk
  <2> QED
    BY <1>1, <1>2, <2>14, <2>15, Fresh
<1> QED
  BY <1>1, <1>3, <1>4

\* A path plans from the successes that carry no risk.
LEMMA StartPathKeeps ==
  ASSUME ReplayAssumption, IInv, NEW dry \in BOOLEAN, StartPath(dry)
  PROVE  IInv'
<1>0. PICK declined : declined = Replaying("path", dry, 0, << >>)
  OBVIOUS
<1>a. DOMAIN log = 1 .. Len(log)
  BY DEF IInv, LogInv
<1>1. /\ log' = log
      /\ \/ job' = [declined EXCEPT !.pc = "done", !.final = "failed"]
         \/ \E k \in 1 .. Len(log) : /\ log[k].outcome = "success" /\ ~HighRisk(log[k])
                                     /\ job' = Replaying("path", dry, 0, <<log[k]>>)
  BY <1>0, <1>a DEF StartPath
<1>2. LogInv /\ Len(log) \in Nat
  BY DEF IInv, LogInv
<1>3. CASE job' = [declined EXCEPT !.pc = "done", !.final = "failed"]
  <2>a. << >> \in Seq(LogRecord) /\ Len(<< >>) = 0
    OBVIOUS
  <2>1. PICK none \in Seq(LogRecord) : none = << >> /\ Len(none) = 0
    BY <2>a
  <2>2. declined \in Job /\ declined.kind = "path" /\ declined.known = Len(log) /\ declined.results = << >>
        /\ Len(declined.plan) = 0
    <3>1. declined = Replaying("path", dry, 0, none)
      BY <1>0, <2>1
    <3>2. declined \in Job /\ declined.kind = "path" /\ declined.known = Len(log) /\ declined.results = << >>
          /\ Len(declined.plan) = Len(none)
      BY <1>2, <3>1, Replayed
    <3> QED
      BY <2>1, <3>2
  <2>3. /\ job' \in Job /\ job'.kind = "path" /\ job'.pc = "done" /\ job'.known = Len(log)
        /\ job'.results = << >>
        /\ job'.plan = declined.plan
    BY <1>3, <2>2 DEF Job, Outcomes
  <2>4. DOMAIN job'.plan = {}
    BY <2>2, <2>3 DEF Job
  <2> QED
    BY <1>1, <1>2, <2>3, <2>4, Fresh
<1>4. ASSUME NEW p \in 1 .. Len(log), log[p].outcome = "success", ~HighRisk(log[p]),
             job' = Replaying("path", dry, 0, <<log[p]>>)
      PROVE  IInv'
  <2>1. /\ log[p] \in LogRecord /\ log[p].id \in 1 .. Len(log) /\ Recorded(log[p].id) = log[p]
    BY <1>2, <1>4, RecordedAt
  <2>a. <<log[p]>> \in Seq(LogRecord) /\ Len(<<log[p]>>) = 1 /\ <<log[p]>>[1] = log[p]
    BY <2>1
  <2>2. PICK one \in Seq(LogRecord) : one = <<log[p]>> /\ Len(one) = 1 /\ one[1] = log[p]
    BY <2>a
  <2>3. /\ job' \in Job /\ job'.kind = "path" /\ job'.pc = "run" /\ job'.known = Len(log)
        /\ job'.results = << >>
        /\ Len(job'.plan) = 1 /\ job'.plan[1].source = log[p].id /\ job'.plan[1].intent = log[p].intent
        /\ job'.anchor = 0 /\ AimedLike(job'.plan[1], log[p])
    <3>0. PICK j : j = Replaying("path", dry, 0, one)
      OBVIOUS
    <3>1. j \in Job /\ j.kind = "path" /\ j.pc = "run" /\ j.known = Len(log) /\ j.results = << >>
          /\ Len(j.plan) = Len(one) /\ j.anchor = 0
          /\ \A k \in 1 .. Len(one) : /\ j.plan[k].source = one[k].id /\ j.plan[k].intent = one[k].intent
                                     /\ AimedLike(j.plan[k], one[k])
      BY <1>2, <3>0, Replayed
    <3>2. job' = j
      BY <1>4, <2>2, <3>0
    <3> QED
      BY <2>2, <3>1, <3>2
  <2>4. DOMAIN job'.plan = {1}
    BY <2>3 DEF Job
  <2>5. Recorded(job.plan[1].source)' = log[p]
    BY <1>1, <2>1, <2>3 DEF Recorded
  <2>6. \A k \in DOMAIN job'.plan : SourceSafe(k)'
    BY <1>4, <2>1, <2>3, <2>4, <2>5, SMTT(30) DEF SourceSafe, HighRisk, AimedLike
  <2> QED
    BY <1>1, <1>2, <2>3, <2>6, Fresh
<1> QED
  BY <1>1, <1>3, <1>4

\* A task and a flow plan from what they are given.
LEMMA StartTaskKeeps ==
  ASSUME ReplayAssumption, IInv, NEW intents \in IntentLists, NEW strict \in BOOLEAN, NEW dry \in BOOLEAN,
         StartTask(intents, strict, dry)
  PROVE  IInv'
<1>1. intents \in Seq(Intents) /\ Len(intents) > 0
  BY DEF IntentLists, BoundedSeq, SeqOf, ReplayAssumption
<1> DEFINE n == IF MaxSteps < Len(intents) THEN MaxSteps ELSE Len(intents)
           p == [k \in 1 .. n |-> Step(k, intents[k], NoScreen, 0)]
<1>2. n \in Nat /\ n > 0 /\ n <= Len(intents)
  BY <1>1 DEF ReplayAssumption
<1> HIDE DEF n
<1>3. \A k \in 1 .. n : Step(k, intents[k], NoScreen, 0) \in PlanStep
  BY <1>1, <1>2 DEF Step, PlanStep, Aims
<1>4. p \in Seq(PlanStep) /\ Len(p) = n
  BY <1>2, <1>3
<1>5. PICK none \in Job : none = NoJob
  BY NoJobIsJob
<1>6. job' = [none EXCEPT !.kind = "task", !.pc = "run", !.dry = dry, !.strict = strict,
                          !.known = Len(log), !.plan = p]
  BY <1>5 DEF StartTask, n
<1> HIDE DEF p
<1>7. LogInv /\ Len(log) \in Nat /\ log' = log
  BY DEF IInv, LogInv, StartTask
<1>8. job' \in Job
  BY <1>4, <1>5, <1>6, <1>7, ZenonT(30) DEF Job
<1>9. /\ job'.kind = "task" /\ job'.known = Len(log) /\ job'.results = << >> /\ job'.pc = "run"
      /\ job'.plan = p
  BY <1>5, <1>6 DEF Job, NoJob
<1> QED
  BY <1>2, <1>4, <1>7, <1>8, <1>9, Fresh

LEMMA StartFlowKeeps ==
  ASSUME ReplayAssumption, IInv, NEW items \in ItemLists, StartFlow(items)
  PROVE  IInv'
<1>1. PICK plan \in PlanFromFlow(items) :
         LET started == [NoJob EXCEPT !.kind = "flow", !.pc = "run", !.dry = TRUE, !.known = Len(log),
                                      !.plan = plan, !.remaining = 1 .. Len(plan)]
         IN  job' = IF \E k \in DOMAIN items : items[k] = "unsupported"
                    THEN [started EXCEPT !.pc = "done", !.final = "partial", !.remaining = {},
                                         !.results = [k \in DOMAIN plan |-> "skipped"],
                                         !.events = {"replay_stopped"}]
                    ELSE started
  BY DEF StartFlow
<1>2. LogInv /\ Len(log) \in Nat /\ log' = log
  BY DEF IInv, LogInv, StartFlow
<1> DEFINE steps == [k \in DOMAIN items |-> Step(k, items[k], NoScreen, 0)]
           keep == {k \in DOMAIN items : items[k] \in Intents}
<1>3. items \in Seq(Intents \cup {"scalar", "unsupported"})
  BY DEF ItemLists, BoundedSeq, SeqOf, ReplayAssumption
<1> DEFINE AnyStep == {steps[k] : k \in DOMAIN items}
<1>4. steps \in Seq(AnyStep) /\ Len(steps) = Len(items) /\ keep \in SUBSET (1 .. Len(steps))
  BY <1>3
<1>5. \A k \in keep : steps[k] \in PlanStep
  BY <1>3 DEF Step, PlanStep, Aims
<1>6. plan \in Selections(steps, keep)
  BY <1>1 DEF PlanFromFlow
<1> HIDE DEF steps, keep, AnyStep
<1>7. plan \in Seq(PlanStep) /\ Len(plan) \in Nat
  <2>1. plan \in Seq(PlanStep)
    BY <1>4, <1>5, <1>6, SelectionsKeepOrder
  <2> QED
    BY <2>1
<1>8. PICK none \in Job : none = NoJob
  BY NoJobIsJob
<1> DEFINE remaining == 1 .. Len(plan)
           skipped == [k \in DOMAIN plan |-> "skipped"]
<1>9. remaining \in SUBSET Nat /\ skipped \in Seq(Statuses) /\ Len(skipped) = Len(plan)
      /\ \A k \in 1 .. Len(plan) : skipped[k] = "skipped"
  BY <1>7 DEF Statuses
<1>10. PICK started : started = [none EXCEPT !.kind = "flow", !.pc = "run", !.dry = TRUE, !.known = Len(log),
                                      !.plan = plan, !.remaining = remaining]
  OBVIOUS
<1>11. \/ job' = started
       \/ job' = [started EXCEPT !.pc = "done", !.final = "partial", !.remaining = {},
                                 !.results = skipped, !.events = {"replay_stopped"}]
  BY <1>1, <1>8, <1>10
<1> HIDE DEF remaining, skipped
<1>12. /\ started \in Job /\ started.kind = "flow" /\ started.pc = "run" /\ started.dry
       /\ started.known = Len(log)
       /\ started.plan = plan
  BY <1>2, <1>7, <1>8, <1>9, <1>10 DEF Job
<1>a. started.results = << >>
  BY <1>8, <1>10 DEF Job, NoJob
<1>13. CASE job' = started
  <2>1. /\ JobInv' /\ Performed' = 0 /\ DOMAIN job'.results = {} /\ Len(job'.results) = 0
    BY <1>2, <1>7, <1>12, <1>a, <1>13 DEF JobInv, Open, Idle, Performed
  <2> QED
    BY <1>2, <1>12, <1>13, <2>1 DEF IInv, LogInv, ReplayInv, ChainInv, TaskInv, FlowInv, Idle
<1>14. CASE job' = [started EXCEPT !.pc = "done", !.final = "partial", !.remaining = {},
                                   !.results = skipped, !.events = {"replay_stopped"}]
  <2>1. /\ job'.kind = "flow" /\ job'.pc = "done" /\ job'.known = Len(log) /\ job'.final = "partial"
        /\ job'.plan = plan /\ job'.results = skipped /\ job'.remaining = {} /\ job'.dry
    BY <1>12, <1>14 DEF Job
  <2>2. job' \in Job
    BY <1>9, <1>12, <1>14 DEF Job, Outcomes
  <2>3. Performed' = 0 /\ Len(job'.results) = Len(plan) /\ DOMAIN job'.results = 1 .. Len(plan)
    BY <1>2, <1>7, <1>9, <2>1 DEF Performed
  <2>4. JobInv'
    BY <1>2, <1>7, <2>1, <2>2, <2>3 DEF JobInv, Open, Idle
  <2>5. FlowInv'
    BY <1>7, <1>9, <2>1, <2>3 DEF FlowInv, Idle
  <2> QED
    BY <1>2, <2>1, <2>4, <2>5 DEF IInv, LogInv, ReplayInv, ChainInv, TaskInv
<1> QED
  BY <1>11, <1>13, <1>14

\* The state check of a chain.
LEMMA ChainCheckKeeps ==
  ASSUME ReplayAssumption, IInv, NEW seen \in Views, NEW read \in BOOLEAN, ChainCheck(seen, read)
  PROVE  IInv'
<1>1. /\ log' = log /\ job.kind = "chain" /\ job.pc = "check" /\ job \in Job /\ LogInv /\ Len(log) \in Nat
      /\ \/ job' = [job EXCEPT !.pc = "done", !.final = "failed"]
         \/ job' = [job EXCEPT !.pc = "run"]
  BY DEF ChainCheck, IInv, JobInv, LogInv
<1>2. /\ job' \in Job /\ job'.kind = "chain" /\ job'.pc \in {"run", "done"} /\ job'.plan = job.plan
      /\ job'.results = job.results /\ job'.known = job.known /\ job'.anchor = job.anchor
  <2>1. CASE job' = [job EXCEPT !.pc = "done", !.final = "failed"]
    <3>1. "failed" \in Outcomes \cup {"full"}
      BY DEF Outcomes
    <3> QED
      BY <1>1, <2>1, <3>1 DEF Job
  <2>2. CASE job' = [job EXCEPT !.pc = "run"]
    BY <1>1, <2>2 DEF Job
  <2> QED
    BY <1>1, <2>1, <2>2
<1>3. job'.dry = job.dry
  BY <1>1 DEF Job
<1>4. job'.final = job.final \/ job'.final = "failed"
  BY <1>1 DEF Job
<1>5. job.results = << >>
  BY <1>1 DEF IInv, JobInv
<1>6. Performed' = Performed
  BY <1>1, <1>2 DEF Performed
<1>7. JobInv'
  BY <1>1, <1>2, <1>5 DEF IInv, JobInv, Open, Idle
<1>8. \A k \in 1 .. Len(job.plan) : SourceSafe(k)'
  <2>1. \A id \in 1 .. Len(log) : Recorded(id)' = Recorded(id)
    BY <1>1 DEF Recorded
  <2>2. \A k \in 1 .. Len(job.plan) : SourceSafe(k)
    BY <1>1 DEF IInv, ReplayInv, Job
  <2> QED
    BY <1>1, <1>2, <2>1, <2>2, SourcesStay DEF IInv
<1>9. ReplayInv'
  <2>1. Performed = 0
    BY <1>1, <1>5 DEF IInv, ReplayInv, JobInv, Performed, Job
  <2>2. 1 .. Performed' = {} /\ Performed' <= Len(job'.results) /\ DOMAIN job'.plan = 1 .. Len(job.plan)
    BY <1>1, <1>2, <1>5, <1>6, <2>1 DEF Job
  <2> QED
    BY <1>2, <1>6, <1>8, <2>1, <2>2 DEF ReplayInv
<1>10. ChainInv'
  <2>1. DOMAIN job.results = {} /\ Len(job.results) = 0 /\ Performed = 0
    BY <1>1, <1>5 DEF IInv, ReplayInv, JobInv, Performed, Job
  <2>2. job.final # "full" \/ job.dry
    BY <1>1, <2>1 DEF IInv, ChainInv, JobInv, Open, Idle
  <2> QED
    BY <1>2, <1>3, <1>4, <1>6, <2>1, <2>2 DEF ChainInv, AllSucceeded
<1> QED
  BY <1>1, <1>2, <1>7, <1>9, <1>10 DEF IInv, LogInv, TaskInv, FlowInv

\* What one action adds to the session's records, as a tool under way counts them.
LEMMA StepAdds ==
  ASSUME ReplayAssumption, LogInv, JobInv, NEW intent \in Intents, NEW dry \in BOOLEAN,
         NEW r \in Results(intent, dry),
         NEW step \in PlanStep, step.intent = intent, log' = Logged(step, r), job'.known = job.known
  PROVE  /\ r.outcome \in Outcomes /\ r.after \in Views /\ (r.outcome # "failed" => r.recorded)
         /\ LogInv' /\ job.known <= Len(log')
         /\ Performed \in Nat /\ Performed' = IF r.recorded THEN Performed + 1 ELSE Performed
         /\ \A id \in 1 .. Len(log) : Recorded(id)' = Recorded(id)
         /\ \A k \in 1 .. Performed : Added(k)' = Added(k)
         /\ r.recorded => \A k \in {Performed + 1} :
               /\ Added(k)'.intent = step.intent /\ Added(k)'.aim = step.aim
               /\ Added(k)'.outcome = r.outcome
               /\ r.outcome = "success" => Added(k)'.after = r.after
<1>1. /\ r \in Result
      /\ r.outcome # "failed" => r.recorded
      /\ LogInv'
      /\ Len(log') = IF r.recorded THEN Len(log) + 1 ELSE Len(log)
      /\ \A id \in 1 .. Len(log) : Recorded(id)' = Recorded(id)
  BY LoggedStep
<1>2. r.recorded => \A id \in {Len(log) + 1} :
               /\ Recorded(id)'.intent = step.intent /\ Recorded(id)'.aim = step.aim
               /\ Recorded(id)'.outcome = r.outcome
               /\ r.outcome = "success" => Recorded(id)'.after = r.after
  BY LoggedStep
<1>3. Len(log) \in Nat /\ job.known \in Nat /\ job.known <= Len(log)
  BY DEF LogInv, JobInv, Job
<1>4. /\ Performed \in Nat /\ Performed' = (IF r.recorded THEN Performed + 1 ELSE Performed)
      /\ job.known <= Len(log')
  BY <1>1, <1>3 DEF Performed
<1>5. \A k : Added(k)' = log'[Len(log') + 1 - (job.known + k)]
  BY DEF Added, Recorded
<1>6. ASSUME NEW k \in 1 .. Performed PROVE Added(k)' = Added(k)
  <2>1. job.known + k \in 1 .. Len(log)
    BY <1>3 DEF Performed
  <2>2. \A id \in {job.known + k} : Recorded(id)' = Recorded(id)
    BY <1>1, <2>1
  <2> QED
    BY <1>5, <2>2 DEF Added, Recorded
<1>7. ASSUME NEW k \in {Performed + 1}, r.recorded
      PROVE  /\ Added(k)'.intent = step.intent /\ Added(k)'.aim = step.aim
             /\ Added(k)'.outcome = r.outcome
             /\ r.outcome = "success" => Added(k)'.after = r.after
  <2>1. job.known + k = Len(log) + 1
    BY <1>3 DEF Performed
  <2>2. \A id \in {job.known + k} :
               /\ Recorded(id)'.intent = step.intent /\ Recorded(id)'.aim = step.aim
               /\ Recorded(id)'.outcome = r.outcome
               /\ r.outcome = "success" => Recorded(id)'.after = r.after
    BY <1>2, <1>7, <2>1
  <2>3. /\ Added(k)' = log'[Len(log') + 1 - (job.known + k)]
        /\ \A id \in {job.known + k} : Recorded(id)' = log'[Len(log') + 1 - id]
    BY <1>5 DEF Recorded
  <2> QED
    BY <2>2, <2>3
<1> QED
  BY <1>1, <1>4, <1>6, <1>7 DEF Result

-----------------------------------------------------------------------------
(* The steps of the four tools.                                               *)
LEMMA ChainStepKeeps ==
  ASSUME ReplayAssumption, IInv, ChainStep
  PROVE  IInv'
<1> DEFINE n == Len(job.results) + 1
           step == job.plan[n]
<1>1. /\ LogInv /\ JobInv /\ job \in Job /\ Len(log) \in Nat /\ job.kind = "chain" /\ job.pc = "run"
      /\ Len(job.results) < Len(job.plan) /\ job.results \in Seq(Statuses) /\ job.plan \in Seq(PlanStep)
      /\ job.known \in Nat /\ job.known <= Len(log)
  <2>1. LogInv /\ JobInv /\ job.kind = "chain" /\ job.pc = "run"
    BY DEF ChainStep, Stands, IInv
  <2>2. job \in Job /\ job.known <= Len(log) /\ Len(job.results) < Len(job.plan)
    BY <2>1 DEF JobInv, Open, Idle
  <2> QED
    BY <2>1, <2>2 DEF LogInv, Job
<1>2. n \in 1 .. Len(job.plan) /\ step \in PlanStep /\ step.intent \in Intents
  <2>1. n \in 1 .. Len(job.plan)
    BY <1>1
  <2>2. step \in PlanStep
    BY <1>1, <2>1
  <2> QED
    BY <2>1, <2>2 DEF PlanStep
<1>3. PICK status, rs : /\ rs = Append(job.results, status)
                        /\ job' = (IF Len(rs) < Len(job.plan) THEN [job EXCEPT !.results = rs]
                                   ELSE [job EXCEPT !.results = rs, !.pc = "done", !.final = ChainOverall(rs)])
                        /\ \/ job.dry /\ status = "success" /\ log' = log
                           \/ ~job.dry /\ \E r \in LiveResults(step.intent) :
                                 log' = Logged(step, r) /\ status = Compared(step, r)
  BY DEF ChainStep, NextStep
<1> HIDE DEF step
<1>4. status \in Statuses
  BY <1>3 DEF Compared, Statuses, Outcomes
<1>5. /\ rs \in Seq(Statuses) /\ Len(rs) = n
      /\ \A k \in 1 .. n : rs[k] = IF k = n THEN status ELSE job.results[k]
  BY <1>1, <1>3, <1>4
<1> DEFINE done == Len(rs) >= Len(job.plan)
<1>6. /\ ChainOverall(rs) \in Outcomes \cup {"full"}
      /\ (ChainOverall(rs) = "full" => \A k \in 1 .. n : rs[k] = "success")
  BY <1>5 DEF ChainOverall, Outcomes
<1>7. /\ job' \in Job /\ job'.kind = "chain" /\ job'.plan = job.plan /\ job'.known = job.known
      /\ job'.anchor = job.anchor
      /\ job'.results = rs
      /\ IF n < Len(job.plan) THEN job'.pc = "run" /\ job'.final = job.final
         ELSE job'.pc = "done" /\ job'.final = ChainOverall(rs)
  BY <1>1, <1>3, <1>5, <1>6 DEF Job, Outcomes
<1>8. job'.dry = job.dry
  BY <1>1, <1>3 DEF Job
<1>9. /\ LogInv' /\ job.known <= Len(log')
      /\ \A id \in 1 .. Len(log) : Recorded(id)' = Recorded(id)
      /\ Performed \in Nat /\ Performed' \in {Performed, Performed + 1}
      /\ (job.dry => Performed' = Performed)
      /\ \A k \in 1 .. Performed : Added(k)' = Added(k)
      /\ (Performed' = Performed + 1 => \A k \in {Performed + 1} :
             Added(k)'.intent = step.intent /\ Added(k)'.aim = step.aim)
  <2>1. CASE job.dry /\ log' = log
    BY <1>1, <1>7, <2>1 DEF LogInv, Recorded, Performed, Added
  <2>2. ASSUME ~job.dry, NEW r \in LiveResults(step.intent), log' = Logged(step, r)
        PROVE  /\ LogInv' /\ job.known <= Len(log')
               /\ \A id \in 1 .. Len(log) : Recorded(id)' = Recorded(id)
               /\ Performed \in Nat /\ Performed' \in {Performed, Performed + 1}
               /\ \A k \in 1 .. Performed : Added(k)' = Added(k)
               /\ (Performed' = Performed + 1 => \A k \in {Performed + 1} :
                     Added(k)'.intent = step.intent /\ Added(k)'.aim = step.aim)
    <3>1. r \in Results(step.intent, FALSE)
      BY DEF Results
    <3>2. /\ LogInv' /\ job.known <= Len(log')
          /\ Performed \in Nat /\ Performed' = (IF r.recorded THEN Performed + 1 ELSE Performed)
          /\ \A id \in 1 .. Len(log) : Recorded(id)' = Recorded(id)
          /\ \A k \in 1 .. Performed : Added(k)' = Added(k)
          /\ r.recorded => \A k \in {Performed + 1} :
                Added(k)'.intent = step.intent /\ Added(k)'.aim = step.aim
      <4>1. LogInv /\ JobInv /\ job'.known = job.known /\ log' = Logged(step, r)
        BY <1>1, <1>7, <2>2
      <4>2. step \in PlanStep /\ step.intent \in Intents /\ FALSE \in BOOLEAN
        BY <1>2
      <4>3. /\ LogInv' /\ job.known <= Len(log')
            /\ Performed \in Nat /\ Performed' = (IF r.recorded THEN Performed + 1 ELSE Performed)
            /\ \A id \in 1 .. Len(log) : Recorded(id)' = Recorded(id)
            /\ \A k \in 1 .. Performed : Added(k)' = Added(k)
        BY <3>1, <4>1, <4>2, StepAdds
      <4>4. r.recorded => \A k \in {Performed + 1} :
               /\ Added(k)'.intent = step.intent /\ Added(k)'.aim = step.aim
               /\ Added(k)'.outcome = r.outcome
               /\ r.outcome = "success" => Added(k)'.after = r.after
        BY <3>1, <4>1, <4>2, StepAdds
      <4> QED
        BY <4>3, <4>4
    <3> QED
      BY <3>2
  <2> QED
    BY <1>3, <2>1, <2>2
<1>10. JobInv'
  BY <1>1, <1>2, <1>5, <1>7, <1>9 DEF JobInv, Open, Idle
<1>11. ReplayInv'
  <2>1. /\ Performed <= Len(job.results) /\ (job.dry => Performed = 0)
        /\ \A k \in 1 .. Len(job.plan) : SourceSafe(k)
        /\ \A m \in 1 .. Performed : \E k \in m .. Len(job.results) : AddedFor(m, k)
    BY <1>1 DEF IInv, ReplayInv
  <2>2. \A k \in 1 .. Len(job.plan) : SourceSafe(k)'
    BY <1>1, <1>7, <1>9, <2>1, SourcesStay
  <2>3. Performed' <= n
    BY <1>1, <1>9, <2>1
  <2>4. ASSUME NEW m \in 1 .. Performed' PROVE \E k \in m .. n : AddedFor(m, k)'
    <3>1. CASE m \in 1 .. Performed
      <4>1. PICK k \in m .. Len(job.results) : AddedFor(m, k)
        BY <2>1, <3>1
      <4>2. k \in m .. n /\ Added(m)' = Added(m)
        BY <1>1, <1>9, <3>1, <4>1
      <4>3. AddedFor(m, k)'
        BY <1>7, <4>1, <4>2 DEF AddedFor
      <4> QED
        BY <4>2, <4>3
    <3>2. CASE m \notin 1 .. Performed
      <4>1. m = Performed + 1 /\ Performed' = Performed + 1 /\ n \in m .. n
        BY <1>1, <1>9, <2>1, <3>2
      <4>2. Added(m)'.intent = step.intent /\ Added(m)'.aim = step.aim
        BY <1>9, <4>1
      <4>3. PICK k \in m .. n : k = n
        BY <4>1
      <4>4. step = job.plan[k]
        BY <4>3 DEF step
      <4>5. AddedFor(m, k)'
        BY <1>7, <4>2, <4>4 DEF AddedFor
      <4> QED
        BY <4>5
    <3> QED
      BY <3>1, <3>2
  <2> QED
    <3>1. job'.dry => Performed' = 0
      BY <1>8, <1>9, <2>1
    <3>2. DOMAIN job'.plan = 1 .. Len(job.plan) /\ Len(job'.results) = n
      BY <1>1, <1>5, <1>7
    <3> QED
      BY <1>7, <2>2, <2>3, <2>4, <3>1, <3>2 DEF ReplayInv
<1>12. ASSUME ~job.dry PROVE ChainInv'
  <2>1. PICK r \in LiveResults(step.intent) : log' = Logged(step, r) /\ status = Compared(step, r)
    BY <1>3, <1>12
  <2>2. r \in Results(step.intent, FALSE)
    BY DEF Results
  <2>3. /\ r.outcome # "failed" => r.recorded
        /\ Performed' = IF r.recorded THEN Performed + 1 ELSE Performed
        /\ \A k \in 1 .. Performed : Added(k)' = Added(k)
        /\ r.recorded => \A k \in {Performed + 1} :
               /\ Added(k)'.intent = step.intent /\ Added(k)'.aim = step.aim
               /\ Added(k)'.outcome = r.outcome
               /\ r.outcome = "success" => Added(k)'.after = r.after
    BY <1>1, <1>2, <1>7, <2>1, <2>2, StepAdds
  <2>4. ASSUME \A k \in 1 .. n : rs[k] = "success"
        PROVE  Performed' = n /\ \A k \in 1 .. n : Repeated(k)'
    <3>1. /\ \A k \in 1 .. Len(job.results) : job.results[k] = "success"
          /\ status = "success"
      <4>1. n \in 1 .. n /\ \A k \in 1 .. Len(job.results) : k \in 1 .. n /\ k # n
        BY <1>1
      <4> QED
        BY <1>5, <2>4, <4>1
    <3>2. Performed = Len(job.results) /\ \A k \in 1 .. Len(job.results) : Repeated(k)
      BY <1>1, <1>12, <3>1 DEF IInv, ChainInv, AllSucceeded
    <3>3. SourceSafe(n)
      BY <1>1, <1>2 DEF IInv, ReplayInv
    <3>4. /\ step.source \in 1 .. job.known /\ Recorded(step.source).outcome = "success"
      BY <3>3 DEF SourceSafe, step
    <3>5. r.outcome = "success" /\ ~ScreensDiffer(Screen[Recorded(step.source).after], Screen[r.after])
      BY <2>1, <3>1, <3>4 DEF Compared
    <3>6. Performed' = n
      BY <2>3, <3>2, <3>5
    <3>7. \A id \in 1 .. job.known : Recorded(id)' = Recorded(id)
      BY <1>1, <1>9
    <3>8. ASSUME NEW k \in 1 .. n
          PROVE  Recorded(job.plan[k].source)' = Recorded(job.plan[k].source)
      <4>1. job.plan[k].source \in 1 .. job.known
        BY <1>1, <1>2 DEF IInv, ReplayInv, SourceSafe
      <4>2. \A id \in {job.plan[k].source} : Recorded(id)' = Recorded(id)
        BY <3>7, <4>1
      <4> QED
        BY <1>7, <4>2
    <3>9. ASSUME NEW k \in 1 .. Len(job.results) PROVE Repeated(k)'
      BY <1>1, <1>7, <2>3, <3>2, <3>8, <3>9, SMTT(30) DEF Repeated
    <3>10. ASSUME NEW k \in {n} PROVE Repeated(k)'
      <4>1. Added(k)'.intent = step.intent /\ Added(k)'.outcome = "success" /\ Added(k)'.after = r.after
        BY <2>3, <3>2, <3>5
      <4>2. step = job.plan[k] /\ k \in 1 .. n
        BY <1>2 DEF step
      <4> QED
        BY <1>7, <3>5, <3>8, <4>1, <4>2 DEF Repeated
    <3> QED
      BY <1>1, <3>6, <3>9, <3>10
  <2>5. job'.final = "full" => n = Len(job.plan) /\ \A k \in 1 .. n : rs[k] = "success"
    <3>1. job.final # "full"
      BY <1>1, <1>12 DEF IInv, ChainInv
    <3> QED
      BY <1>2, <1>6, <1>7, <3>1
  <2> QED
    BY <1>5, <1>7, <2>4, <2>5 DEF ChainInv, AllSucceeded
<1>13. ChainInv'
  BY <1>8, <1>12 DEF ChainInv
<1> QED
  BY <1>7, <1>9, <1>10, <1>11, <1>13 DEF IInv, TaskInv, FlowInv

\* One action of a path: a path says nothing of its results.
LEMMA PathStepKeeps ==
  ASSUME ReplayAssumption, IInv, PathStep
  PROVE  IInv'
<1> DEFINE step == job.plan[1]
<1>1. /\ LogInv /\ JobInv /\ job \in Job /\ Len(log) \in Nat /\ job.kind = "path" /\ job.pc = "run"
      /\ job.results = << >> /\ Len(job.results) = 0 /\ Len(job.plan) > 0 /\ job.plan \in Seq(PlanStep)
      /\ job.known \in Nat /\ job.known <= Len(log) /\ job.dry \in BOOLEAN
  <2>1. LogInv /\ JobInv /\ job.kind = "path" /\ job.pc = "run"
    BY DEF PathStep, Stands, IInv
  <2>2. job \in Job /\ job.known <= Len(log) /\ Len(job.results) < Len(job.plan) /\ job.results = << >>
    BY <2>1 DEF JobInv, Open, Idle
  <2> QED
    BY <2>1, <2>2 DEF LogInv, Job
<1>2. step \in PlanStep /\ step.intent \in Intents
  <2>1. 1 \in 1 .. Len(job.plan)
    BY <1>1
  <2>2. step \in PlanStep
    BY <1>1, <2>1
  <2> QED
    BY <2>2 DEF PlanStep
<1>3. PICK r \in Results(step.intent, job.dry) :
         log' = Logged(step, r) /\ job' = [job EXCEPT !.pc = "done", !.results = <<r.outcome>>, !.final = r.outcome]
  BY DEF PathStep
<1> HIDE DEF step
<1>4. /\ job'.kind = "path" /\ job'.pc = "done" /\ job'.known = job.known /\ job'.plan = job.plan
      /\ job'.anchor = job.anchor /\ job'.results = <<r.outcome>>
  BY <1>1, <1>3 DEF Job
<1>5. /\ r.outcome \in Outcomes /\ LogInv' /\ job.known <= Len(log')
      /\ Performed \in Nat /\ Performed' \in {Performed, Performed + 1}
      /\ \A id \in 1 .. Len(log) : Recorded(id)' = Recorded(id)
      /\ (Performed' = Performed + 1 => \A k \in {Performed + 1} :
             Added(k)'.intent = step.intent /\ Added(k)'.aim = step.aim)
  BY <1>1, <1>2, <1>3, <1>4, StepAdds
<1>6. <<r.outcome>> \in Seq(Statuses) /\ Len(<<r.outcome>>) = 1
  BY <1>5 DEF Statuses
<1>7. job' \in Job
  BY <1>1, <1>3, <1>5, <1>6 DEF Job
<1>8. JobInv'
  BY <1>1, <1>4, <1>5, <1>6, <1>7 DEF JobInv, Open, Idle
<1>9. ReplayInv'
  <2>1. Performed = 0 /\ \A k \in 1 .. Len(job.plan) : SourceSafe(k)
    BY <1>1, <1>5 DEF IInv, ReplayInv
  <2>2. \A k \in 1 .. Len(job.plan) : SourceSafe(k)'
    BY <1>1, <1>4, <1>5, <2>1, SourcesStay
  <2>3. ASSUME NEW n \in 1 .. Performed' PROVE \E k \in n .. 1 : AddedFor(n, k)'
    <3>1. n = 1 /\ Performed' = Performed + 1 /\ n = Performed + 1
      BY <1>5, <2>1
    <3>2. AddedFor(n, 1)'
      BY <1>4, <1>5, <3>1 DEF AddedFor, step
    <3> QED
      BY <3>1, <3>2
  <2> QED
    BY <1>1, <1>4, <1>5, <1>6, <2>1, <2>2, <2>3 DEF ReplayInv
<1> QED
  BY <1>4, <1>5, <1>8, <1>9 DEF IInv, ChainInv, TaskInv, FlowInv

\* One action of a task, or the step it stops at.
LEMMA TaskStepKeeps ==
  ASSUME ReplayAssumption, IInv, NEW blocked \in BOOLEAN, TaskStep(blocked)
  PROVE  IInv'
<1> DEFINE n == Len(job.results) + 1
           step == job.plan[n]
<1>1. /\ LogInv /\ JobInv /\ job \in Job /\ Len(log) \in Nat /\ job.kind = "task" /\ job.pc = "run"
      /\ Len(job.results) < Len(job.plan) /\ job.results \in Seq(Statuses) /\ job.plan \in Seq(PlanStep)
      /\ job.known \in Nat /\ job.known <= Len(log) /\ job.dry \in BOOLEAN
  <2>1. LogInv /\ JobInv /\ job.kind = "task" /\ job.pc = "run"
    BY DEF TaskStep, Stands, IInv
  <2>2. job \in Job /\ job.known <= Len(log) /\ Len(job.results) < Len(job.plan)
    BY <2>1 DEF JobInv, Open, Idle
  <2> QED
    BY <2>1, <2>2 DEF LogInv, Job
<1>2. n \in 1 .. Len(job.plan) /\ step \in PlanStep /\ step.intent \in Intents
  <2>1. n \in 1 .. Len(job.plan)
    BY <1>1
  <2>2. step \in PlanStep
    BY <1>1, <2>1
  <2> QED
    BY <2>1, <2>2 DEF PlanStep
<1>3. PICK r \in Results(step.intent, job.dry) :
         LET status == IF r.outcome # "success" THEN r.outcome ELSE job.final
             halted == r.outcome # "success" /\ job.strict
             terminal == ~halted /\ TerminalOutcome(r, blocked /\ ~job.dry)
         IN /\ log' = Logged(step, r)
            /\ job' = [job EXCEPT !.results = Append(@, r.outcome),
                          !.final = IF terminal THEN "failed" ELSE status,
                          !.pc = IF halted \/ terminal \/ n = Len(job.plan) THEN "done" ELSE "run"]
  BY DEF TaskStep, NextStep
<1> HIDE DEF step
<1> DEFINE status == IF r.outcome # "success" THEN r.outcome ELSE job.final
           halted == r.outcome # "success" /\ job.strict
           terminal == ~halted /\ TerminalOutcome(r, blocked /\ ~job.dry)
           final == IF terminal THEN "failed" ELSE status
           pc == IF halted \/ terminal \/ n = Len(job.plan) THEN "done" ELSE "run"
           rs == Append(job.results, r.outcome)
<1>4. log' = Logged(step, r) /\ job' = [job EXCEPT !.results = rs, !.final = final, !.pc = pc]
  BY <1>3
<1>5. /\ final = "success" => r.outcome = "success" /\ job.final = "success" /\ Readiness[r.after] # "terminal"
      /\ job.strict /\ r.outcome # "success" => pc = "done"
      /\ pc \in {"run", "done"} /\ (pc = "run" => n # Len(job.plan))
      /\ final \in {"failed", r.outcome, job.final}
  BY DEF TerminalOutcome
<1> HIDE DEF status, halted, terminal, final, pc
<1>6. job'.known = job.known
  BY <1>1, <1>4 DEF Job
<1>7. /\ r.outcome \in Outcomes /\ (r.outcome # "failed" => r.recorded)
      /\ LogInv' /\ job.known <= Len(log')
      /\ Performed \in Nat /\ Performed' = IF r.recorded THEN Performed + 1 ELSE Performed
      /\ \A k \in 1 .. Performed : Added(k)' = Added(k)
      /\ r.recorded => \A k \in {Performed + 1} :
            /\ Added(k)'.intent = step.intent /\ Added(k)'.outcome = r.outcome
            /\ r.outcome = "success" => Added(k)'.after = r.after
  BY <1>1, <1>2, <1>4, <1>6, StepAdds
<1>8. /\ rs \in Seq(Statuses) /\ Len(rs) = n /\ DOMAIN rs = 1 .. n
      /\ \A k \in 1 .. n : rs[k] = IF k = n THEN r.outcome ELSE job.results[k]
  <2>1. r.outcome \in Statuses
    BY <1>7 DEF Statuses
  <2> QED
    BY <1>1, <2>1
<1> HIDE DEF rs
<1>a. final \in Outcomes \cup {"full"}
  BY <1>1, <1>5, <1>7 DEF Job, Outcomes
<1>9. /\ job' \in Job /\ job'.kind = "task" /\ job'.plan = job.plan /\ job'.results = rs
      /\ job'.final = final /\ job'.pc = pc
  <2>1. pc \in {"check", "run", "done"}
    BY <1>5
  <2> QED
    BY <1>1, <1>4, <1>8, <1>a, <2>1 DEF Job
<1>10. job'.strict = job.strict
  BY <1>1, <1>4 DEF Job
<1>11. JobInv'
  BY <1>1, <1>2, <1>5, <1>6, <1>7, <1>8, <1>9 DEF JobInv, Open, Idle
<1>12. ASSUME final = "success" PROVE Performed' = n /\ \A k \in 1 .. n : Achieved(k)'
  <2>1. Performed = Len(job.results) /\ \A k \in 1 .. Len(job.results) : Achieved(k)
    BY <1>1, <1>5, <1>12 DEF IInv, TaskInv
  <2>2. r.outcome = "success" /\ r.recorded /\ Readiness[r.after] # "terminal"
    BY <1>5, <1>7, <1>12
  <2>3. ASSUME NEW k \in 1 .. Len(job.results) PROVE Achieved(k)'
    BY <1>7, <1>9, <2>1 DEF Achieved
  <2>4. ASSUME NEW k \in {n} PROVE Achieved(k)'
    <3>1. Added(k)'.intent = step.intent /\ Added(k)'.outcome = "success" /\ Added(k)'.after = r.after
      BY <1>7, <2>1, <2>2
    <3>2. step = job.plan[k]
      BY DEF step
    <3> QED
      BY <1>9, <2>2, <3>1, <3>2 DEF Achieved
  <2> QED
    BY <1>1, <1>7, <2>1, <2>2, <2>3, <2>4
<1>13. ASSUME job.strict, NEW k \in 1 .. n, rs[k] # "success" PROVE pc = "done" /\ k = n
  <2>1. ASSUME k # n PROVE FALSE
    <3>1. k \in 1 .. Len(job.results) /\ job.results[k] # "success"
      BY <1>1, <1>8, <1>13, <2>1
    <3> QED
      BY <1>1, <1>13, <3>1 DEF IInv, TaskInv, Idle
  <2>2. r.outcome # "success"
    BY <1>8, <1>13, <2>1
  <2> QED
    BY <1>5, <1>13, <2>1, <2>2
<1>14. TaskInv'
  <2>1. job'.final = "success" => Performed' = Len(job'.results) /\ \A k \in DOMAIN job'.results : Achieved(k)'
    BY <1>8, <1>9, <1>12
  <2>2. job'.strict => \A k \in DOMAIN job'.results : job'.results[k] # "success" => job'.pc = "done" /\ k = Len(job'.results)
    BY <1>8, <1>9, <1>10, <1>13
  <2> QED
    BY <2>1, <2>2 DEF TaskInv, Idle
<1> QED
  BY <1>7, <1>9, <1>11, <1>14 DEF IInv, ReplayInv, ChainInv, FlowInv

\* One item of a flow, with those it leaves out when it stops there.
LEMMA FlowStepKeeps ==
  ASSUME ReplayAssumption, IInv, FlowStep
  PROVE  IInv'
<1> DEFINE n == Len(job.results) + 1
           step == job.plan[n]
           blocked == {job.plan[k].number : k \in n .. Len(job.plan)}
<1>1. /\ LogInv /\ JobInv /\ job \in Job /\ Len(log) \in Nat /\ job.kind = "flow" /\ job.pc = "run"
      /\ n <= Len(job.plan) /\ job.results \in Seq(Statuses) /\ job.plan \in Seq(PlanStep)
      /\ job.known \in Nat /\ job.known <= Len(log)
  <2>1. LogInv /\ JobInv /\ job.kind = "flow" /\ job.pc = "run" /\ n <= Len(job.plan)
    BY DEF FlowStep, Stands, IInv, NextStep
  <2>2. job \in Job /\ job.known <= Len(log)
    BY <2>1 DEF JobInv
  <2> QED
    BY <2>1, <2>2 DEF LogInv, Job
<1>2. n \in 1 .. Len(job.plan) /\ step \in PlanStep /\ step.intent \in Intents
  <2>1. n \in 1 .. Len(job.plan)
    BY <1>1
  <2>2. step \in PlanStep
    BY <1>1, <2>1
  <2> QED
    BY <2>1, <2>2 DEF PlanStep
<1>a. job.dry /\ ~Idle
  BY <1>1 DEF IInv, FlowInv, Idle
<1>3. /\ Performed = Len(job.results)
      /\ \A k \in 1 .. Len(job.results) : /\ job.results[k] = "success" /\ job.results[k] = Added(k).outcome
                                          /\ job.plan[k].number \notin job.remaining
  <2>0. DOMAIN job.results = 1 .. Len(job.results) /\ Performed \in Int
    BY <1>1 DEF Performed
  <2>1. /\ Performed \in Int /\ Performed <= Len(job.results)
        /\ \A k \in 1 .. Len(job.results) :
             /\ k < Performed => job.results[k] = "success"
             /\ IF k <= Performed THEN job.results[k] = Added(k).outcome ELSE job.results[k] = "skipped"
             /\ job.plan[k].number \notin job.remaining
        /\ ~(Performed < Len(job.results) \/ (Performed > 0 /\ job.results[Performed] # "success"))
    BY <1>1, <2>0, SMTT(60) DEF IInv, FlowInv
  <2> QED
    BY <1>1, <2>1
<1>4. PICK r \in DryResults(step.intent) :
             /\ log' = Logged(step, r)
             /\ job' = IF ShouldStopReplay(r)
                       THEN [job EXCEPT !.results = [k \in DOMAIN job.plan |->
                                             CASE k < n -> job.results[k]
                                               [] k = n -> r.outcome
                                               [] OTHER -> "skipped"],
                                        !.remaining = @ \ blocked,
                                        !.events = @ \cup {"replay_stopped"}]
                       ELSE [job EXCEPT !.results = Append(@, r.outcome),
                                        !.remaining = @ \ {step.number}]
  BY DEF FlowStep, NextStep
<1>5. r \in Results(step.intent, TRUE) /\ r.outcome \in {"success", "partial"}
  BY <1>4 DEF Results, DryResults
<1> HIDE DEF step
<1> DEFINE Advanced(rs, gone, events) ==
         /\ rs \in Seq(Statuses) /\ gone \in SUBSET Nat
         /\ events \in SUBSET {"replay_stopped", "replay_completed"}
         /\ \A k \in 1 .. Len(rs) : rs[k] = IF k < n THEN job.results[k] ELSE IF k = n THEN r.outcome ELSE "skipped"
         /\ \A k \in n .. Len(rs) : job.plan[k].number \in gone
         /\ IF r.outcome = "success" THEN Len(rs) = n ELSE Len(rs) = Len(job.plan)
         /\ job' = [job EXCEPT !.results = rs, !.remaining = job.remaining \ gone, !.events = events]
<1>6. PICK rs, gone, events : Advanced(rs, gone, events)
  <2>1. ASSUME NEW k \in 1 .. Len(job.plan) PROVE job.plan[k].number \in Nat
    <3>1. job.plan[k] \in PlanStep
      BY <1>1
    <3> QED
      BY <3>1 DEF PlanStep
  <2>2. CASE r.outcome = "success"
    <3> DEFINE rs == Append(job.results, r.outcome)
    <3>1. /\ rs \in Seq(Statuses) /\ Len(rs) = n
          /\ \A k \in 1 .. n : rs[k] = IF k = n THEN r.outcome ELSE job.results[k]
      BY <1>1, <2>2 DEF Statuses, Outcomes
    <3>2. {step.number} \in SUBSET Nat /\ step = job.plan[n]
      BY <1>2 DEF PlanStep, step
    <3>3. /\ job' = [job EXCEPT !.results = rs, !.remaining = job.remaining \ {step.number}, !.events = job.events]
          /\ job.events \in SUBSET {"replay_stopped", "replay_completed"}
      BY <1>1, <1>4, <2>2 DEF ShouldStopReplay, Job
    <3> HIDE DEF rs
    <3>4. /\ \A k \in 1 .. Len(rs) : rs[k] = IF k < n THEN job.results[k] ELSE IF k = n THEN r.outcome ELSE "skipped"
          /\ \A k \in n .. Len(rs) : job.plan[k].number \in {step.number}
      BY <1>1, <3>1, <3>2, SMTT(30)
    <3>5. Advanced(rs, {step.number}, job.events)
      BY <2>2, <3>1, <3>2, <3>3, <3>4
    <3> QED
      BY <3>5
  <2>3. CASE r.outcome # "success"
    <3> DEFINE e(k) == CASE k < n -> job.results[k] [] k = n -> r.outcome [] OTHER -> "skipped"
               rs == [k \in DOMAIN job.plan |-> e(k)]
    <3>1. DOMAIN job.plan = 1 .. Len(job.plan) /\ Len(job.plan) \in Nat
      BY <1>1
    <3>2. ASSUME NEW k \in 1 .. Len(job.plan)
          PROVE  /\ e(k) = IF k < n THEN job.results[k] ELSE IF k = n THEN r.outcome ELSE "skipped"
                 /\ e(k) \in Statuses
      <4>1. CASE k < n
        BY <1>1, <4>1
      <4>2. CASE k = n
        BY <1>1, <1>5, <4>2 DEF Statuses, Outcomes
      <4>3. CASE k > n
        BY <1>1, <4>3 DEF Statuses
      <4> QED
        BY <1>1, <4>1, <4>2, <4>3
    <3> HIDE DEF e
    <3>3. rs \in Seq(Statuses) /\ Len(rs) = Len(job.plan) /\ \A k \in 1 .. Len(job.plan) : rs[k] = e(k)
      BY <3>1, <3>2
    <3>4. blocked \in SUBSET Nat /\ \A k \in n .. Len(job.plan) : job.plan[k].number \in blocked
      BY <1>2, <2>1
    <3>5. job' = [job EXCEPT !.results = rs, !.remaining = job.remaining \ blocked,
                             !.events = job.events \cup {"replay_stopped"}]
      BY <1>4, <2>3 DEF ShouldStopReplay, e
    <3>6. job.events \cup {"replay_stopped"} \in SUBSET {"replay_stopped", "replay_completed"}
      BY <1>1 DEF Job
    <3> HIDE DEF rs, blocked
    <3>7. ASSUME NEW k \in 1 .. Len(rs)
          PROVE  rs[k] = IF k < n THEN job.results[k] ELSE IF k = n THEN r.outcome ELSE "skipped"
      BY <3>2, <3>3
    <3>8. Advanced(rs, blocked, job.events \cup {"replay_stopped"})
      BY <2>3, <3>3, <3>4, <3>5, <3>6, <3>7
    <3> QED
      BY <3>8
  <2> QED
    BY <2>2, <2>3
<1> HIDE DEF blocked
<1>7. /\ job' \in Job /\ job'.kind = "flow" /\ job'.pc = "run" /\ job'.plan = job.plan
      /\ job'.results = rs
      /\ job'.remaining = job.remaining \ gone /\ job'.known = job.known
  BY <1>1, <1>6 DEF Job
<1>8. job'.dry = job.dry
  BY <1>1, <1>6 DEF Job
<1>9. /\ LogInv' /\ job.known <= Len(log')
      /\ Performed' = n
      /\ \A k \in 1 .. Len(job.results) : Added(k)' = Added(k)
      /\ \A k \in {n} : Added(k)'.outcome = r.outcome
  <2>1. /\ r.outcome # "failed" => r.recorded
        /\ LogInv' /\ job.known <= Len(log')
        /\ Performed' = IF r.recorded THEN Performed + 1 ELSE Performed
        /\ \A k \in 1 .. Performed : Added(k)' = Added(k)
        /\ r.recorded => \A k \in {Performed + 1} : Added(k)'.outcome = r.outcome
    BY <1>1, <1>2, <1>4, <1>5, <1>7, StepAdds, ZenonT(30)
  <2>2. r.recorded
    BY <1>5, <2>1
  <2>3. n = Performed + 1
    BY <1>3
  <2> QED
    BY <1>3, <2>1, <2>2, <2>3
<1>10. Len(rs) \in Nat /\ DOMAIN rs = 1 .. Len(rs) /\ n <= Len(rs) /\ Len(rs) <= Len(job.plan)
  BY <1>1, <1>2, <1>6
<1>b. /\ \A k \in 1 .. Len(rs) : rs[k] = IF k < n THEN job.results[k] ELSE IF k = n THEN r.outcome ELSE "skipped"
      /\ \A k \in n .. Len(rs) : job.plan[k].number \in gone
      /\ IF r.outcome = "success" THEN Len(rs) = n ELSE Len(rs) = Len(job.plan)
  BY <1>6
<1>c. n \in Nat /\ n > 0
  BY <1>2
<1>11. JobInv'
  BY <1>7, <1>9, <1>10 DEF JobInv, Open, Idle
<1>12. ASSUME NEW k \in 1 .. Len(rs)
       PROVE  /\ k < n => rs[k] = "success"
              /\ IF k <= n THEN rs[k] = Added(k)'.outcome ELSE rs[k] = "skipped"
              /\ job.plan[k].number \notin job.remaining \ gone
  <2>0. k \in Nat
    OBVIOUS
  <2>1. CASE k < n
    <3>1. k \in 1 .. Len(job.results)
      BY <1>1, <2>1
    <3>2. Added(k)' = Added(k)
      BY <1>9, <3>1
    <3>3. rs[k] = job.results[k]
      BY <1>b, <2>1
    <3> QED
      BY <1>3, <2>0, <2>1, <1>c, <3>1, <3>2, <3>3
  <2>2. CASE k = n
    <3>1. rs[k] = r.outcome /\ k \in n .. Len(rs)
      BY <1>b, <2>2
    <3>2. Added(k)'.outcome = r.outcome
      BY <1>9, <2>2
    <3>3. job.plan[k].number \in gone
      BY <1>b, <3>1
    <3> QED
      BY <2>0, <2>2, <1>c, <3>1, <3>2, <3>3
  <2>3. CASE k > n
    <3>1. rs[k] = "skipped" /\ job.plan[k].number \in gone
      BY <1>b, <1>c, <2>0, <2>3
    <3> QED
      BY <1>c, <2>0, <2>3, <3>1
  <2> QED
    BY <1>c, <2>0, <2>1, <2>2, <2>3
<1>13. rs[n] = r.outcome
  <2>1. n \in 1 .. Len(rs) /\ ~(n < n)
    BY <1>c, <1>10
  <2> HIDE DEF n
  <2> QED
    BY <1>b, <2>1
<1>14. FlowInv'
  <2>1. /\ Performed' <= Len(job'.results)
        /\ \A k \in DOMAIN job'.results :
             /\ k < Performed' => job'.results[k] = "success"
             /\ IF k <= Performed' THEN job'.results[k] = Added(k)'.outcome ELSE job'.results[k] = "skipped"
             /\ job'.plan[k].number \notin job'.remaining
    BY <1>7, <1>9, <1>10, <1>12
  <2>2. Performed' < Len(job'.results) \/ (Performed' > 0 /\ job'.results[Performed'] # "success")
              => Len(job'.results) = Len(job'.plan) /\ Performed' > 0 /\ job'.results[Performed'] = "partial"
    <3>1. Performed' > 0 /\ job'.results[Performed'] = r.outcome
      BY <1>c, <1>7, <1>9, <1>13
    <3>2. r.outcome = "success" => ~(Performed' < Len(job'.results))
      BY <1>b, <1>c, <1>7, <1>9
    <3>3. r.outcome # "success" => r.outcome = "partial" /\ Len(job'.results) = Len(job'.plan)
      BY <1>5, <1>b, <1>7
    <3> QED
      BY <3>1, <3>2, <3>3
  <2> QED
    BY <1>a, <1>7, <1>8, <2>1, <2>2 DEF FlowInv, Idle
<1> QED
  BY <1>7, <1>9, <1>11, <1>14 DEF IInv, ReplayInv, ChainInv, TaskInv

\* The end of a flow.
LEMMA FlowEndsKeeps ==
  ASSUME ReplayAssumption, IInv, FlowEnds
  PROVE  IInv'
<1> DEFINE has(status) == \E k \in DOMAIN job.results : job.results[k] = status
           final == IF has("failed") THEN "failed" ELSE IF has("partial") THEN "partial" ELSE "success"
           events == IF has("failed") THEN job.events ELSE job.events \cup {"replay_completed"}
<1>1. /\ LogInv /\ JobInv /\ job \in Job /\ Len(log) \in Nat /\ job.kind = "flow" /\ job.pc = "run"
      /\ Len(job.results) = Len(job.plan) /\ job.results \in Seq(Statuses) /\ job.plan \in Seq(PlanStep)
      /\ job.known \in Nat /\ job.known <= Len(log) /\ log' = log
  <2>1. /\ LogInv /\ JobInv /\ job.kind = "flow" /\ job.pc = "run"
        /\ Len(job.results) + 1 > Len(job.plan) /\ log' = log
    BY DEF FlowEnds, Stands, IInv, NextStep
  <2>2. job \in Job /\ job.known <= Len(log) /\ Len(job.results) <= Len(job.plan)
    BY <2>1 DEF JobInv
  <2> QED
    BY <2>1, <2>2 DEF LogInv, Job
<1>2. job' = [job EXCEPT !.pc = "done", !.final = final, !.events = events]
  BY DEF FlowEnds
<1>3. final \in Outcomes /\ events \in SUBSET {"replay_stopped", "replay_completed"}
  BY <1>1 DEF Job, Outcomes
<1>4. final = "success" => \A k \in DOMAIN job.results : job.results[k] \notin {"failed", "partial"}
  OBVIOUS
<1> HIDE DEF final, events
<1>5. /\ job' \in Job /\ job'.kind = "flow" /\ job'.pc = "done" /\ job'.plan = job.plan
      /\ job'.results = job.results
      /\ job'.remaining = job.remaining /\ job'.known = job.known /\ job'.final = final
  BY <1>1, <1>2, <1>3 DEF Job
<1>6. job'.dry = job.dry
  BY <1>1, <1>2 DEF Job
<1>7. /\ LogInv' /\ Performed' = Performed
      /\ (\A k : Added(k)' = log[Len(log) + 1 - (job.known + k)]) /\ JobInv'
  BY <1>1, <1>5 DEF LogInv, Performed, Added, Recorded, JobInv, Open, Idle
<1>8. /\ job.dry /\ Performed <= Len(job.results) /\ Performed \in Nat
      /\ \A k \in 1 .. Len(job.results) :
            /\ k < Performed => job.results[k] = "success"
            /\ IF k <= Performed THEN job.results[k] = Added(k).outcome ELSE job.results[k] = "skipped"
            /\ job.plan[k].number \notin job.remaining
      /\ Performed < Len(job.results) => Performed > 0 /\ job.results[Performed] = "partial"
  BY <1>1 DEF IInv, FlowInv, Idle, Performed
<1>9. Performed < Len(job.results) => final # "success"
  BY <1>1, <1>4, <1>8
<1>10. ASSUME final = "success", NEW k \in 1 .. Len(job.results) PROVE job.results[k] = "success"
  <2>1. Performed = Len(job.results)
    BY <1>1, <1>8, <1>9, <1>10
  <2>2. log[Len(log) + 1 - (job.known + k)].outcome \in Outcomes
    <3>1. Len(log) + 1 - (job.known + k) \in 1 .. Len(log)
      BY <1>1, <2>1, SMTT(30) DEF Performed
    <3>2. log[Len(log) + 1 - (job.known + k)] \in LogRecord
      BY <1>1, <3>1 DEF LogInv
    <3> QED
      BY <3>2 DEF LogRecord
  <2>3. job.results[k] = log[Len(log) + 1 - (job.known + k)].outcome
    <3>1. k <= Performed
      BY <1>1, <2>1
    <3> QED
      BY <1>8, <3>1 DEF Added, Recorded
  <2> QED
    <3>1. job.results[k] \in Outcomes
      BY <2>2, <2>3
    <3>2. job.results[k] \notin {"failed", "partial"}
      BY <1>1, <1>4, <1>10
    <3> QED
      BY <3>1, <3>2 DEF Outcomes
<1>11. FlowInv'
  <2>1. \A k \in 1 .. Len(job.results) :
           IF k <= Performed THEN job.results[k] = Added(k)'.outcome ELSE job.results[k] = "skipped"
    BY <1>7, <1>8 DEF Added, Recorded
  <2>2. DOMAIN job'.results = 1 .. Len(job.results)
    BY <1>1, <1>5
  <2> QED
    <3>1. /\ Performed' <= Len(job'.results)
          /\ \A k \in DOMAIN job'.results :
               /\ k < Performed' => job'.results[k] = "success"
               /\ IF k <= Performed' THEN job'.results[k] = Added(k)'.outcome ELSE job'.results[k] = "skipped"
               /\ job'.plan[k].number \notin job'.remaining
      BY <1>5, <1>7, <1>8, <2>1, <2>2
    <3>2. job'.final = "success" => \A k \in DOMAIN job'.results : job'.results[k] = "success"
      BY <1>5, <1>10, <2>2
    <3>3. Performed' < Len(job'.results) => job'.final # "success"
      BY <1>5, <1>7, <1>9
    <3>4. job'.dry /\ Len(job'.results) = Len(job'.plan)
      BY <1>1, <1>5, <1>6, <1>8
    <3> QED
      BY <1>5, <3>1, <3>2, <3>3, <3>4 DEF FlowInv, Idle
<1> QED
  BY <1>5, <1>7, <1>11 DEF IInv, ReplayInv, ChainInv, TaskInv

-----------------------------------------------------------------------------
(* The invariant holds at first and is kept by every step.                    *)
LEMMA InitHolds == Init => IInv
<1> SUFFICES ASSUME Init PROVE IInv
  OBVIOUS
<1>1. log = << >> /\ Len(log) = 0 /\ DOMAIN log = {} /\ log \in Seq(LogRecord) /\ job = NoJob
  BY DEF Init
<1>2. /\ job.kind = "none" /\ job.pc = "done" /\ job.known = 0 /\ job.plan = << >> /\ job.results = << >>
      /\ job \in Job
  BY <1>1, NoJobIsJob DEF NoJob
<1> QED
  BY <1>1, <1>2 DEF IInv, LogInv, JobInv, Open, Idle, ReplayInv, ChainInv, TaskInv, FlowInv

LEMMA StepHolds == ReplayAssumption /\ IInv /\ [Next]_vars => IInv'
<1> SUFFICES ASSUME ReplayAssumption, IInv, [Next]_vars PROVE IInv'
  OBVIOUS
<1>1. ASSUME NEW intent \in Intents, PerformAction(intent) PROVE IInv'
  BY <1>1, PerformActionKeeps
<1>2. CASE StartSession
  BY <1>2, StartSessionKeeps
<1>3. ASSUME NEW fromStep \in 0 .. 1, NEW maxSteps \in 0 .. 1, NEW dry \in BOOLEAN,
             StartChain(fromStep, maxSteps, dry)
      PROVE  IInv'
  BY <1>3, StartChainKeeps
<1>4. ASSUME NEW seen \in Views, NEW read \in BOOLEAN, ChainCheck(seen, read) PROVE IInv'
  BY <1>4, ChainCheckKeeps
<1>5. CASE ChainStep
  BY <1>5, ChainStepKeeps
<1>6. ASSUME NEW dry \in BOOLEAN, StartPath(dry) PROVE IInv'
  BY <1>6, StartPathKeeps
<1>7. CASE PathStep
  BY <1>7, PathStepKeeps
<1>8. ASSUME NEW items \in ItemLists, StartFlow(items) PROVE IInv'
  BY <1>8, StartFlowKeeps
<1>9. CASE FlowStep
  BY <1>9, FlowStepKeeps
<1>10. CASE FlowEnds
  BY <1>10, FlowEndsKeeps
<1>11. ASSUME NEW intents \in IntentLists, NEW strict \in BOOLEAN, NEW dry \in BOOLEAN,
              StartTask(intents, strict, dry)
       PROVE  IInv'
  BY <1>11, StartTaskKeeps
<1>12. ASSUME NEW blocked \in BOOLEAN, TaskStep(blocked) PROVE IInv'
  BY <1>12, TaskStepKeeps
<1>13. CASE UNCHANGED vars
  <2>1. log' = log /\ job' = job
    BY <1>13 DEF vars
  <2> QED
    <3>1. LogInv' = LogInv /\ JobInv' = JobInv /\ TaskInv' = TaskInv /\ FlowInv' = FlowInv
      BY <2>1 DEF LogInv, JobInv, TaskInv, FlowInv, Open, Idle, Performed, Achieved, Added, Recorded
    <3>2. ReplayInv' = ReplayInv
      BY <2>1 DEF ReplayInv, SourceSafe, AddedFor, Added, Performed, Recorded, HighRisk, AimedLike
    <3>3. ChainInv' = ChainInv
      BY <2>1 DEF ChainInv, AllSucceeded, Repeated, Performed, Added, Recorded
    <3> QED
      BY <3>1, <3>2, <3>3 DEF IInv
<1> QED
  BY <1>1, <1>2, <1>3, <1>4, <1>5, <1>6, <1>7, <1>8, <1>9, <1>10, <1>11, <1>12, <1>13 DEF Next

\* In every reachable state the records, the tool under way and its plan fit one another: the
\* facts about performAction's records that replay-chain.ts, recovery-tools.ts, flow-runtime.ts
\* and task-planner.ts rely on.
THEOREM InductiveInvariant == Spec => []IInv
<1>1. ReplayAssumption
  BY ReplayAssumption
<1> QED
  BY <1>1, InitHolds, StepHolds, PTL DEF Spec

\* The invariant holds what the runs check.
LEMMA GivesTypeOK == IInv => TypeOK
<1> SUFFICES ASSUME IInv PROVE TypeOK
  OBVIOUS
<1>1. LogInv /\ JobInv /\ job \in Job
  BY DEF IInv, JobInv
<1>2. \A k \in DOMAIN log : /\ log[k].id = Len(log) + 1 - k
                            /\ log[k].intent \in Intents /\ {log[k].before, log[k].after} \subseteq Views
                            /\ log[k].stable \/ log[k].fallback => log[k].outcome = "success"
  <2>1. \A k \in DOMAIN log : log[k] \in LogRecord
    BY <1>1 DEF LogInv
  <2> QED
    BY <1>1, <2>1 DEF LogInv, LogRecord
<1>3. /\ job.kind \in {"none", "chain", "path", "flow", "task"} /\ job.pc \in {"check", "run", "done"}
      /\ \A k \in DOMAIN job.results : job.results[k] \in Outcomes \cup {"diverged", "skipped"}
      /\ job.final \in Outcomes \cup {"full"}
  <2>1. job.results \in Seq(Statuses)
    BY <1>1 DEF Job
  <2> QED
    BY <1>1, <2>1 DEF Job, Statuses
<1>4. Len(job.results) <= Len(job.plan) /\ (Idle \/ Len(job.plan) > 0 \/ job.kind = "flow")
  BY <1>1 DEF JobInv, Open, Job
<1> QED
  BY <1>2, <1>3, <1>4 DEF TypeOK

LEMMA GivesReplaysOnlySafe == IInv => ReplaysOnlySafe
<1> SUFFICES ASSUME IInv, job.kind \in {"chain", "path"} PROVE ReplaysOnlySafe
  BY DEF ReplaysOnlySafe
<1>1. /\ Performed <= Len(job.results) /\ Len(job.results) <= Len(job.plan)
      /\ job.kind = "chain" /\ job.dry => Performed = 0
      /\ \A k \in DOMAIN job.plan : SourceSafe(k)
      /\ \A n \in 1 .. Performed : \E k \in n .. Len(job.results) : AddedFor(n, k)
  BY DEF IInv, ReplayInv, JobInv
<1>2. job \in Job /\ DOMAIN job.plan = 1 .. Len(job.plan) /\ job.known \in Nat /\ job.anchor \in Nat
  BY DEF IInv, JobInv, Job
<1>3. ASSUME NEW k \in DOMAIN job.plan, NEW m \in DOMAIN job.plan, m # k
      PROVE  job.plan[m].source # job.plan[k].source
  <2>1. /\ \A i \in DOMAIN job.plan : k < i => job.plan[i].source < job.plan[k].source
        /\ \A i \in DOMAIN job.plan : m < i => job.plan[i].source < job.plan[m].source
        /\ job.plan[k].source \in Nat /\ job.plan[m].source \in Nat
    BY <1>1, <1>2 DEF SourceSafe
  <2> QED
    BY <1>2, <1>3, <2>1
<1>4. ASSUME NEW k \in DOMAIN job.plan PROVE job.plan[k].source # job.anchor
  BY <1>1, <1>2 DEF SourceSafe
<1>5. ASSUME NEW k \in DOMAIN job.plan, NEW record, record = Recorded(job.plan[k].source),
             job.plan[k].aim # record.aim \/ HighRisk(job.plan[k])
      PROVE  /\ record.aim = NoScreen /\ record.intent \notin Identified
             /\ job.plan[k].aim = Screen[record.after]
  BY <1>1, <1>5 DEF SourceSafe, AimedLike, HighRisk
<1> QED
  BY <1>1, <1>3, <1>4, <1>5 DEF ReplaysOnlySafe, SourceSafe, AddedFor

LEMMA GivesReportsAreTrue == IInv => ReportsAreTrue
<1> SUFFICES ASSUME IInv PROVE ReportsAreTrue
  OBVIOUS
<1>1. /\ job \in Job /\ DOMAIN job.results = 1 .. Len(job.results) /\ DOMAIN job.plan = 1 .. Len(job.plan)
      /\ Len(job.results) \in Nat /\ Len(job.plan) \in Nat /\ Performed \in Nat
  BY DEF IInv, JobInv, Job, LogInv, Performed
<1>2. job.kind = "chain" /\ job.pc = "done" /\ ~job.dry /\ job.final = "full" =>
          /\ Performed = Len(job.plan)
          /\ \A k \in DOMAIN job.plan :
                /\ Added(k).outcome = "success" /\ Added(k).intent = job.plan[k].intent
                /\ ~ScreensDiffer(Screen[Recorded(job.plan[k].source).after], Screen[Added(k).after])
  BY <1>1 DEF IInv, ChainInv, Repeated
<1>3. job.kind = "task" /\ job.pc = "done" /\ Completed =>
          /\ Performed = Len(job.plan)
          /\ \A k \in DOMAIN job.plan :
                /\ Added(k).outcome = "success" /\ Added(k).intent = job.plan[k].intent
                /\ Readiness[Added(k).after] # "terminal"
  BY <1>1 DEF IInv, TaskInv, Completed, Achieved
<1>4. ASSUME job.kind = "flow"
      PROVE  /\ Performed <= Len(job.results)
             /\ \A k \in 1 .. Len(job.results) :
                  /\ k < Performed => job.results[k] = "success"
                  /\ IF k <= Performed THEN job.results[k] = Added(k).outcome ELSE job.results[k] = "skipped"
  BY <1>1, <1>4 DEF IInv, FlowInv
<1>5. ASSUME job.kind = "flow" \/ (job.kind = "task" /\ job.strict),
             NEW k \in DOMAIN job.results, NEW m \in DOMAIN job.results, k < m, job.results[k] # "success"
      PROVE  job.results[m] = "skipped"
  <2>1. CASE job.kind = "flow"
    BY <1>1, <1>4, <1>5, <2>1
  <2>2. CASE job.kind = "task" /\ job.strict
    BY <1>1, <1>5, <2>2 DEF IInv, TaskInv
  <2> QED
    BY <1>5, <2>1, <2>2
<1>6. ASSUME job.kind = "flow", job.pc = "done"
      PROVE  /\ Len(job.results) = Len(job.plan)
             /\ Performed = Cardinality({k \in DOMAIN job.results : job.results[k] # "skipped"})
             /\ \A k \in DOMAIN job.plan : job.plan[k].number \notin job.remaining
             /\ job.final = "success" => \A k \in DOMAIN job.plan : Added(k).outcome = "success"
  <2>1. /\ Len(job.results) = Len(job.plan)
        /\ \A k \in DOMAIN job.plan : job.plan[k].number \notin job.remaining
    BY <1>1, <1>6 DEF IInv, FlowInv, Idle
  <2>2. {k \in DOMAIN job.results : job.results[k] # "skipped"} = 1 .. Performed
    <3>1. ASSUME NEW k \in 1 .. Len(job.results)
          PROVE  job.results[k] # "skipped" <=> k <= Performed
      <4>1. CASE k <= Performed
        <5>1. job.results[k] = Added(k).outcome
          BY <1>4, <1>6, <4>1
        <5>2. log[Len(log) + 1 - (job.known + k)] \in LogRecord
          <6>1. Len(log) + 1 - (job.known + k) \in 1 .. Len(log)
            BY <1>1, <4>1 DEF IInv, LogInv, JobInv, Performed, Job
          <6> QED
            BY <6>1 DEF IInv, LogInv
        <5>3. Added(k).outcome \in Outcomes
          BY <5>2 DEF Added, Recorded, LogRecord
        <5> QED
          BY <4>1, <5>1, <5>3 DEF Outcomes
      <4>2. CASE k > Performed
        BY <1>1, <1>4, <1>6, <4>2
      <4> QED
        BY <1>1, <4>1, <4>2
    <3> QED
      BY <1>1, <1>4, <1>6, <3>1
  <2>3. Cardinality(1 .. Performed) = Performed
    <3>1. Cardinality(1 .. Performed) = IF 1 > Performed THEN 0 ELSE Performed - 1 + 1
      BY <1>1, FS_Interval
    <3> QED
      BY <1>1, <3>1
  <2>4. ASSUME job.final = "success", NEW k \in DOMAIN job.plan PROVE Added(k).outcome = "success"
    <3>1. job.results[k] = "success"
      BY <1>1, <1>6, <2>1, <2>4 DEF IInv, FlowInv, Idle
    <3> QED
      BY <1>1, <1>4, <1>6, <2>1, <3>1
  <2> QED
    BY <2>1, <2>2, <2>3, <2>4
<1> QED
  BY <1>2, <1>3, <1>5, <1>6 DEF ReportsAreTrue

\* The records of a session are numbered in the order they were written, and a tool never has
\* more results than steps.
THEOREM TypeCorrect == Spec => []TypeOK
  BY InductiveInvariant, GivesTypeOK, PTL

\* replay_checkpoint_chain and replay_last_stable_path perform only successes that were there when
\* they began and carried no risk as recorded, each once; a chain performs neither its anchor nor
\* a record found by OCR or of an unsafe type; what either adds to the session's records is of its
\* steps, on the targets these were given, and a dry chain adds nothing.  On which side of the
\* anchor the records lie, and what risk the target carries, is not part of it: the runs show both
\* to be other than the tool says.
THEOREM ReplaysAreSafe == Spec => []ReplaysOnlySafe
  BY InductiveInvariant, GivesReplaysOnlySafe, PTL

\* What the tools report is what the records show: a full chain repeated every step and reached
\* each screen, as far as both screens have an id, a completed task performed every step with
\* success and no dead end, a flow that ends accounts for each item, and after a result that is no
\* success a flow and a strict task perform nothing more.
THEOREM ReportsHold == Spec => []ReportsAreTrue
  BY InductiveInvariant, GivesReportsAreTrue, PTL
=============================================================================
