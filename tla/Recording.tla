------------------------------ MODULE Recording ------------------------------
(* Passive recordings (recording-runtime.ts over recording-store.ts): a       *)
(* recording is a JSON record, two detached shell processes (the input        *)
(* capture, which writes the raw log, and the snapshot loop), a raw log to    *)
(* which end_record_session also appends the JSON events it parsed, and a     *)
(* steps file.  No lock guards any of them.  Calls run in server processes    *)
(* that can die; the shells are detached and outlive them.                    *)
EXTENDS Naturals, Sequences, Functions, FiniteSets

CONSTANTS Calls,      \* the calls that can be in flight at once, one per process
          Recs,       \* recording ids
          IosRecs,    \* those of iOS devices
          PhysicalRecs, \* those of iOS physical devices
          MaxLines    \* bound: inputs a user makes while one recording captures

ASSUME RecordingAssumption ==
    /\ Recs # {} /\ IosRecs \subseteq Recs /\ PhysicalRecs \subseteq IosRecs
    /\ MaxLines \in Nat

VARIABLES record,   \* the record file of a recording
          shell,    \* its two detached processes: [capture, snapshots]
          log,      \* its raw log, in file order: [raw, torn, json]
          steps,    \* its steps file
          call,     \* what each call is doing
          excused   \* history: what went wrong with a recording
vars == <<record, shell, log, steps, call, excused>>

\* The n-th input of a recording is input n at time n.  Time 0 is that of the start,
\* Late comes after every input: the times a line without a time of its own gets.
Late == MaxLines + 1
Event == [input : 0..MaxLines, stamp : 0..Late]
Events == Seq(Event)
Input(n) == [input |-> n, stamp |-> n]
Synthetic == Input(0)       \* the two events of a dry-run end on iOS
InputsOf(s) == [i \in DOMAIN s |-> s[i].input]
NoSteps == <<>>
NoRecord == [status |-> "missing", pid |-> FALSE, snapshotPid |-> FALSE, flowPath |-> FALSE]
Record == [status : {"missing", "running", "ended", "cancelled"},
           pid : BOOLEAN, snapshotPid : BOOLEAN, flowPath : BOOLEAN]
ShellState == {"none", "alive", "killed", "dead"}
Op == {"start", "end", "cancel"}
Idle == [pc |-> "idle", op |-> "start", rec |-> CHOOSE r \in Recs : TRUE, dry |-> FALSE,
         export |-> FALSE, seen |-> NoRecord, events |-> NoSteps]
Call == [pc : {"idle", "spawn", "snapshot", "persist", "list", "parse", "append", "map",
               "reload", "write"},
         op : Op, rec : Recs, dry : BOOLEAN, export : BOOLEAN, seen : Record,
         events : Events]
Torn == {NoSteps} \cup {<<e>> : e \in Event}
Excuse == {"orphaned", "overlapped", "reread"}

TypeOK == /\ record \in [Recs -> Record]
          /\ shell \in [Recs -> [capture : ShellState, snapshots : ShellState]]
          /\ log \in [Recs -> [raw : Events, torn : Torn, json : Events]]
          /\ steps \in [Recs -> Seq(0..MaxLines)]
          /\ call \in [Calls -> Call]
          /\ excused \in [Recs -> SUBSET Excuse]

Init == /\ record = [r \in Recs |-> NoRecord]
        /\ shell = [r \in Recs |-> [capture |-> "none", snapshots |-> "none"]]
        /\ log = [r \in Recs |-> [raw |-> NoSteps, torn |-> NoSteps, json |-> NoSteps]]
        /\ steps = [r \in Recs |-> NoSteps]
        /\ call = [c \in Calls |-> Idle]
        /\ excused = [r \in Recs |-> {}]

At(c, pc) == call[c].pc = pc
Busy(r) == \E c \in Calls : ~At(c, "idle") /\ call[c].rec = r
Ending(r) == {c \in Calls : ~At(c, "idle") /\ call[c].rec = r /\ call[c].op = "end"}
Fresh(r) == record[r] = NoRecord /\ shell[r].capture = "none" /\ ~Busy(r)
Return(c) == call' = [call EXCEPT ![c] = Idle]
Goto(c, pc) == call' = [call EXCEPT ![c].pc = pc]
Excuses(r, e) == excused' = [excused EXCEPT ![r] = @ \cup e]
\* SIGTERM reaches a process that runs; a dead one makes kill throw, unseen.  A
\* capture may still write before it dies; when the snapshot loop dies is nobody's.
Killed(s) == IF s = "alive" THEN "killed" ELSE s
Stopped(s) == IF s = "alive" THEN "dead" ELSE s

-----------------------------------------------------------------------------
(* start_record_session: the shells first, the record last.                   *)
Start(c, r) ==
    /\ At(c, "idle") /\ Fresh(r)
    /\ \E dry \in BOOLEAN : call' = [call EXCEPT ![c] =
           [Idle EXCEPT !.pc = IF dry THEN "persist" ELSE "spawn", !.rec = r, !.dry = dry]]
    /\ UNCHANGED <<record, shell, log, steps, excused>>

\* The backend does not answer or the shell does not start: nothing is kept.
StartFails(c) ==
    /\ At(c, "spawn") /\ Return(c)
    /\ UNCHANGED <<record, shell, log, steps, excused>>

SpawnCapture(c) ==
    /\ At(c, "spawn") /\ Goto(c, "snapshot")
    /\ shell' = [shell EXCEPT ![call[c].rec].capture = "alive"]
    /\ UNCHANGED <<record, log, steps, excused>>

\* A snapshot directory that cannot be made throws past the running capture.
SnapshotDirFails(c) ==
    /\ At(c, "snapshot") /\ Return(c)
    /\ Excuses(call[c].rec, {"orphaned"})
    /\ UNCHANGED <<record, shell, log, steps>>

SpawnSnapshots(c) ==
    /\ At(c, "snapshot") /\ Goto(c, "persist")
    /\ \E s \in {"alive", "none"} : shell' = [shell EXCEPT ![call[c].rec].snapshots = s]
    /\ UNCHANGED <<record, log, steps, excused>>

\* Slip: a dry start gets a status of its own.
PersistStartedPlanned(c) ==
    /\ At(c, "persist") /\ Return(c)
    /\ LET r == call[c].rec
       IN  record' = [record EXCEPT ![r] =
               [status |-> IF call[c].dry THEN "planned" ELSE "running", pid |-> ~call[c].dry,
                snapshotPid |-> shell[r].snapshots # "none", flowPath |-> FALSE]]
    /\ UNCHANGED <<shell, log, steps, excused>>

PersistStartedRecordSession(c) ==
    /\ At(c, "persist") /\ Return(c)
    /\ LET r == call[c].rec
       IN  record' = [record EXCEPT ![r] =
               [status |-> "running", pid |-> ~call[c].dry,
                snapshotPid |-> shell[r].snapshots # "none", flowPath |-> FALSE]]
    /\ UNCHANGED <<shell, log, steps, excused>>

-----------------------------------------------------------------------------
(* end_record_session: whatever the status says, it kills, parses, maps,      *)
(* exports and sets the record to "ended".                                    *)
\* Slip: the snapshot loop is forgotten.
EndRecordSessionCaptureOnly(c, r) ==
    /\ At(c, "idle") /\ record[r] # NoRecord
    /\ \E dry, export \in BOOLEAN :
        /\ call' = [call EXCEPT ![c] =
               [Idle EXCEPT !.pc = "list", !.op = "end", !.rec = r, !.dry = dry, !.export = export]]
        /\ shell' = IF ~dry /\ record[r].pid
                    THEN [shell EXCEPT ![r].capture = Killed(@)] ELSE shell
        /\ Excuses(r, (IF Ending(r) # {} THEN {"overlapped"} ELSE {})
                       \cup (IF dry /\ record[r].pid THEN {"orphaned"} ELSE {}))
    /\ UNCHANGED <<record, log, steps>>

EndRecordSession(c, r) ==
    /\ At(c, "idle") /\ record[r] # NoRecord
    /\ \E dry, export \in BOOLEAN :
        /\ call' = [call EXCEPT ![c] =
               [Idle EXCEPT !.pc = "list", !.op = "end", !.rec = r, !.dry = dry, !.export = export]]
        /\ shell' = [shell EXCEPT ![r] =
               IF dry THEN @
               ELSE [capture |-> IF record[r].pid /\ record[r].status = "running"
                                 THEN Killed(@.capture) ELSE @.capture,
                     snapshots |-> IF record[r].snapshotPid THEN Stopped(@.snapshots)
                                   ELSE @.snapshots]]
        /\ Excuses(r, (IF Ending(r) # {} THEN {"overlapped"} ELSE {})
                       \cup (IF dry /\ record[r].pid THEN {"orphaned"} ELSE {}))
    /\ UNCHANGED <<record, log, steps>>

\* By time; events of one time keep their order.
SortedForms(s) ==
    {[i \in DOMAIN s |-> s[p[i]]] : p \in
        {q \in Bijection(DOMAIN s, DOMAIN s) : \A i, j \in DOMAIN s : i < j =>
            \/ s[q[i]].stamp < s[q[j]].stamp
            \/ s[q[i]].stamp = s[q[j]].stamp /\ q[i] < q[j]}}

\* listRawRecordedEvents: intact JSON lines only, by time.
ListRawRecordedEvents(c) ==
    /\ At(c, "list")
    /\ \E sorted \in SortedForms(log[call[c].rec].json) :
           call' = [call EXCEPT ![c].events = sorted,
                                ![c].dry = @ /\ sorted = NoSteps,
                                ![c].pc = IF sorted = NoSteps THEN "parse" ELSE "map"]
    /\ UNCHANGED <<record, shell, log, steps, excused>>

\* What the raw parsers make of JSON lines and of what is left of one: for any of
\* them an event with the input's words, the rest nothing.  Android's gives it the
\* time of the start; iOS's the time in the line or, without one, by its place.
Time(e, t) == IF t = "own" THEN e.stamp ELSE IF t = "late" THEN Late ELSE 0
Times(r) == IF r \in IosRecs THEN {"own", "start", "late"} ELSE {"start"}
Places(s, n) == {f \in [1..n -> DOMAIN s] : \A i, j \in 1..n : i < j => f[i] < f[j]}
ReadSome(r, s, n) ==
    {[i \in 1..n |-> [input |-> s[f[i]].input, stamp |-> Time(s[f[i]], t[i])]] :
        f \in Places(s, n), t \in [1..n -> Times(r)]}
ReadAgain(r, s) == UNION {ReadSome(r, s, n) : n \in 0..Len(s)}

\* Without an intact JSON line the whole log is parsed, whatever it holds besides
\* the capture's lines; a dry run on iOS that finds nothing makes events up.
ParseRawEvents(c) ==
    /\ At(c, "parse")
    /\ LET r == call[c].rec
       IN  \E again \in ReadAgain(r, log[r].torn \o log[r].json) :
             LET found == log[r].raw \o again
                 parsed == IF call[c].dry /\ r \in IosRecs /\ found = NoSteps
                           THEN <<Synthetic>> ELSE found
             IN  /\ call' = [call EXCEPT ![c].events = parsed,
                                         ![c].dry = FALSE,
                                         ![c].pc = IF parsed = NoSteps THEN "map" ELSE "append"]
                 /\ Excuses(r, IF again = NoSteps THEN {} ELSE {"reread"})
    /\ UNCHANGED <<record, shell, log, steps>>

PersistRawRecordedEvents(c) ==
    /\ At(c, "append") /\ Goto(c, "map")
    /\ log' = [log EXCEPT ![call[c].rec].json = @ \o call[c].events]
    /\ UNCHANGED <<record, shell, steps, excused>>

\* Slip: the steps file is appended to.
PersistRecordedStepsAppends(c) ==
    /\ At(c, "map") /\ Goto(c, "reload")
    /\ steps' = [steps EXCEPT ![call[c].rec] = @ \o InputsOf(call[c].events)]
    /\ UNCHANGED <<record, shell, log, excused>>

\* The events, by time, replace the steps file and, unless autoExport is off or a
\* physical iOS device recorded nothing, are exported to a flow file of their own.
PersistRecordedSteps(c) ==
    /\ At(c, "map")
    /\ LET r == call[c].rec
           rejected == r \in PhysicalRecs /\ call[c].events = NoSteps
       IN  /\ \E sorted \in SortedForms(call[c].events) :
                 steps' = [steps EXCEPT ![r] = InputsOf(sorted)]
           /\ call' = [call EXCEPT ![c].pc = "reload", ![c].export = @ /\ ~rejected,
                                   ![c].events = NoSteps]
    /\ UNCHANGED <<record, shell, log, excused>>

-----------------------------------------------------------------------------
(* cancel_record_session, and the read-modify-write both calls end with.      *)
CancelRecordSession(c, r) ==
    /\ At(c, "idle") /\ record[r] # NoRecord
    /\ call' = [call EXCEPT ![c] = [Idle EXCEPT !.pc = "reload", !.op = "cancel", !.rec = r]]
    /\ shell' = [shell EXCEPT ![r] =
           IF record[r].status # "running" THEN @
           ELSE [capture |-> IF record[r].pid THEN Killed(@.capture) ELSE @.capture,
                 snapshots |-> IF record[r].snapshotPid THEN Stopped(@.snapshots) ELSE @.snapshots]]
    /\ UNCHANGED <<record, log, steps, excused>>

LoadRecordSession(c) ==
    /\ At(c, "reload")
    /\ call' = [call EXCEPT ![c].seen = record[call[c].rec], ![c].pc = "write"]
    /\ UNCHANGED <<record, shell, log, steps, excused>>

\* Slip: the pids of a cancelled recording stay in its record.
PatchedKeepsPid(k) ==
    [k.seen EXCEPT !.status = IF k.op = "end" THEN "ended" ELSE "cancelled",
                   !.pid = @ /\ k.op = "cancel", !.snapshotPid = @ /\ k.op = "cancel"]

Patched(k) ==
    [k.seen EXCEPT !.status = IF k.op = "end" THEN "ended" ELSE "cancelled",
                   !.flowPath = IF k.op = "end" THEN k.export ELSE @,
                   !.pid = FALSE, !.snapshotPid = FALSE]

PersistRecordSessionState(c) ==
    /\ At(c, "write") /\ Return(c)
    /\ record' = [record EXCEPT ![call[c].rec] = Patched(call[c])]
    /\ UNCHANGED <<shell, log, steps, excused>>

-----------------------------------------------------------------------------
(* The user, the shells and the server processes.                             *)
\* The capture's log was opened without O_APPEND: what it writes after JSON lines
\* were appended overwrites them from the first one on.  Of the last one it
\* reaches, the tail may be left, as may some of a tail that was left before.
UserInput(r) ==
    /\ shell[r].capture \in {"alive", "killed"} /\ Len(log[r].raw) < MaxLines
    /\ \E lost \in 0..Len(log[r].json) :
        /\ lost = 0 => log[r].torn # NoSteps \/ log[r].json = NoSteps
        /\ \E torn \in {NoSteps, IF lost = 0 THEN log[r].torn ELSE <<log[r].json[lost]>>} :
               log' = [log EXCEPT ![r] = [raw |-> Append(@.raw, Input(Len(@.raw) + 1)),
                                          torn |-> torn,
                                          json |-> SubSeq(@.json, lost + 1, Len(@.json))]]
    /\ UNCHANGED <<record, shell, steps, call, excused>>

\* Killed shells die; a capture also ends when its device goes away.
CaptureDies(r) ==
    /\ shell[r].capture = "killed"
    /\ shell' = [shell EXCEPT ![r].capture = "dead"]
    /\ UNCHANGED <<record, log, steps, call, excused>>

DeviceGone(r) ==
    /\ shell[r].capture = "alive"
    /\ shell' = [shell EXCEPT ![r].capture = "dead"]
    /\ UNCHANGED <<record, log, steps, call, excused>>

\* A server process dies; a start between its shells and its record orphans them.
Crash(c) ==
    /\ ~At(c, "idle") /\ Return(c)
    /\ Excuses(call[c].rec, IF call[c].pc \in {"snapshot", "persist"} /\ ~call[c].dry
                            THEN {"orphaned"} ELSE {})
    /\ UNCHANGED <<record, shell, log, steps>>

CallStep(c) ==
    \/ StartFails(c) \/ SpawnCapture(c) \/ SnapshotDirFails(c) \/ SpawnSnapshots(c)
    \/ PersistStartedRecordSession(c)
    \/ ListRawRecordedEvents(c) \/ ParseRawEvents(c) \/ PersistRawRecordedEvents(c)
    \/ PersistRecordedSteps(c)
    \/ LoadRecordSession(c) \/ PersistRecordSessionState(c)

Next ==
    \/ \E c \in Calls, r \in Recs :
          Start(c, r) \/ EndRecordSession(c, r) \/ CancelRecordSession(c, r)
    \/ \E c \in Calls : CallStep(c) \/ Crash(c)
    \/ \E r \in Recs : UserInput(r) \/ CaptureDies(r) \/ DeviceGone(r)

Spec == Init /\ [][Next]_vars

-----------------------------------------------------------------------------
\* A shell that runs can still be stopped: the running record names it, or the
\* start that spawned it has not returned.  The exceptions are counted: a start
\* that died or threw between spawn and record, and a dry-run end.
Stoppable(r) ==
    \/ record[r].status = "running" /\ record[r].pid
    \/ \E c \in Calls : call[c].rec = r /\ call[c].op = "start"
                        /\ call[c].pc \in {"snapshot", "persist"}
StrayShellsExplained ==
    \A r \in Recs : ("alive" \in {shell[r].capture, shell[r].snapshots}
                    /\ "orphaned" \notin excused[r]) => Stoppable(r)

\* A recording's steps hold every input at most once and in the order the user made
\* them, however often it is ended, cancelled, or ended by a process that died
\* before it finished.  Two exceptions are counted: two ends that overlapped, and
\* an end that parsed what the capture left of an overwritten JSON line.
StepsOnceInOrder ==
    \A r \in Recs : excused[r] \cap {"overlapped", "reread"} = {} =>
        \A i, j \in DOMAIN steps[r] : i < j => steps[r][i] < steps[r][j]

\* An ended or cancelled recording never runs again and never names a process
\* again, whichever record image a call loaded before.
NeverRunsAgain ==
    [][\A r \in Recs : record[r].status \in {"ended", "cancelled"} =>
           record'[r].status \in {"ended", "cancelled"} /\ ~record'[r].pid /\ ~record'[r].snapshotPid]_vars
=============================================================================
