-------------------------- MODULE RecordingProofs --------------------------
(***************************************************************************)
(* Proofs about Recording, for any calls, recordings and number of inputs. *)
(* Nothing locks a recording, so the argument is who can be in flight: a   *)
(* start is alone with its id until the record exists (StartAlone), and a  *)
(* call that ends a recording has stopped its shells before it can clear   *)
(* the pids that name them (EndersStopped).                                *)
(***************************************************************************)
EXTENDS Recording, SequenceTheorems, TLAPS

Starting == {"spawn", "snapshot", "persist"}
Closing == {"list", "parse", "append", "map", "reload", "write"}
Orphaned(r) == "orphaned" \in excused[r]
Alive(r) == "alive" \in {shell[r].capture, shell[r].snapshots}

\* A start in flight is the only call on its id, and the id has no record.
StartAlone ==
    \A c \in Calls : call[c].pc \in Starting =>
        /\ call[c].op = "start"
        /\ record[call[c].rec] = NoRecord
        /\ \A d \in Calls : ~At(d, "idle") /\ call[d].rec = call[c].rec => d = c
        /\ At(c, "spawn") => ~Alive(call[c].rec)
        /\ At(c, "snapshot") => shell[call[c].rec].capture # "none"
        /\ call[c].dry => At(c, "persist") /\ ~Alive(call[c].rec)

\* Every other call found a record, and stopped the shells unless they are orphans.
EndersStopped ==
    \A c \in Calls : call[c].pc \in Closing =>
        /\ call[c].op \in {"end", "cancel"}
        /\ record[call[c].rec].status # "missing"
        /\ Alive(call[c].rec) => Orphaned(call[c].rec)

\* What a record says of its shells.
RecordsNameShells ==
    \A r \in Recs :
        /\ shell[r].capture = "none" => shell[r].snapshots = "none"
        /\ record[r].status = "missing" => record[r] = NoRecord
        /\ record[r].status \in {"ended", "cancelled"} => ~record[r].pid /\ ~record[r].snapshotPid
        /\ (record[r].status = "running" /\ shell[r].snapshots = "alive") => record[r].snapshotPid

\* What is in a log, in a call's hands and in a steps file is in the order of the
\* inputs, unless ends overlapped or one read again what was left of a JSON line; a
\* call that parses found no JSON events.
Increasing(s) == /\ \A i \in DOMAIN s : s[i].input = s[i].stamp
                 /\ \A i, j \in DOMAIN s : i < j => s[i].stamp < s[j].stamp
Rising(s) == \A i, j \in DOMAIN s : i < j => s[i] < s[j]
Overlapped(r) == "overlapped" \in excused[r]
Disordered(r) == Overlapped(r) \/ "reread" \in excused[r]
Ends == {"list", "parse", "append", "map"}
InOrder(r) == /\ \A i \in DOMAIN log[r].raw : log[r].raw[i] = Input(i)
              /\ ~Disordered(r) => Increasing(log[r].json) /\ Rising(steps[r])
HoldsOrder(c) == ~Disordered(call[c].rec) =>
                     /\ Increasing(call[c].events)
                     /\ call[c].pc \in {"parse", "append"} => log[call[c].rec].json = NoSteps
IsEnd(c) == ~At(c, "idle") /\ call[c].op = "end"
OneEnd(c, d) == (c # d /\ IsEnd(c) /\ IsEnd(d) /\ call[c].rec = call[d].rec)
                    => Overlapped(call[c].rec)
LogsInOrder == /\ \A r \in Recs : InOrder(r)
               /\ \A c \in Calls : HoldsOrder(c)
               /\ \A c, d \in Calls : OneEnd(c, d)
               /\ \A c \in Calls : call[c].pc \in Ends => call[c].op = "end"

Inv == TypeOK /\ StartAlone /\ EndersStopped /\ RecordsNameShells
       /\ StrayShellsExplained /\ LogsInOrder

-----------------------------------------------------------------------------
(* Types.                                                                  *)

\* Sorting a sequence of events gives a sequence of events.
LEMMA SortedFormsType ==
  ASSUME NEW s \in Events, NEW t \in SortedForms(s)
  PROVE  t \in Events
<1>1. PICK p \in Bijection(DOMAIN s, DOMAIN s) : t = [i \in DOMAIN s |-> s[p[i]]]
  BY DEF SortedForms
<1>2. DOMAIN s = 1..Len(s) /\ Len(s) \in Nat /\ s \in [1..Len(s) -> Event]
  BY LenProperties DEF Events
<1>3. p \in [1..Len(s) -> 1..Len(s)]
  BY <1>1, <1>2 DEF Bijection, Injection
<1>4. t \in [1..Len(s) -> Event]
  BY <1>1, <1>2, <1>3
<1>5. t = [i \in 1..Len(s) |-> s[p[i]]] /\ \A i \in 1..Len(s) : s[p[i]] \in Event
  BY <1>1, <1>2, <1>3
<1> QED
  BY <1>2, <1>5 DEF Events

\* An input is an event, and the inputs of events are a steps file.
LEMMA InputType == \A n \in 0..MaxLines : Input(n) \in Event
<1>1. \A n \in 0..MaxLines : n \in 0..Late
  BY RecordingAssumption DEF Late
<1> QED
  BY <1>1 DEF Input, Event

LEMMA InputsOfType == ASSUME NEW s \in Events PROVE InputsOf(s) \in Seq(0..MaxLines)
<1>1. DOMAIN s = 1..Len(s) /\ Len(s) \in Nat /\ s \in [1..Len(s) -> Event]
  BY LenProperties DEF Events
<1>2. \A i \in 1..Len(s) : s[i].input \in 0..MaxLines
  BY <1>1 DEF Event
<1>3. InputsOf(s) \in [1..Len(s) -> 0..MaxLines]
  BY <1>1, <1>2 DEF InputsOf
<1> QED
  BY <1>1, <1>3, SeqDef

\* What is read again is events.
LEMMA ReadAgainType ==
  ASSUME NEW r \in Recs, NEW s \in Events, NEW again \in ReadAgain(r, s)
  PROVE  again \in Events
<1>0. PICK n \in 0..Len(s) : again \in ReadSome(r, s, n)
  BY DEF ReadAgain
<1>1. PICK f \in Places(s, n), t \in [1..n -> Times(r)] :
        again = [i \in 1..n |-> [input |-> s[f[i]].input, stamp |-> Time(s[f[i]], t[i])]]
  BY <1>0 DEF ReadSome
<1>6. f \in [1..n -> DOMAIN s]
  BY DEF Places
<1>2. DOMAIN s = 1..Len(s) /\ Len(s) \in Nat /\ s \in [1..Len(s) -> Event]
  BY LenProperties DEF Events
<1>3. ASSUME NEW i \in 1..n
      PROVE  [input |-> s[f[i]].input,
              stamp |-> Time(s[f[i]], t[i])] \in Event
  <2>1. s[f[i]] \in Event
    BY <1>2, <1>3, <1>6
  <2>2. Late \in 0..Late /\ 0 \in 0..Late
    BY RecordingAssumption DEF Late
  <2> QED
    BY <2>1, <2>2 DEF Event, Time
<1>4. again \in [1..n -> Event]
  BY <1>1, <1>3
<1>5. n \in Nat
  BY <1>2
<1> QED
  BY <1>4, <1>5 DEF Events

LEMMA EmptyIsEvents == NoSteps \in Events /\ NoSteps \in Torn /\ NoSteps \in Seq(0..MaxLines)
  BY DEF NoSteps, Events, Torn

LEMMA TornIsEvents == \A t \in Torn : t \in Events
<1>1. \A e \in Event : <<e>> \in Seq(Event)
  OBVIOUS
<1> QED
  BY <1>1, EmptyIsEvents DEF Events, Torn

\* What an input leaves of the log is again a log.
LEMMA OverwrittenType ==
  ASSUME NEW s \in Events, NEW lost \in 0..Len(s)
  PROVE  SubSeq(s, lost + 1, Len(s)) \in Events
<1>1. Len(s) \in Nat /\ s \in [1..Len(s) -> Event]
  BY LenProperties DEF Events
<1>2. \A i \in (lost + 1)..Len(s) : s[i] \in Event
  BY <1>1
<1> QED
  BY <1>1, <1>2, SubSeqProperties DEF Events

LEMMA IdleType == Idle \in Call
<1>1. \E r \in Recs : TRUE
  BY RecordingAssumption
<1>2. (CHOOSE r \in Recs : TRUE) \in Recs
  BY <1>1, Zenon
<1> QED
  BY <1>2, EmptyIsEvents DEF Idle, Call, NoRecord, Record, Op

LEMMA TypeStep == ASSUME TypeOK, [Next]_vars PROVE TypeOK'
<1> USE EmptyIsEvents
<1>0. Idle \in Call
  BY IdleType
<1>1. ASSUME NEW c \in Calls, NEW r \in Recs, Start(c, r)
      PROVE  TypeOK'
  <2>1. PICK dry \in BOOLEAN :
          call' = [call EXCEPT ![c] = [Idle EXCEPT !.pc = IF dry THEN "persist" ELSE "spawn",
                                                   !.rec = r, !.dry = dry]]
    BY <1>1 DEF Start
  <2>2. call' \in [Calls -> Call]
    BY <1>0, <2>1 DEF TypeOK, Call, Op, Idle
  <2> QED
    BY <1>1, <2>2 DEF Start, TypeOK
<1>2. ASSUME NEW c \in Calls, NEW r \in Recs, EndRecordSession(c, r)
      PROVE  TypeOK'
  <2>1. \A s \in ShellState : Killed(s) \in ShellState /\ Stopped(s) \in ShellState
    BY DEF Killed, Stopped, ShellState
  <2>2. PICK dry \in BOOLEAN, export \in BOOLEAN :
          call' = [call EXCEPT ![c] = [Idle EXCEPT !.pc = "list", !.op = "end", !.rec = r,
                                                   !.dry = dry, !.export = export]]
    BY <1>2 DEF EndRecordSession
  <2>3. call' \in [Calls -> Call]
    BY <1>0, <2>2 DEF TypeOK, Call, Op, Idle
  <2>4. shell' \in [Recs -> [capture : ShellState, snapshots : ShellState]]
    BY <1>2, <2>1 DEF EndRecordSession, TypeOK
  <2>5. excused' \in [Recs -> SUBSET Excuse]
    BY <1>2 DEF EndRecordSession, TypeOK, Excuses, Excuse
  <2> QED
    BY <1>2, <2>3, <2>4, <2>5 DEF EndRecordSession, TypeOK
<1>3. ASSUME NEW c \in Calls, NEW r \in Recs, CancelRecordSession(c, r)
      PROVE  TypeOK'
  <2>1. \A s \in ShellState : Killed(s) \in ShellState /\ Stopped(s) \in ShellState
    BY DEF Killed, Stopped, ShellState
  <2>2. call' \in [Calls -> Call]
    BY <1>0, <1>3 DEF CancelRecordSession, TypeOK, Call, Op, Idle
  <2>3. shell' \in [Recs -> [capture : ShellState, snapshots : ShellState]]
    BY <1>3, <2>1 DEF CancelRecordSession, TypeOK
  <2> QED
    BY <1>3, <2>2, <2>3 DEF CancelRecordSession, TypeOK
<1>4. ASSUME NEW c \in Calls, CallStep(c)
      PROVE  TypeOK'
  <2> call[c] \in Call /\ call[c].rec \in Recs /\ record[call[c].rec] \in Record
    BY DEF TypeOK, Call
  <2>1. CASE StartFails(c)
    BY <1>0, <2>1 DEF StartFails, TypeOK, Return
  <2>2. CASE SpawnCapture(c)
    <3>1. call' \in [Calls -> Call]
      BY <2>2 DEF SpawnCapture, TypeOK, Goto, Call
    <3>2. shell' \in [Recs -> [capture : ShellState, snapshots : ShellState]]
      BY <2>2 DEF SpawnCapture, TypeOK, ShellState
    <3> QED
      BY <2>2, <3>1, <3>2 DEF SpawnCapture, TypeOK
  <2>3. CASE SnapshotDirFails(c)
    <3>1. excused' \in [Recs -> SUBSET Excuse]
      BY <2>3 DEF SnapshotDirFails, TypeOK, Excuses, Excuse
    <3> QED
      BY <1>0, <2>3, <3>1 DEF SnapshotDirFails, TypeOK, Return
  <2>4. CASE SpawnSnapshots(c)
    <3>1. call' \in [Calls -> Call]
      BY <2>4 DEF SpawnSnapshots, TypeOK, Goto, Call
    <3>2. shell' \in [Recs -> [capture : ShellState, snapshots : ShellState]]
      <4>1. shell \in [Recs -> [capture : ShellState, snapshots : ShellState]]
        BY DEF TypeOK
      <4>2. PICK s \in {"alive", "none"} :
              shell' = [shell EXCEPT ![call[c].rec].snapshots = s]
        BY <2>4 DEF SpawnSnapshots
      <4> QED
        BY <4>1, <4>2 DEF ShellState
    <3> QED
      BY <2>4, <3>1, <3>2 DEF SpawnSnapshots, TypeOK
  <2>5. CASE PersistStartedRecordSession(c)
    <3>1. record' \in [Recs -> Record]
      BY <2>5 DEF PersistStartedRecordSession, TypeOK, Record, Call
    <3> QED
      BY <1>0, <2>5, <3>1 DEF PersistStartedRecordSession, TypeOK, Return
  <2>6. CASE ListRawRecordedEvents(c)
    <3>1. PICK sorted \in SortedForms(log[call[c].rec].json) :
            call' = [call EXCEPT ![c].events = sorted, ![c].dry = @ /\ sorted = NoSteps,
                                 ![c].pc = IF sorted = NoSteps THEN "parse" ELSE "map"]
      BY <2>6 DEF ListRawRecordedEvents
    <3>2. sorted \in Events
      BY <3>1, SortedFormsType DEF TypeOK
    <3>3. call' \in [Calls -> Call]
      BY <3>1, <3>2 DEF TypeOK, Call
    <3> QED
      BY <2>6, <3>3 DEF ListRawRecordedEvents, TypeOK
  <2>7. CASE ParseRawEvents(c)
    <3> DEFINE r == call[c].rec
               lines == log[r].torn \o log[r].json
    <3>1. log[r].raw \in Events /\ lines \in Events /\ <<Synthetic>> \in Events
      <4>1. Synthetic \in Event
        BY InputType, RecordingAssumption DEF Synthetic
      <4> QED
        BY <4>1, TornIsEvents, ConcatProperties DEF TypeOK, Events
    <3>2. PICK again \in ReadAgain(r, lines) :
            LET found == log[r].raw \o again
                parsed == IF call[c].dry /\ r \in IosRecs /\ found = NoSteps
                          THEN <<Synthetic>> ELSE found
            IN  /\ call' = [call EXCEPT ![c].events = parsed, ![c].dry = FALSE,
                                        ![c].pc = IF parsed = NoSteps THEN "map" ELSE "append"]
                /\ Excuses(r, IF again = NoSteps THEN {} ELSE {"reread"})
      BY <2>7 DEF ParseRawEvents
    <3>3. log[r].raw \o again \in Events
      BY <3>1, ReadAgainType, ConcatProperties DEF Events
    <3>4. call' \in [Calls -> Call]
      BY <3>1, <3>2, <3>3 DEF TypeOK, Call
    <3>5. excused' \in [Recs -> SUBSET Excuse]
      BY <3>2 DEF TypeOK, Excuses, Excuse
    <3> QED
      BY <2>7, <3>4, <3>5 DEF ParseRawEvents, TypeOK
  <2>8. CASE PersistRawRecordedEvents(c)
    <3>1. log[call[c].rec].json \o call[c].events \in Events
      BY ConcatProperties DEF TypeOK, Call, Events
    <3>2. log' \in [Recs -> [raw : Events, torn : Torn, json : Events]]
      BY <2>8, <3>1 DEF PersistRawRecordedEvents, TypeOK
    <3>3. call' \in [Calls -> Call]
      BY <2>8 DEF PersistRawRecordedEvents, TypeOK, Goto, Call
    <3> QED
      BY <2>8, <3>2, <3>3 DEF PersistRawRecordedEvents, TypeOK
  <2>9. CASE PersistRecordedSteps(c)
    <3>1. call' \in [Calls -> Call]
      BY <2>9 DEF PersistRecordedSteps, TypeOK, Call
    <3>2. PICK sorted \in SortedForms(call[c].events) :
            steps' = [steps EXCEPT ![call[c].rec] = InputsOf(sorted)]
      BY <2>9 DEF PersistRecordedSteps
    <3>3. InputsOf(sorted) \in Seq(0..MaxLines)
      BY SortedFormsType, InputsOfType DEF Call
    <3>4. steps' \in [Recs -> Seq(0..MaxLines)]
      BY <3>2, <3>3 DEF TypeOK
    <3> QED
      BY <2>9, <3>1, <3>4 DEF PersistRecordedSteps, TypeOK
  <2>10. CASE LoadRecordSession(c)
    <3>1. call' \in [Calls -> Call]
      BY <2>10 DEF LoadRecordSession, TypeOK, Call
    <3> QED
      BY <2>10, <3>1 DEF LoadRecordSession, TypeOK
  <2>11. CASE PersistRecordSessionState(c)
    <3>1. Patched(call[c]) \in Record
      BY DEF Patched, Call, Record
    <3> QED
      BY <1>0, <2>11, <3>1 DEF PersistRecordSessionState, TypeOK, Return
  <2> QED
    BY <1>4, <2>1, <2>2, <2>3, <2>4, <2>5, <2>6, <2>7, <2>8, <2>9, <2>10, <2>11 DEF CallStep
<1>5. ASSUME NEW c \in Calls, Crash(c)
      PROVE  TypeOK'
  <2>1. excused' \in [Recs -> SUBSET Excuse]
    BY <1>5 DEF Crash, TypeOK, Excuses, Excuse, Call
  <2> QED
    BY <1>0, <1>5, <2>1 DEF Crash, TypeOK, Return
<1>6. ASSUME NEW r \in Recs, UserInput(r)
      PROVE  TypeOK'
  <2>0. PICK lost \in 0..Len(log[r].json) :
          \E torn \in {NoSteps, IF lost = 0 THEN log[r].torn ELSE <<log[r].json[lost]>>} :
            log' = [log EXCEPT ![r] = [raw |-> Append(@.raw, Input(Len(@.raw) + 1)),
                                       torn |-> torn,
                                       json |-> SubSeq(@.json, lost + 1, Len(@.json))]]
    BY <1>6 DEF UserInput
  <2>1. PICK torn \in {NoSteps, IF lost = 0 THEN log[r].torn ELSE <<log[r].json[lost]>>} :
          log' = [log EXCEPT ![r] = [raw |-> Append(@.raw, Input(Len(@.raw) + 1)),
                                     torn |-> torn,
                                     json |-> SubSeq(@.json, lost + 1, Len(@.json))]]
    BY <2>0
  <2>2. SubSeq(log[r].json, lost + 1, Len(log[r].json)) \in Events
    BY OverwrittenType DEF TypeOK
  <2>3. Append(log[r].raw, Input(Len(log[r].raw) + 1)) \in Events
    <3>1. log[r].raw \in Seq(Event) /\ Len(log[r].raw) \in Nat /\ Len(log[r].raw) < MaxLines
      BY <1>6, LenProperties DEF UserInput, TypeOK, Events
    <3>2. Input(Len(log[r].raw) + 1) \in Event
      BY <3>1, InputType, RecordingAssumption
    <3> QED
      BY <3>1, <3>2 DEF Events
  <2>5. torn \in Torn
    <3>1. log[r].torn \in Torn /\ log[r].json \in Seq(Event)
      BY DEF TypeOK, Events
    <3>2. CASE torn = NoSteps \/ torn = log[r].torn
      BY <3>1, <3>2, EmptyIsEvents
    <3>3. CASE lost # 0 /\ torn = <<log[r].json[lost]>>
      <4>1. lost \in 1..Len(log[r].json)
        BY <3>1, <3>3, LenProperties
      <4>2. log[r].json[lost] \in Event
        BY <3>1, <4>1, LenProperties
      <4> QED
        BY <3>3, <4>2 DEF Torn
    <3> QED
      BY <3>2, <3>3
  <2>4. log' \in [Recs -> [raw : Events, torn : Torn, json : Events]]
    BY <2>1, <2>2, <2>3, <2>5 DEF TypeOK
  <2> QED
    BY <1>6, <2>4 DEF UserInput, TypeOK
<1>7. ASSUME NEW r \in Recs, CaptureDies(r) \/ DeviceGone(r)
      PROVE  TypeOK'
  BY <1>7 DEF CaptureDies, DeviceGone, TypeOK, ShellState
<1>8. CASE UNCHANGED vars
  BY <1>8 DEF vars, TypeOK
<1> QED
  BY <1>1, <1>2, <1>3, <1>4, <1>5, <1>6, <1>7, <1>8 DEF Next

-----------------------------------------------------------------------------
(* The shells.                                                             *)

ShellInv == StartAlone /\ EndersStopped /\ RecordsNameShells /\ StrayShellsExplained

LEMMA ShellInit == Init => TypeOK /\ ShellInv
<1> SUFFICES ASSUME Init PROVE TypeOK /\ ShellInv
  OBVIOUS
<1>4. TypeOK
  BY IdleType, EmptyIsEvents DEF Init, TypeOK, NoRecord, Record, ShellState
<1>5. ShellInv
  BY DEF Init, ShellInv, StartAlone, EndersStopped, RecordsNameShells, StrayShellsExplained,
         Starting, Closing, Idle, At, Alive, NoRecord
<1> QED
  BY <1>4, <1>5

LEMMA ShellStep == ASSUME TypeOK, ShellInv, [Next]_vars PROVE ShellInv'
<1> USE DEF ShellInv, Starting, Closing, At, Alive, Orphaned
<1>0. TypeOK'
  BY TypeStep
<1>1. ASSUME NEW c \in Calls, NEW r \in Recs, Start(c, r)
      PROVE  ShellInv'
  <2>1. PICK dry \in BOOLEAN :
          call' = [call EXCEPT ![c] = [Idle EXCEPT !.pc = IF dry THEN "persist" ELSE "spawn",
                                                   !.rec = r, !.dry = dry]]
    BY <1>1 DEF Start
  <2>2. /\ call'[c].pc \in {"persist", "spawn"} /\ call'[c].op = "start" /\ call'[c].rec = r
        /\ call'[c].dry => call'[c].pc = "persist"
        /\ \A d \in Calls : d # c => call'[d] = call[d]
    BY <2>1 DEF TypeOK, Idle, Call
  <2>3. /\ record[r] = NoRecord /\ ~Alive(r)
        /\ \A d \in Calls : call[d].pc = "idle" \/ call[d].rec # r
    BY <1>1 DEF Start, Fresh, Busy, RecordsNameShells
  <2>4. UNCHANGED <<record, shell, excused>>
    BY <1>1 DEF Start
  <2>5. StartAlone'
    BY <2>2, <2>3, <2>4 DEF StartAlone
  <2>6. EndersStopped'
    BY <2>2, <2>4 DEF EndersStopped
  <2>7. RecordsNameShells' /\ StrayShellsExplained'
    BY <1>1, <2>2, <2>4 DEF RecordsNameShells, StrayShellsExplained, Stoppable, Start
  <2> QED
    BY <2>5, <2>6, <2>7
<1>2. ASSUME NEW c \in Calls, NEW r \in Recs,
             EndRecordSession(c, r) \/ CancelRecordSession(c, r)
      PROVE  ShellInv'
  <2>0. call \in [Calls -> Call] /\ Idle \in Call /\ excused \in [Recs -> SUBSET Excuse]
    BY IdleType DEF TypeOK
  <2>1. /\ call'[c].pc \in Closing /\ call'[c].op \in {"end", "cancel"} /\ call'[c].rec = r
        /\ \A d \in Calls : d # c => call'[d] = call[d]
        /\ call[c].pc = "idle" /\ record[r] # NoRecord /\ UNCHANGED record
    <3>1. CASE EndRecordSession(c, r)
      <4>1. PICK dry \in BOOLEAN, export \in BOOLEAN :
              call' = [call EXCEPT ![c] = [Idle EXCEPT !.pc = "list", !.op = "end", !.rec = r,
                                                       !.dry = dry, !.export = export]]
        BY <3>1 DEF EndRecordSession
      <4> QED
        BY <2>0, <3>1, <4>1 DEF EndRecordSession, Idle
    <3>2. CASE CancelRecordSession(c, r)
      BY <2>0, <3>2 DEF CancelRecordSession, Idle
    <3> QED
      BY <1>2, <3>1, <3>2
  <2>2. \A q \in Recs : (Orphaned(q) => Orphaned(q)')
                       /\ (q # r => shell'[q] = shell[q])
    <3>1. CASE EndRecordSession(c, r)
      BY <2>0, <3>1 DEF EndRecordSession, Excuses, TypeOK
    <3>2. CASE CancelRecordSession(c, r)
      BY <3>2 DEF CancelRecordSession, TypeOK
    <3> QED
      BY <1>2, <3>1, <3>2
  <2>3. \A q \in Recs : /\ shell'[q].capture = "alive" => shell[q].capture = "alive"
                        /\ shell'[q].snapshots = "alive" => shell[q].snapshots = "alive"
                        /\ shell'[q].capture = "none" => shell[q].capture = "none"
                        /\ shell[q].snapshots = "none" => shell'[q].snapshots = "none"
    <3>1. CASE EndRecordSession(c, r)
      BY <3>1 DEF EndRecordSession, Killed, Stopped, TypeOK
    <3>2. CASE CancelRecordSession(c, r)
      BY <3>2 DEF CancelRecordSession, Killed, Stopped, TypeOK
    <3> QED
      BY <1>2, <3>1, <3>2
  <2>4. record[r].status # "missing" /\ \A d \in Calls : call[d].pc \in Starting => call[d].rec # r
    BY <2>1 DEF StartAlone, RecordsNameShells
  <2>5. ASSUME Alive(r)', ~Orphaned(r)'
        PROVE  FALSE
    <3>1. Alive(r) /\ ~Orphaned(r)
      BY <2>2, <2>3, <2>5 DEF TypeOK
    <3>2. record[r].status = "running" /\ record[r].pid
      BY <2>4, <3>1 DEF StrayShellsExplained, Stoppable
    <3>3. shell[r].snapshots = "alive" => record[r].snapshotPid
      BY <3>2 DEF RecordsNameShells
    <3>4. shell'[r].capture # "alive" /\ shell'[r].snapshots # "alive"
      <4>1. CASE EndRecordSession(c, r)
        <5>1. PICK dry \in BOOLEAN :
                /\ shell' = [shell EXCEPT ![r] =
                      IF dry THEN @
                      ELSE [capture |-> IF record[r].pid /\ record[r].status = "running"
                                        THEN Killed(@.capture) ELSE @.capture,
                            snapshots |-> IF record[r].snapshotPid THEN Stopped(@.snapshots)
                                          ELSE @.snapshots]]
                /\ Excuses(r, (IF Ending(r) # {} THEN {"overlapped"} ELSE {})
                               \cup (IF dry /\ record[r].pid THEN {"orphaned"} ELSE {}))
          BY <4>1 DEF EndRecordSession
        <5>2. ~dry
          BY <2>0, <2>5, <3>2, <5>1 DEF Excuses
        <5> QED
          BY <3>2, <3>3, <5>1, <5>2 DEF Killed, Stopped, TypeOK
      <4>2. CASE CancelRecordSession(c, r)
        BY <3>2, <3>3, <4>2 DEF CancelRecordSession, Killed, Stopped, TypeOK
      <4> QED
        BY <1>2, <4>1, <4>2
    <3> QED
      BY <2>5, <3>4
  <2>6. StartAlone'
    <3> SUFFICES ASSUME NEW d \in Calls, call'[d].pc \in Starting
                 PROVE  /\ call'[d].op = "start" /\ record'[call'[d].rec] = NoRecord
                        /\ \A e \in Calls : ~At(e, "idle")' /\ call'[e].rec = call'[d].rec => e = d
                        /\ At(d, "spawn")' => ~Alive(call[d].rec)'
                        /\ At(d, "snapshot")' => shell'[call'[d].rec].capture # "none"
                        /\ call'[d].dry => At(d, "persist")' /\ ~Alive(call[d].rec)'
      BY DEF StartAlone
    <3>1. d # c /\ call'[d] = call[d] /\ call[d].rec # r /\ call[d].rec \in Recs
      BY <2>0, <2>1, <2>4 DEF Call
    <3>2. shell'[call[d].rec] = shell[call[d].rec]
      BY <2>2, <3>1
    <3> QED
      BY <2>1, <3>1, <3>2 DEF StartAlone
  <2>7. EndersStopped'
    <3> SUFFICES ASSUME NEW d \in Calls, call'[d].pc \in Closing
                 PROVE  /\ call'[d].op \in {"end", "cancel"}
                        /\ record'[call'[d].rec].status # "missing"
                        /\ Alive(call[d].rec)' => Orphaned(call[d].rec)'
      BY DEF EndersStopped
    <3>1. CASE d = c
      BY <2>1, <2>4, <2>5, <3>1
    <3>2. CASE d # c
      <4>1. call'[d] = call[d] /\ call[d].rec \in Recs
        BY <2>0, <2>1, <3>2 DEF Call
      <4>2. Alive(call[d].rec)' => Alive(call[d].rec)
        BY <2>3, <4>1
      <4> QED
        BY <2>1, <2>2, <4>1, <4>2 DEF EndersStopped
    <3> QED
      BY <3>1, <3>2
  <2>8. RecordsNameShells'
    <3> SUFFICES ASSUME NEW q \in Recs
                 PROVE  /\ shell'[q].capture = "none" => shell'[q].snapshots = "none"
                        /\ record'[q].status = "missing" => record'[q] = NoRecord
                        /\ record'[q].status \in {"ended", "cancelled"} =>
                             ~record'[q].pid /\ ~record'[q].snapshotPid
                        /\ (record'[q].status = "running" /\ shell'[q].snapshots = "alive")
                             => record'[q].snapshotPid
      BY DEF RecordsNameShells
    <3> QED
      BY <2>1, <2>3 DEF RecordsNameShells
  <2>9. StrayShellsExplained'
    BY <2>1, <2>2, <2>3, <2>5 DEF StrayShellsExplained, Stoppable
  <2> QED
    BY <2>6, <2>7, <2>8, <2>9
<1>3. ASSUME NEW c \in Calls, StartFails(c) \/ SnapshotDirFails(c) \/ Crash(c)
      PROVE  ShellInv'
  <2> call[c] \in Call /\ call[c].rec \in Recs
    BY DEF TypeOK, Call
  <2>1. /\ call'[c].pc = "idle" /\ \A d \in Calls : d # c => call'[d] = call[d]
        /\ UNCHANGED <<record, shell>> /\ call[c].pc # "idle"
    BY <1>3 DEF StartFails, SnapshotDirFails, Crash, Return, TypeOK, Idle
  <2>2. \A q \in Recs : Orphaned(q) => Orphaned(q)'
    BY <1>3 DEF StartFails, SnapshotDirFails, Crash, Excuses, TypeOK
  <2>3. call[c].pc \in {"snapshot", "persist"} =>
          "orphaned" \in excused'[call[c].rec] \/ (call[c].op = "start" /\ ~Alive(call[c].rec))
    BY <1>3 DEF StartFails, SnapshotDirFails, Crash, Excuses, TypeOK, StartAlone
  <2>4. StartAlone'
    BY <2>1 DEF StartAlone
  <2>6. EndersStopped'
    <3>1. \A d \in Calls : call[d].rec \in Recs
      BY DEF TypeOK, Call
    <3> QED
      BY <2>1, <2>2, <3>1 DEF EndersStopped
  <2>7. RecordsNameShells'
    BY <2>1 DEF RecordsNameShells
  <2>5. StrayShellsExplained'
    BY <2>1, <2>2, <2>3 DEF StrayShellsExplained, Stoppable
  <2> QED
    BY <2>4, <2>5, <2>6, <2>7
<1>4. ASSUME NEW c \in Calls, SpawnCapture(c) \/ SpawnSnapshots(c)
      PROVE  ShellInv'
  <2> DEFINE r == call[c].rec
  <2>1. call[c] \in Call /\ r \in Recs
    BY DEF TypeOK, Call
  <2>2. /\ call[c].pc \in {"spawn", "snapshot"} /\ call'[c].pc \in {"snapshot", "persist"}
        /\ call'[c] = [call[c] EXCEPT !.pc = call'[c].pc]
        /\ \A d \in Calls : d # c => call'[d] = call[d]
        /\ UNCHANGED <<record, excused>> /\ \A q \in Recs : q # r => shell'[q] = shell[q]
        /\ call'[c].pc = "snapshot" => shell'[r].capture # "none"
    <3> call \in [Calls -> Call] /\ shell \in [Recs -> [capture : ShellState, snapshots : ShellState]]
      BY DEF TypeOK
    <3>1. CASE SpawnCapture(c)
      BY <2>1, <3>1 DEF SpawnCapture, Goto, Call
    <3>2. CASE SpawnSnapshots(c)
      BY <2>1, <3>2 DEF SpawnSnapshots, Goto, Call
    <3> QED
      BY <1>4, <3>1, <3>2
  <2>3. /\ call[c].op = "start" /\ record[r] = NoRecord /\ ~call[c].dry
        /\ \A d \in Calls : ~At(d, "idle") /\ call[d].rec = r => d = c
    BY <2>2 DEF StartAlone
  <2>4. shell'[r].capture = "none" => shell'[r].snapshots = "none"
    <3>0. shell[r] \in [capture : ShellState, snapshots : ShellState]
      BY <2>1 DEF TypeOK
    <3>1. CASE SpawnCapture(c)
      BY <2>1, <3>0, <3>1 DEF SpawnCapture, TypeOK
    <3>2. CASE SpawnSnapshots(c)
      BY <2>1, <2>2, <3>0, <3>2 DEF SpawnSnapshots, TypeOK, StartAlone
    <3> QED
      BY <1>4, <3>1, <3>2
  <2>5. call'[c].op = "start" /\ call'[c].rec = r /\ ~call'[c].dry
    BY <2>1, <2>2, <2>3 DEF Call
  <2>0. \A d \in Calls : call[d].rec \in Recs
    BY DEF TypeOK, Call
  <2>6. StartAlone'
    <3>1. \A d \in Calls : d # c => call[d].rec # r \/ call[d].pc = "idle"
      BY <2>3
    <3> QED
      BY <2>0, <2>1, <2>2, <2>3, <2>5, <3>1 DEF StartAlone
  <2>7. EndersStopped'
    <3>1. \A d \in Calls : call[d].pc \in Closing => d # c /\ call[d].rec # r
      BY <2>2, <2>3
    <3> QED
      BY <2>0, <2>2, <2>5, <3>1 DEF EndersStopped
  <2>8. RecordsNameShells'
    BY <2>2, <2>3, <2>4 DEF RecordsNameShells, NoRecord
  <2>9. StrayShellsExplained'
    <3> SUFFICES ASSUME NEW q \in Recs, Alive(q)', ~Orphaned(q)' PROVE Stoppable(q)'
      BY DEF StrayShellsExplained
    <3>1. CASE q = r
      BY <3>1, <2>2, <2>5 DEF Stoppable
    <3>2. CASE q # r
      BY <3>2, <2>2, <2>5 DEF StrayShellsExplained, Stoppable
    <3> QED
      BY <3>1, <3>2
  <2> QED
    BY <2>6, <2>7, <2>8, <2>9
<1>5. ASSUME NEW c \in Calls, PersistStartedRecordSession(c)
      PROVE  ShellInv'
  <2> DEFINE r == call[c].rec
  <2>1. call[c] \in Call /\ r \in Recs
    BY DEF TypeOK, Call
  <2>2. /\ call[c].pc = "persist" /\ call'[c].pc = "idle" /\ UNCHANGED <<shell, excused>>
        /\ \A d \in Calls : d # c => call'[d] = call[d]
        /\ \A q \in Recs : q # r => record'[q] = record[q]
        /\ record'[r].status = "running" /\ record'[r].pid = ~call[c].dry
        /\ record'[r].snapshotPid = (shell[r].snapshots # "none")
    BY <1>5, <2>1 DEF PersistStartedRecordSession, Return, TypeOK, Idle
  <2>3. /\ call[c].dry => ~Alive(r)
        /\ \A d \in Calls : call[d].pc # "idle" /\ call[d].rec = r => d = c
    BY <2>2 DEF StartAlone
  <2>0. \A d \in Calls : call[d].rec \in Recs
    BY DEF TypeOK, Call
  <2>4. StartAlone'
    BY <2>0, <2>2, <2>3 DEF StartAlone
  <2>6. EndersStopped'
    BY <2>0, <2>2, <2>3 DEF EndersStopped
  <2>7. RecordsNameShells'
    BY <2>2 DEF RecordsNameShells
  <2>5. StrayShellsExplained'
    <3> SUFFICES ASSUME NEW q \in Recs, Alive(q)', ~Orphaned(q)' PROVE Stoppable(q)'
      BY DEF StrayShellsExplained
    <3>1. CASE q = r
      BY <3>1, <2>2, <2>3 DEF Stoppable
    <3>2. CASE q # r
      BY <3>2, <2>2 DEF StrayShellsExplained, Stoppable
    <3> QED
      BY <3>1, <3>2
  <2> QED
    BY <2>4, <2>5, <2>6, <2>7
<1>6. ASSUME NEW c \in Calls,
             \/ ListRawRecordedEvents(c) \/ ParseRawEvents(c) \/ PersistRawRecordedEvents(c)
             \/ PersistRecordedSteps(c) \/ LoadRecordSession(c)
      PROVE  ShellInv'
  <2>1. /\ UNCHANGED <<record, shell>> /\ \A q \in Recs : Orphaned(q) => Orphaned(q)'
        /\ call[c].pc \in Closing /\ call'[c].pc \in Closing
        /\ call'[c].op = call[c].op /\ call'[c].rec = call[c].rec
        /\ \A d \in Calls : d # c => call'[d] = call[d]
    <3> /\ call \in [Calls -> Call] /\ call[c] \in Call
        /\ excused \in [Recs -> SUBSET Excuse]
      BY DEF TypeOK
    <3>1. CASE ListRawRecordedEvents(c)
      BY <3>1 DEF ListRawRecordedEvents, Call
    <3>2. CASE ParseRawEvents(c)
      <4>1. PICK parsed \in {call'[c].events}, e \in {{}, {"reread"}} :
              /\ call' = [call EXCEPT ![c].events = parsed, ![c].dry = FALSE,
                                      ![c].pc = IF parsed = NoSteps THEN "map" ELSE "append"]
              /\ excused' = [excused EXCEPT ![call[c].rec] = @ \cup e]
        <5>1. PICK again \in ReadAgain(call[c].rec, log[call[c].rec].torn \o log[call[c].rec].json) :
                LET found == log[call[c].rec].raw \o again
                    parsed == IF call[c].dry /\ call[c].rec \in IosRecs /\ found = NoSteps
                              THEN <<Synthetic>> ELSE found
                IN  /\ call' = [call EXCEPT ![c].events = parsed, ![c].dry = FALSE,
                                            ![c].pc = IF parsed = NoSteps THEN "map" ELSE "append"]
                    /\ Excuses(call[c].rec, IF again = NoSteps THEN {} ELSE {"reread"})
          BY <3>2 DEF ParseRawEvents
        <5> QED
          BY <5>1 DEF Excuses, Call
      <4>2. call'[c].pc \in {"map", "append"} /\ call[c].pc = "parse"
        BY <3>2, <4>1 DEF ParseRawEvents, Call
      <4> QED
        BY <3>2, <4>1, <4>2 DEF ParseRawEvents, Call
    <3>3. CASE PersistRawRecordedEvents(c) \/ PersistRecordedSteps(c) \/ LoadRecordSession(c)
      BY <3>3 DEF PersistRawRecordedEvents, PersistRecordedSteps, LoadRecordSession, Goto, Call
    <3> QED
      BY <1>6, <3>1, <3>2, <3>3
  <2>0. \A d \in Calls : call[d].rec \in Recs
    BY DEF TypeOK, Call
  <2>2. StartAlone'
    BY <2>0, <2>1 DEF StartAlone
  <2>3. EndersStopped'
    BY <2>0, <2>1 DEF EndersStopped
  <2>4. RecordsNameShells'
    BY <2>1 DEF RecordsNameShells
  <2>5. StrayShellsExplained'
    BY <2>0, <2>1 DEF StrayShellsExplained, Stoppable
  <2> QED
    BY <2>2, <2>3, <2>4, <2>5
<1>7. ASSUME NEW c \in Calls, PersistRecordSessionState(c)
      PROVE  ShellInv'
  <2> DEFINE r == call[c].rec
  <2>1. call[c] \in Call /\ r \in Recs
    BY DEF TypeOK, Call
  <2>2. /\ call[c].pc = "write" /\ call'[c].pc = "idle" /\ UNCHANGED <<shell, excused>>
        /\ \A d \in Calls : d # c => call'[d] = call[d]
        /\ \A q \in Recs : q # r => record'[q] = record[q]
        /\ record'[r].status \in {"ended", "cancelled"}
        /\ ~record'[r].pid /\ ~record'[r].snapshotPid
    BY <1>7, <2>1 DEF PersistRecordSessionState, Return, Patched, TypeOK, Idle, Call, Record
  <2>3. record[r].status # "missing" /\ (Alive(r) => Orphaned(r))
    BY <2>2 DEF EndersStopped
  <2>4. \A d \in Calls : call[d].pc \in Starting => call[d].rec # r
    BY <2>3 DEF StartAlone, NoRecord
  <2>0. \A d \in Calls : call[d].rec \in Recs
    BY DEF TypeOK, Call
  <2>5. StartAlone'
    BY <2>0, <2>2, <2>4 DEF StartAlone
  <2>7. EndersStopped'
    BY <2>0, <2>2 DEF EndersStopped
  <2>8. RecordsNameShells'
    BY <2>2 DEF RecordsNameShells
  <2>6. StrayShellsExplained'
    <3> SUFFICES ASSUME NEW q \in Recs, Alive(q)', ~Orphaned(q)' PROVE Stoppable(q)'
      BY DEF StrayShellsExplained
    <3> QED
      BY <2>2, <2>3 DEF StrayShellsExplained, Stoppable
  <2> QED
    BY <2>5, <2>6, <2>7, <2>8
<1>8. ASSUME NEW r \in Recs, CaptureDies(r) \/ DeviceGone(r)
      PROVE  ShellInv'
  <2>1. /\ UNCHANGED <<record, call, excused>>
        /\ \A q \in Recs : /\ shell'[q].snapshots = shell[q].snapshots
                           /\ shell'[q].capture = shell[q].capture \/ shell'[q].capture = "dead"
    <3> shell \in [Recs -> [capture : ShellState, snapshots : ShellState]]
      BY DEF TypeOK
    <3> QED
      BY <1>8 DEF CaptureDies, DeviceGone
  <2>0. \A d \in Calls : call[d].rec \in Recs
    BY DEF TypeOK, Call
  <2>2. StartAlone' /\ EndersStopped'
    BY <2>0, <2>1 DEF StartAlone, EndersStopped
  <2>3. \A q \in Recs : shell'[q].capture = "none" => shell[q].capture = "none"
    BY <2>1
  <2>4. RecordsNameShells' /\ StrayShellsExplained'
    BY <2>1, <2>3 DEF RecordsNameShells, StrayShellsExplained, Stoppable
  <2> QED
    BY <2>2, <2>4
<1>9. CASE UNCHANGED vars \/ \E r \in Recs : UserInput(r)
  <2>1. UNCHANGED <<record, shell, call, excused>>
    BY <1>9 DEF vars, UserInput
  <2> QED
    BY <2>1 DEF StartAlone, EndersStopped, RecordsNameShells, StrayShellsExplained, Stoppable
<1> QED
  BY <1>1, <1>2, <1>3, <1>4, <1>5, <1>6, <1>7, <1>8, <1>9 DEF Next, CallStep

-----------------------------------------------------------------------------
(* The logs.                                                               *)

\* Sorting increasing events leaves them increasing: no two of them are equal.
LEMMA SortedIncreasing ==
  ASSUME NEW s \in Events, Increasing(s), NEW t \in SortedForms(s)
  PROVE  Increasing(t)
<1>1. PICK p \in Bijection(DOMAIN s, DOMAIN s) :
        /\ t = [i \in DOMAIN s |-> s[p[i]]]
        /\ \A i, j \in DOMAIN s : i < j =>
              \/ s[p[i]].stamp < s[p[j]].stamp
              \/ s[p[i]].stamp = s[p[j]].stamp /\ p[i] < p[j]
  BY DEF SortedForms
<1>2. DOMAIN s = 1..Len(s) /\ Len(s) \in Nat /\ s \in [1..Len(s) -> Event]
  BY LenProperties DEF Events
<1>3. p \in [1..Len(s) -> 1..Len(s)] /\ \A i, j \in 1..Len(s) : p[i] = p[j] => i = j
  BY <1>1, <1>2 DEF Bijection, Injection, IsInjective
<1>5. \A i \in 1..Len(s) : s[i].stamp \in 0..Late /\ Late \in Nat
  BY <1>2, RecordingAssumption DEF Event, Late
<1>6. \A i \in DOMAIN t : t[i].input = t[i].stamp
  BY <1>1, <1>2, <1>3 DEF Increasing
<1>4. ASSUME NEW i \in DOMAIN t, NEW j \in DOMAIN t, i < j
      PROVE  t[i].stamp < t[j].stamp
  <2>1. i \in 1..Len(s) /\ j \in 1..Len(s) /\ t[i] = s[p[i]] /\ t[j] = s[p[j]]
    BY <1>1, <1>2
  <2>3. p[i] # p[j] /\ p[i] \in 1..Len(s) /\ p[j] \in 1..Len(s)
    BY <1>3, <1>4, <2>1
  <2>5. s[p[i]].stamp \in Nat /\ s[p[j]].stamp \in Nat
    BY <1>5, <2>3
  <2>6. i \in DOMAIN s /\ j \in DOMAIN s
    BY <1>2, <2>1
  <2>2. s[p[i]].stamp < s[p[j]].stamp \/ s[p[i]].stamp = s[p[j]].stamp
    BY <1>1, <1>4, <2>6
  <2>4. s[p[i]].stamp # s[p[j]].stamp
    BY <1>2, <1>5, <2>3 DEF Increasing
  <2> QED
    BY <2>1, <2>2, <2>4, <2>5
<1> QED
  BY <1>4, <1>6 DEF Increasing

\* The inputs of increasing events rise.
LEMMA RisingInputs ==
  ASSUME NEW s \in Events, Increasing(s)
  PROVE  Rising(InputsOf(s))
  BY DEF Rising, InputsOf, Increasing

LEMMA TailIncreasing ==
  ASSUME NEW s \in Events, Increasing(s), NEW lost \in 0..Len(s)
  PROVE  Increasing(SubSeq(s, lost + 1, Len(s)))
<1> DEFINE u == SubSeq(s, lost + 1, Len(s))
<1>0. Len(s) \in Nat /\ DOMAIN s = 1..Len(s) /\ s \in [1..Len(s) -> Event]
  BY LenProperties DEF Events
<1>1. Len(s) \in Nat /\ DOMAIN s = 1..Len(s) /\ s \in [1..Len(s) -> Event] /\ lost \in Nat
  BY <1>0
<1>2. \A i \in (lost + 1)..Len(s) : s[i] \in Event
  BY <1>1
<1>3. /\ u \in Seq(Event)
      /\ \A i \in 1..(Len(s) - (lost + 1) + 1) : u[i] = s[lost + 1 + i - 1]
      /\ Len(u) = IF lost + 1 <= Len(s) THEN Len(s) - (lost + 1) + 1 ELSE 0
  BY <1>1, <1>2, SubSeqProperties
<1>4. DOMAIN u = 1..Len(u)
  BY <1>3, LenProperties
<1>6. ASSUME NEW i \in 1..Len(u)
      PROVE  u[i] = s[lost + 1 + i - 1] /\ lost + 1 + i - 1 \in 1..Len(s)
  <2>1. i \in 1..(Len(s) - (lost + 1) + 1)
    BY <1>1, <1>3
  <2> QED
    BY <1>1, <1>3, <2>1
<1>5. ASSUME NEW i \in 1..Len(u), NEW j \in 1..Len(u), i < j
      PROVE  u[i].stamp < u[j].stamp
  <2>1. i \in Nat /\ j \in Nat
    BY <1>3, LenProperties
  <2>2. lost + 1 + i - 1 < lost + 1 + j - 1
    BY <1>1, <1>5, <2>1
  <2> QED
    BY <1>1, <1>6, <2>2 DEF Increasing
<1>7. \A i \in 1..Len(u) : u[i].input = u[i].stamp
  BY <1>1, <1>6 DEF Increasing
<1> QED
  BY <1>4, <1>5, <1>7 DEF Increasing

LEMMA EmptyIncreasing == Increasing(NoSteps) /\ Rising(NoSteps)
  BY DEF Increasing, Rising, NoSteps

LEMMA LogInit == Init => LogsInOrder
  BY EmptyIncreasing
     DEF Init, LogsInOrder, InOrder, HoldsOrder, OneEnd, IsEnd, At, Idle, NoSteps, Ends

\* A call that leaves logs and steps alone, and whose events and pc do not come
\* to matter, keeps the order.
LEMMA OrderKept ==
  ASSUME TypeOK, LogsInOrder, NEW c \in Calls,
         UNCHANGED <<log, steps>>,
         \A r \in Recs : excused[r] \subseteq excused'[r],
         \A d \in Calls : d # c => call'[d] = call[d],
         call'[c].rec \in Recs,
         call'[c].pc \notin Ends,
         \/ call'[c].events = NoSteps
         \/ call'[c].events = call[c].events /\ call'[c].rec = call[c].rec,
         \/ call'[c].pc = "idle" \/ call'[c].op # "end"
         \/ IsEnd(c) /\ call'[c].rec = call[c].rec
  PROVE  LogsInOrder'
<1>0. \A d \in Calls : call[d].rec \in Recs
  BY DEF TypeOK, Call
<1>1. \A r \in Recs : InOrder(r)'
  BY DEF LogsInOrder, InOrder, Disordered, Overlapped
<1>2. \A d \in Calls : HoldsOrder(d)'
  BY <1>0, EmptyIncreasing DEF LogsInOrder, HoldsOrder, Disordered, Overlapped, Increasing, Ends
<1>4. \A d \in Calls : call'[d].pc \in Ends => call'[d].op = "end"
  BY DEF LogsInOrder
<1>3. ASSUME NEW d \in Calls, NEW e \in Calls
      PROVE  OneEnd(d, e)'
  <2>1. IsEnd(d)' => IsEnd(d) /\ call'[d].rec = call[d].rec
    BY DEF IsEnd, At
  <2>2. IsEnd(e)' => IsEnd(e) /\ call'[e].rec = call[e].rec
    BY DEF IsEnd, At
  <2> QED
    BY <1>0, <2>1, <2>2 DEF LogsInOrder, OneEnd, Overlapped
<1> QED
  BY <1>1, <1>2, <1>3, <1>4 DEF LogsInOrder

LEMMA LogStep == ASSUME TypeOK, LogsInOrder, [Next]_vars PROVE LogsInOrder'
<1>0. /\ call \in [Calls -> Call] /\ \A d \in Calls : call[d] \in Call /\ call[d].rec \in Recs
      /\ log \in [Recs -> [raw : Events, torn : Torn, json : Events]]
      /\ steps \in [Recs -> Seq(0..MaxLines)]
      /\ excused \in [Recs -> SUBSET Excuse] /\ Idle \in Call
  BY IdleType DEF TypeOK, Call
<1>1. ASSUME NEW c \in Calls, NEW r \in Recs, Start(c, r) \/ CancelRecordSession(c, r)
      PROVE  LogsInOrder'
  <2>1. /\ UNCHANGED <<log, steps, excused>> /\ \A d \in Calls : d # c => call'[d] = call[d]
        /\ call'[c].rec = r /\ call'[c].events = NoSteps
        /\ call'[c].pc \notin Ends /\ call'[c].op # "end"
    <3>1. CASE Start(c, r)
      BY <1>0, <3>1 DEF Start, Idle, Call, Ends
    <3>2. CASE CancelRecordSession(c, r)
      BY <1>0, <3>2 DEF CancelRecordSession, Idle, Call, Ends
    <3> QED
      BY <1>1, <3>1, <3>2
  <2> QED
    BY <2>1, OrderKept
<1>2. ASSUME NEW c \in Calls, NEW r \in Recs, EndRecordSession(c, r)
      PROVE  LogsInOrder'
  <2>1. PICK dry \in BOOLEAN, export \in BOOLEAN :
          /\ call' = [call EXCEPT ![c] = [Idle EXCEPT !.pc = "list", !.op = "end", !.rec = r,
                                                   !.dry = dry, !.export = export]]
          /\ Excuses(r, (IF Ending(r) # {} THEN {"overlapped"} ELSE {})
                        \cup (IF dry /\ record[r].pid THEN {"orphaned"} ELSE {}))
    BY <1>2 DEF EndRecordSession
  <2>2. /\ call[c].pc = "idle" /\ UNCHANGED <<log, steps>>
        /\ call'[c].rec = r /\ call'[c].pc = "list" /\ call'[c].events = NoSteps
        /\ call'[c].op = "end"
        /\ \A d \in Calls : d # c => call'[d] = call[d]
    BY <1>0, <1>2, <2>1 DEF EndRecordSession, At, Idle
  <2>3. /\ \A q \in Recs : excused[q] \subseteq excused'[q]
        /\ Ending(r) # {} => "overlapped" \in excused'[r]
    BY <1>0, <2>1 DEF Excuses
  <2>4. \A q \in Recs : InOrder(q)'
    BY <2>2, <2>3 DEF LogsInOrder, InOrder, Disordered, Overlapped
  <2>5. \A d \in Calls : HoldsOrder(d)'
    <3>1. HoldsOrder(c)'
      BY <2>2, EmptyIncreasing DEF HoldsOrder
    <3>2. ASSUME NEW d \in Calls, d # c
          PROVE  HoldsOrder(d)'
      <4>1. /\ HoldsOrder(d) /\ call'[d] = call[d] /\ log' = log
            /\ Disordered(call[d].rec) => Disordered(call[d].rec)'
        BY <1>0, <2>2, <2>3, <3>2 DEF LogsInOrder, Disordered, Overlapped
      <4> QED
        BY <4>1 DEF HoldsOrder
    <3> QED
      BY <3>1, <3>2
  <2>6. ASSUME NEW d \in Calls, NEW e \in Calls
        PROVE  OneEnd(d, e)'
    <3>1. ASSUME NEW b \in Calls, b # c, IsEnd(b)', call'[b].rec = r
          PROVE  "overlapped" \in excused'[r]
      <4>1. b \in Ending(r)
        BY <2>2, <3>1 DEF Ending, IsEnd, At
      <4> QED
        BY <2>3, <4>1
    <3>2. ASSUME d # c, e # c
          PROVE  OneEnd(d, e)'
      BY <1>0, <2>2, <2>3, <3>2 DEF LogsInOrder, OneEnd, IsEnd, At, Overlapped
    <3> QED
      BY <2>2, <3>1, <3>2 DEF OneEnd, Overlapped
  <2> QED
    BY <2>2, <2>4, <2>5, <2>6 DEF LogsInOrder
<1>3. ASSUME NEW c \in Calls,
             \/ StartFails(c) \/ SpawnCapture(c) \/ SnapshotDirFails(c) \/ SpawnSnapshots(c)
             \/ PersistStartedRecordSession(c) \/ LoadRecordSession(c)
             \/ PersistRecordSessionState(c) \/ Crash(c)
      PROVE  LogsInOrder'
  <2>1. /\ UNCHANGED <<log, steps>> /\ \A d \in Calls : d # c => call'[d] = call[d]
        /\ \A r \in Recs : excused[r] \subseteq excused'[r]
    <3>1. CASE StartFails(c) \/ SpawnCapture(c) \/ SnapshotDirFails(c) \/ SpawnSnapshots(c)
      BY <1>0, <3>1 DEF StartFails, SpawnCapture, SnapshotDirFails, SpawnSnapshots,
                        Return, Goto, Excuses
    <3>2. CASE PersistStartedRecordSession(c) \/ LoadRecordSession(c)
                 \/ PersistRecordSessionState(c) \/ Crash(c)
      BY <1>0, <3>2 DEF PersistStartedRecordSession, LoadRecordSession,
                        PersistRecordSessionState, Crash, Return, Excuses
    <3> QED
      BY <1>3, <3>1, <3>2
  <2>2. \/ call'[c] = Idle
        \/ /\ call[c].pc # "idle" /\ call'[c].pc \notin Ends
           /\ call'[c].op = call[c].op /\ call'[c].rec = call[c].rec
           /\ call'[c].events = call[c].events
    <3>1. CASE StartFails(c) \/ SnapshotDirFails(c) \/ PersistStartedRecordSession(c)
                 \/ PersistRecordSessionState(c) \/ Crash(c)
      BY <1>0, <3>1 DEF StartFails, SnapshotDirFails, PersistStartedRecordSession,
                        PersistRecordSessionState, Crash, Return
    <3>2. CASE SpawnCapture(c) \/ SpawnSnapshots(c) \/ LoadRecordSession(c)
      BY <1>0, <3>2 DEF SpawnCapture, SpawnSnapshots, LoadRecordSession, Goto, At, Call, Ends
    <3> QED
      BY <1>3, <3>1, <3>2
  <2>3. /\ call'[c].rec \in Recs /\ call'[c].pc \notin Ends
        /\ \/ call'[c].events = NoSteps
           \/ call'[c].events = call[c].events /\ call'[c].rec = call[c].rec
        /\ \/ call'[c].pc = "idle" \/ call'[c].op # "end"
           \/ IsEnd(c) /\ call'[c].rec = call[c].rec
    BY <1>0, <2>2 DEF Idle, Call, IsEnd, At, Ends
  <2> QED
    BY <2>1, <2>3, OrderKept
<1>4. ASSUME NEW c \in Calls, ListRawRecordedEvents(c)
      PROVE  LogsInOrder'
  <2> DEFINE r == call[c].rec
  <2>1. PICK sorted \in SortedForms(log[r].json) :
            call' = [call EXCEPT ![c].events = sorted, ![c].dry = @ /\ sorted = NoSteps,
                                 ![c].pc = IF sorted = NoSteps THEN "parse" ELSE "map"]
    BY <1>4 DEF ListRawRecordedEvents
  <2>2. /\ call[c].pc = "list" /\ UNCHANGED <<log, steps, excused>>
        /\ call'[c].events = sorted /\ call'[c].rec = r /\ call'[c].op = call[c].op
        /\ call'[c].pc = IF sorted = NoSteps THEN "parse" ELSE "map"
        /\ \A d \in Calls : d # c => call'[d] = call[d]
    BY <1>0, <1>4, <2>1 DEF ListRawRecordedEvents, At, Call
  <2>3. ~Disordered(r) => Increasing(sorted)
    BY <1>0, <2>1, SortedIncreasing DEF LogsInOrder, InOrder
  <2>4. sorted = NoSteps => log[r].json = NoSteps
    <3>1. DOMAIN sorted = DOMAIN log[r].json
      BY DEF SortedForms
    <3>2. log[r].json \in Seq(Event)
      BY <1>0 DEF Events
    <3>3. /\ Len(log[r].json) \in Nat
          /\ DOMAIN log[r].json = 1..Len(log[r].json)
      BY <3>2, LenProperties
    <3>4. ASSUME sorted = << >>
          PROVE  Len(log[r].json) = 0
      <4>1. DOMAIN sorted = {}
        BY <3>4
      <4>2. \A n \in Nat : n # 0 => 1 \in 1..n
        OBVIOUS
      <4>3. 1 \notin DOMAIN log[r].json
        BY <3>1, <4>1, Zenon
      <4> HIDE DEF r
      <4> QED
        BY <3>3, <4>2, <4>3
    <3>5. log[r].json # << >> => Len(log[r].json) \in Nat \ {0}
      BY <3>2, EmptySeq
    <3> QED
      BY <3>4, <3>5 DEF NoSteps
  <2>5. \A d \in Calls : HoldsOrder(d)'
    BY <1>0, <2>2, <2>3, <2>4 DEF LogsInOrder, HoldsOrder, Disordered, Overlapped, Increasing
  <2>6. \A d, e \in Calls : OneEnd(d, e)'
    BY <1>0, <2>2 DEF LogsInOrder, OneEnd, IsEnd, At, Overlapped
  <2> QED
    BY <2>2, <2>5, <2>6 DEF LogsInOrder, InOrder, Disordered, Overlapped, Ends
<1>5. ASSUME NEW c \in Calls, ParseRawEvents(c)
      PROVE  LogsInOrder'
  <2>0. PICK r \in Recs : r = call[c].rec
    BY <1>0
  <2>1. PICK again \in ReadAgain(r, log[r].torn \o log[r].json) :
          LET found == log[r].raw \o again
              parsed == IF call[c].dry /\ r \in IosRecs /\ found = NoSteps
                        THEN <<Synthetic>> ELSE found
          IN  /\ call' = [call EXCEPT ![c].events = parsed, ![c].dry = FALSE,
                                      ![c].pc = IF parsed = NoSteps THEN "map" ELSE "append"]
              /\ Excuses(r, IF again = NoSteps THEN {} ELSE {"reread"})
    BY <1>5, <2>0 DEF ParseRawEvents
  <2>2. /\ call[c].pc = "parse" /\ UNCHANGED <<log, steps>>
        /\ call'[c].events \in {<<Synthetic>>, log[r].raw \o again}
        /\ call'[c].rec = r /\ call'[c].op = call[c].op /\ call'[c].pc \in {"map", "append"}
        /\ \A d \in Calls : d # c => call'[d] = call[d]
    BY <1>0, <1>5, <2>0, <2>1 DEF ParseRawEvents, At, Call
  <2>3. /\ \A q \in Recs : excused[q] \subseteq excused'[q]
        /\ ~Disordered(r)' => again = NoSteps
    BY <1>0, <2>1 DEF Excuses, Disordered
  <2>4. Increasing(<<Synthetic>>)
    BY DEF Increasing, Synthetic, Input
  <2>5. Increasing(log[r].raw)
    <3>1. \A i \in DOMAIN log[r].raw : log[r].raw[i] = Input(i)
      BY <1>0 DEF LogsInOrder, InOrder
    <3>2. \A i : Input(i).input = i /\ Input(i).stamp = i
      BY DEF Input
    <3>3. \A i \in DOMAIN log[r].raw : log[r].raw[i].input = i /\ log[r].raw[i].stamp = i
      BY <3>1, <3>2
    <3> QED
      BY <3>3 DEF Increasing
  <2>6. ~Disordered(r)' => Increasing(call'[c].events)
    <3>1. log[r].raw \o << >> = log[r].raw
      BY <1>0, ConcatEmptySeq DEF Events
    <3> QED
      BY <2>2, <2>3, <2>4, <2>5, <3>1 DEF NoSteps
  <2>7. \A d \in Calls : HoldsOrder(d)'
    <3>1. HoldsOrder(c)'
      <4>1. ~Disordered(r)' => ~Disordered(r) /\ HoldsOrder(c)
        BY <1>0, <2>3 DEF LogsInOrder, Disordered, Overlapped
      <4> QED
        BY <2>0, <2>2, <2>6, <4>1 DEF HoldsOrder
    <3>2. ASSUME NEW d \in Calls, d # c
          PROVE  HoldsOrder(d)'
      <4>1. /\ HoldsOrder(d) /\ call'[d] = call[d] /\ log' = log
            /\ Disordered(call[d].rec) => Disordered(call[d].rec)'
        BY <1>0, <2>2, <2>3, <3>2 DEF LogsInOrder, Disordered, Overlapped
      <4> QED
        BY <4>1 DEF HoldsOrder
    <3> QED
      BY <3>1, <3>2
  <2>8. ASSUME NEW d \in Calls, NEW e \in Calls
        PROVE  OneEnd(d, e)'
    <3>1. \A b \in Calls : (IsEnd(b)' => IsEnd(b)) /\ call'[b].rec = call[b].rec
      BY <2>0, <2>2 DEF IsEnd, At
    <3> QED
      BY <1>0, <2>3, <3>1 DEF LogsInOrder, OneEnd, Overlapped
  <2>9. \A q \in Recs : InOrder(q)'
    BY <1>0, <2>2, <2>3 DEF LogsInOrder, InOrder, Disordered, Overlapped, Increasing, Rising
  <2> QED
    BY <2>2, <2>7, <2>8, <2>9 DEF LogsInOrder, Ends
<1>6. ASSUME NEW c \in Calls, PersistRawRecordedEvents(c)
      PROVE  LogsInOrder'
  <2> DEFINE r == call[c].rec
  <2>1. /\ call[c].pc = "append" /\ UNCHANGED <<steps, excused>>
        /\ call'[c].events = call[c].events
        /\ call'[c].rec = r /\ call'[c].op = call[c].op /\ call'[c].pc = "map"
        /\ \A d \in Calls : d # c => call'[d] = call[d]
        /\ log'[r].json = log[r].json \o call[c].events /\ log'[r].raw = log[r].raw
        /\ \A q \in Recs : q # r => log'[q] = log[q]
    BY <1>0, <1>6 DEF PersistRawRecordedEvents, Goto, At, Call
  <2>2. ~Disordered(r) => log'[r].json = call[c].events
    <3>1. ~Disordered(r) => log[r].json = << >>
      BY <2>1 DEF LogsInOrder, HoldsOrder, NoSteps
    <3>2. call[c].events \in Seq(Event)
      BY <1>0 DEF Call, Events
    <3> QED
      BY <2>1, <3>1, <3>2, ConcatEmptySeq
  <2>3. ASSUME NEW q \in Recs
        PROVE  InOrder(q)'
    <3>1. ~Disordered(r) => Increasing(call[c].events)
      BY DEF LogsInOrder, HoldsOrder
    <3>2. InOrder(q) /\ log'[q].raw = log[q].raw /\ Disordered(q)' = Disordered(q)
      BY <2>1 DEF LogsInOrder, Disordered, Overlapped
    <3>3. ~Disordered(q) => Increasing(log'[q].json)
      BY <2>1, <2>2, <3>1, <3>2 DEF InOrder
    <3> QED
      BY <2>1, <3>2, <3>3 DEF InOrder
  <2>4. ASSUME NEW d \in Calls
        PROVE  HoldsOrder(d)'
    <3>1. CASE d = c
      BY <2>1, <3>1 DEF LogsInOrder, HoldsOrder, Disordered, Overlapped, Increasing
    <3>2. CASE d # c
      <4>1. CASE call[d].rec # r
        BY <1>0, <2>1, <3>2, <4>1 DEF LogsInOrder, HoldsOrder, Disordered, Overlapped, Increasing
      <4>2. CASE call[d].rec = r /\ ~Disordered(r)
        <5>1. call[d].pc \notin {"parse", "append"}
          BY <2>1, <3>2, <4>2 DEF LogsInOrder, OneEnd, IsEnd, At, Ends, Disordered
        <5> QED
          BY <2>1, <3>2, <4>2, <5>1 DEF LogsInOrder, HoldsOrder, Disordered, Overlapped, Increasing
      <4>3. CASE call[d].rec = r /\ Disordered(r)
        BY <2>1, <3>2, <4>3 DEF HoldsOrder, Disordered, Overlapped
      <4> QED
        BY <4>1, <4>2, <4>3
    <3> QED
      BY <3>1, <3>2
  <2>5. ASSUME NEW d \in Calls, NEW e \in Calls
        PROVE  OneEnd(d, e)'
    <3>1. \A b \in Calls : (IsEnd(b)' => IsEnd(b)) /\ call'[b].rec = call[b].rec
      BY <2>1 DEF IsEnd, At
    <3> QED
      BY <1>0, <2>1, <3>1 DEF LogsInOrder, OneEnd, Overlapped
  <2> QED
    BY <2>1, <2>3, <2>4, <2>5 DEF LogsInOrder, Ends
<1>7. ASSUME NEW c \in Calls, PersistRecordedSteps(c)
      PROVE  LogsInOrder'
  <2> DEFINE r == call[c].rec
  <2>1. /\ call[c].pc = "map" /\ UNCHANGED <<log, excused>>
        /\ call'[c].events = NoSteps
        /\ call'[c].rec = r /\ call'[c].op = call[c].op /\ call'[c].pc = "reload"
        /\ \A d \in Calls : d # c => call'[d] = call[d]
        /\ \A q \in Recs : q # r => steps'[q] = steps[q]
    BY <1>0, <1>7 DEF PersistRecordedSteps, At, Call
  <2>6. ~Disordered(r) => Rising(steps'[r])
    <3>1. PICK sorted \in SortedForms(call[c].events) :
            steps' = [steps EXCEPT ![r] = InputsOf(sorted)]
      BY <1>7 DEF PersistRecordedSteps
    <3>2. call[c].events \in Events /\ sorted \in Events /\ steps'[r] = InputsOf(sorted)
      BY <1>0, <3>1, SortedFormsType DEF Call
    <3>3. ~Disordered(r) => Increasing(sorted)
      BY <3>2, SortedIncreasing DEF LogsInOrder, HoldsOrder
    <3> QED
      BY <3>2, <3>3, RisingInputs
  <2>2. \A q \in Recs : InOrder(q)'
    BY <1>0, <2>1, <2>6 DEF LogsInOrder, InOrder, HoldsOrder, Disordered, Overlapped
  <2>3. \A d \in Calls : HoldsOrder(d)'
    BY <1>0, <2>1, EmptyIncreasing DEF LogsInOrder, HoldsOrder, Disordered, Overlapped, Increasing
  <2>4. \A d, e \in Calls : OneEnd(d, e)'
    BY <1>0, <2>1 DEF LogsInOrder, OneEnd, IsEnd, At, Overlapped
  <2> QED
    BY <2>1, <2>2, <2>3, <2>4 DEF LogsInOrder, Ends
<1>8. ASSUME NEW r \in Recs, UserInput(r)
      PROVE  LogsInOrder'
  <2>0. PICK lost \in 0..Len(log[r].json) :
          \E torn \in {NoSteps, IF lost = 0 THEN log[r].torn ELSE <<log[r].json[lost]>>} :
            log' = [log EXCEPT ![r] = [raw |-> Append(@.raw, Input(Len(@.raw) + 1)),
                                       torn |-> torn,
                                       json |-> SubSeq(@.json, lost + 1, Len(@.json))]]
    BY <1>8 DEF UserInput
  <2>1. PICK torn \in {NoSteps, IF lost = 0 THEN log[r].torn ELSE <<log[r].json[lost]>>} :
          log' = [log EXCEPT ![r] = [raw |-> Append(@.raw, Input(Len(@.raw) + 1)),
                                     torn |-> torn,
                                     json |-> SubSeq(@.json, lost + 1, Len(@.json))]]
    BY <2>0
  <2>2. /\ UNCHANGED <<steps, call, excused>> /\ \A q \in Recs : q # r => log'[q] = log[q]
        /\ log'[r].raw = Append(log[r].raw, Input(Len(log[r].raw) + 1))
        /\ log'[r].json = SubSeq(log[r].json, lost + 1, Len(log[r].json))
    BY <1>0, <1>8, <2>1 DEF UserInput
  <2>3. \A i \in DOMAIN log'[r].raw : log'[r].raw[i] = Input(i)
    <3>1. /\ log[r].raw \in Seq(Event) /\ Len(log[r].raw) \in Nat
          /\ DOMAIN log[r].raw = 1..Len(log[r].raw)
          /\ \A i \in DOMAIN log[r].raw : log[r].raw[i] = Input(i)
      BY <1>0, LenProperties DEF Events, LogsInOrder, InOrder
    <3> QED
      BY <2>2, <3>1
  <2>4. ~Disordered(r) => Increasing(log'[r].json)
    BY <1>0, <2>2, TailIncreasing DEF LogsInOrder, InOrder
  <2>5. log[r].json = NoSteps => log'[r].json = NoSteps
    BY <2>2 DEF NoSteps
  <2>6. \A q \in Recs : InOrder(q)'
    BY <2>2, <2>3, <2>4 DEF LogsInOrder, InOrder, Disordered, Overlapped
  <2>7. \A d \in Calls : HoldsOrder(d)'
    BY <1>0, <2>2, <2>5 DEF LogsInOrder, HoldsOrder, Disordered, Overlapped, Increasing
  <2> QED
    BY <2>2, <2>6, <2>7 DEF LogsInOrder, OneEnd, IsEnd, At, Overlapped
<1>9. ASSUME \/ \E r \in Recs : CaptureDies(r) \/ DeviceGone(r)
             \/ UNCHANGED vars
      PROVE  LogsInOrder'
  <2>1. UNCHANGED <<log, steps, call, excused>>
    BY <1>9 DEF CaptureDies, DeviceGone, vars
  <2> QED
    BY <2>1 DEF LogsInOrder, InOrder, HoldsOrder, OneEnd, IsEnd, At, Disordered, Overlapped, Increasing
<1> QED
  BY <1>1, <1>2, <1>3, <1>4, <1>5, <1>6, <1>7, <1>8, <1>9 DEF Next, CallStep

-----------------------------------------------------------------------------
(* The theorems.                                                           *)

\* Every reachable state satisfies the inductive invariant: records, shells,
\* logs and calls as recording-runtime.ts leaves them between two steps.
THEOREM RecordingInvariant == Spec => []Inv
<1>1. Init => Inv
  BY ShellInit, LogInit DEF Inv, ShellInv
<1>2. Inv /\ [Next]_vars => Inv'
  <2> SUFFICES ASSUME Inv, [Next]_vars PROVE Inv'
    OBVIOUS
  <2>1. TypeOK /\ ShellInv /\ LogsInOrder
    BY DEF Inv, ShellInv
  <2>2. TypeOK'
    BY <2>1, TypeStep
  <2>3. ShellInv'
    BY <2>1, ShellStep
  <2>4. LogsInOrder'
    BY <2>1, LogStep
  <2> QED
    BY <2>2, <2>3, <2>4 DEF Inv, ShellInv
<1> QED
  BY <1>1, <1>2, PTL DEF Spec

\* Type correctness of records, shells, logs, steps and calls.
THEOREM RecordingTypeOK == Spec => []TypeOK
<1>1. Inv => TypeOK
  BY DEF Inv
<1> QED
  BY <1>1, RecordingInvariant, PTL

\* A shell nobody can stop any more was orphaned by a start that died or threw,
\* or by a dry-run end; no other interleaving of calls loses one.
THEOREM StrayShells == Spec => []StrayShellsExplained
<1>1. Inv => StrayShellsExplained
  BY DEF Inv
<1> QED
  BY <1>1, RecordingInvariant, PTL

\* Unless two ends overlapped or one read again what was left of an overwritten JSON
\* line, the steps file holds every input at most once and in the order the user
\* made them.
THEOREM StepsOrdered == Spec => []StepsOnceInOrder
<1>1. Inv => StepsOnceInOrder
  BY DEF Inv, LogsInOrder, InOrder, Disordered, Overlapped, Rising, StepsOnceInOrder
<1> QED
  BY <1>1, RecordingInvariant, PTL

\* The two writes of a record file: a start's, which finds none, and the last
\* write of an end or a cancel, which clears both pids.
LEMMA RecordWrites ==
  ASSUME Inv, [Next]_vars, NEW r \in Recs, record'[r] # record[r]
  PROVE  \/ record[r] = NoRecord
         \/ /\ record'[r].status \in {"ended", "cancelled"}
            /\ ~record'[r].pid /\ ~record'[r].snapshotPid
<1>0. TypeOK /\ StartAlone
  BY DEF Inv
<1>1. PICK c \in Calls : PersistStartedRecordSession(c) \/ PersistRecordSessionState(c)
  BY DEF Next, CallStep, vars, Start, StartFails, SpawnCapture, SnapshotDirFails,
         SpawnSnapshots, EndRecordSession, CancelRecordSession, ListRawRecordedEvents,
         ParseRawEvents, PersistRawRecordedEvents, PersistRecordedSteps, LoadRecordSession,
         UserInput, CaptureDies, DeviceGone, Crash
<1>2. CASE PersistStartedRecordSession(c)
  <2>1. call[c].pc = "persist" /\ record[call[c].rec] = NoRecord
    BY <1>0, <1>2 DEF PersistStartedRecordSession, At, StartAlone, Starting
  <2>2. r = call[c].rec
    BY <1>0, <1>2 DEF PersistStartedRecordSession, TypeOK
  <2> QED
    BY <2>1, <2>2
<1>3. CASE PersistRecordSessionState(c)
  <2>1. r = call[c].rec /\ record'[r] = Patched(call[c])
    BY <1>0, <1>3 DEF PersistRecordSessionState, TypeOK
  <2>2. call[c].seen \in Record
    BY <1>0 DEF TypeOK, Call
  <2> QED
    BY <2>1, <2>2 DEF Patched, Record
<1> QED
  BY <1>1, <1>2, <1>3

\* An ended or cancelled recording never runs or names a process again, whatever
\* image of the record a slower call wrote back.
THEOREM ClosedForGood == Spec => NeverRunsAgain
<1>1. ASSUME Inv, [Next]_vars
      PROVE  \A r \in Recs : record[r].status \in {"ended", "cancelled"} =>
                 record'[r].status \in {"ended", "cancelled"} /\ ~record'[r].pid /\ ~record'[r].snapshotPid
  <2> SUFFICES ASSUME NEW r \in Recs, record[r].status \in {"ended", "cancelled"}
               PROVE  /\ record'[r].status \in {"ended", "cancelled"}
                      /\ ~record'[r].pid /\ ~record'[r].snapshotPid
    OBVIOUS
  <2>1. CASE record'[r] = record[r]
    BY <1>1, <2>1 DEF Inv, RecordsNameShells
  <2>2. CASE record'[r] # record[r]
    BY <1>1, <2>2, RecordWrites DEF NoRecord
  <2> QED
    BY <2>1, <2>2
<1> QED
  BY <1>1, RecordingInvariant, PTL DEF Spec, NeverRunsAgain
=============================================================================
