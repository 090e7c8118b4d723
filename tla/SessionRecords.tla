-------------------------- MODULE SessionRecords --------------------------
(***************************************************************************)
(* Session records: core/src/session-record-store.ts.                      *)
(*                                                                         *)
(* A record is a JSON file per session.  Every writer but the first loads  *)
(* the file, builds the next record from what it loaded and writes the     *)
(* whole file back; nothing holds a lock between the two, so a load and    *)
(* its write are two steps.  writeJsonFile renames a finished temporary    *)
(* file, which makes the write itself one step.                            *)
(*                                                                         *)
(* A timeline is the set of kinds of its events; TrackedEvents names the   *)
(* kinds an instance keeps apart, the others are not recorded.             *)
(***************************************************************************)
CONSTANTS
  Calls, Sessions, Devices,
  TrackedEvents,  \* bound: the kinds of timeline events an instance records
  None            \* no record, no session, no device

Events == {"session_started", "session_ended", "lease_released", "lease_recovered_stale",
           "queue_wait_started", "queue_wait_ended", "evidence"}

ASSUME EventAssumption == TrackedEvents \subseteq Events
ASSUME SessionNoneAssumption ==
  None \notin Sessions /\ None \notin Devices /\ None \notin Events

VARIABLES
  record,  \* the record file of a session
  rpc,     \* where a call is inside the store
  rop,     \* the writer it runs: its sessionId and the event it appends
  rbuf     \* the record it loaded

recordVars == <<record, rpc, rop, rbuf>>

Record == [closed: BOOLEAN, device: Devices, timeline: SUBSET Events]
RecordPoints == {"idle", "load", "write", "done"}
RecordOp == [sid: Sessions \cup {None}, event: Events \cup {None}]
NoRecordOp == [sid |-> None, event |-> None]

RecordTypeOK ==
  /\ record \in [Sessions -> Record \cup {None}]
  /\ rpc \in [Calls -> RecordPoints]
  /\ rop \in [Calls -> RecordOp]
  /\ rbuf \in [Calls -> Record \cup {None}]

RecordInit ==
  /\ record = [s \in Sessions |-> None]
  /\ rpc = [c \in Calls |-> "idle"]
  /\ rop = [c \in Calls |-> NoRecordOp]
  /\ rbuf = [c \in Calls |-> None]

Open(s) == record[s] # None /\ ~record[s].closed

With(r, e) == [r EXCEPT !.timeline = @ \cup ({e} \cap TrackedEvents)]

\* Slip: the new record has no closed flag.
PersistStartedUnflagged(s, d) ==
  /\ record' = [record EXCEPT ![s] =
                  With([closed |-> None, device |-> d, timeline |-> {}], "session_started")]
  /\ UNCHANGED <<rpc, rop, rbuf>>

\* persistStartedSession: a fresh record over whatever was there.
PersistStarted(s, d) ==
  /\ record' = [record EXCEPT ![s] =
                  With([closed |-> FALSE, device |-> d, timeline |-> {}], "session_started")]
  /\ UNCHANGED <<rpc, rop, rbuf>>

\* A call enters persistEndedSession, or one of the writers that append an
\* event to the timeline: appendSessionTimelineEvent, persistSessionState.
EnterStore(c, s, e) ==
  /\ rpc[c] \in {"idle", "done"}
  /\ rpc' = [rpc EXCEPT ![c] = "load"]
  /\ rop' = [rop EXCEPT ![c] = [sid |-> s, event |-> e]]
  /\ UNCHANGED <<record, rbuf>>

\* loadSessionRecord; with no record nothing is written, nor is a record that
\* is closed already closed again.
LoadRecord(c) ==
  LET r == record[rop[c].sid]
      skip == r = None \/ (rop[c].event = "session_ended" /\ r.closed)
  IN  /\ rpc[c] = "load"
      /\ rpc' = [rpc EXCEPT ![c] = IF skip THEN "done" ELSE "write"]
      /\ rbuf' = [rbuf EXCEPT ![c] = IF skip THEN None ELSE r]
      /\ UNCHANGED <<record, rop>>

\* Slip: a writer re-reads the closed flag only, to keep a closed session closed.
WriteRecordKeepsFlag(c) ==
  LET next == With(rbuf[c], rop[c].event)
      now == record[rop[c].sid]
  IN  /\ rpc[c] = "write"
      /\ rpc' = [rpc EXCEPT ![c] = "done"]
      /\ record' = [record EXCEPT ![rop[c].sid] =
                      [next EXCEPT !.closed = rop[c].event = "session_ended"
                                              \/ (now # None /\ now.closed)]]
      /\ rbuf' = [rbuf EXCEPT ![c] = None]
      /\ UNCHANGED rop

\* writeSessionRecord: what was loaded, plus the event; ending also closes.
WriteRecord(c) ==
  LET next == With(rbuf[c], rop[c].event)
  IN  /\ rpc[c] = "write"
      /\ rpc' = [rpc EXCEPT ![c] = "done"]
      /\ record' = [record EXCEPT ![rop[c].sid] =
                      IF rop[c].event = "session_ended"
                      THEN [next EXCEPT !.closed = TRUE] ELSE next]
      /\ rbuf' = [rbuf EXCEPT ![c] = None]
      /\ UNCHANGED rop

\* The caller is done with the store.
LeaveStore(c) ==
  /\ rpc[c] \in {"idle", "done"}
  /\ rpc' = [rpc EXCEPT ![c] = "idle"]
  /\ rop' = [rop EXCEPT ![c] = NoRecordOp]
  /\ UNCHANGED <<record, rbuf>>

\* The calls in C die with their process.
CrashRecords(C) ==
  /\ rpc' = [c \in Calls |-> IF c \in C THEN "idle" ELSE rpc[c]]
  /\ rop' = [c \in Calls |-> IF c \in C THEN NoRecordOp ELSE rop[c]]
  /\ rbuf' = [c \in Calls |-> IF c \in C THEN None ELSE rbuf[c]]
  /\ UNCHANGED record

RecordStep(c) == LoadRecord(c) \/ WriteRecord(c)
=============================================================================
