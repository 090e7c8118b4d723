----------------------- MODULE SessionOrchestration -----------------------
(***************************************************************************)
(* Tool calls on sessions and devices: start_session                       *)
(* (mcp-server/src/tools/start-session.ts), end_session (end-session.ts)   *)
(* and every session-bound tool, which index.ts wraps in                   *)
(* withSessionExecution and core/src/session-scheduler.ts runs in          *)
(* runExclusive.  Composes LeaseCoordinator and SessionRecords: a call is  *)
(* at one point of its handler (pc), of the coordinator (lpc) and of the   *)
(* record store (rpc), and moves on in the handler when the component it   *)
(* called has returned.                                                    *)
(***************************************************************************)
EXTENDS Naturals, SessionRecords

CONSTANTS
  Hosts, HostOf, LockAttempts, StaleAfter, MaxClock, LegacyLeases, Free, Orphan,
  SessionLockAttempts,  \* mkdir attempts before a session lock times out (300)
  Tools,                \* bound: the handlers an instance calls
  Crashing,             \* bound: the processes that may die
  WriteMayFail          \* bound: may the write of a new record fail?

ASSUME ToolsAssumption == Tools \subseteq {"start", "end", "tool"}
ASSUME CrashingAssumption == Crashing \subseteq Hosts
ASSUME SessionLockAssumption ==
  SessionLockAttempts \in Nat \ {0} /\ WriteMayFail \in BOOLEAN

VARIABLES
  lease, legacy, leaseLock, clock, lpc, op, tries, buf, scan,  \* LeaseCoordinator
  sessionLock,  \* the scheduler's lock directory of a session
  pc,           \* where a call is in its handler
  on,           \* the session and device it works on
  attempts      \* mkdir attempts on the session lock that failed so far

L == INSTANCE LeaseCoordinator WITH sessionOpen <- [s \in Sessions |-> Open(s)]

\* What LeaseCoordinator assumes of its constants.
ASSUME CoordinatorAssumption ==
  /\ HostOf \in [Calls -> Hosts]
  /\ LockAttempts \in Nat \ {0} /\ StaleAfter \in Nat /\ MaxClock \in Nat
  /\ LegacyLeases \subseteq L!Lease /\ None \notin L!Lease
  /\ Free \notin Calls /\ Orphan \notin Calls /\ Free # Orphan

leaseVars == <<lease, legacy, leaseLock, clock, lpc, op, tries, buf, scan>>
callVars == <<sessionLock, pc, on, attempts>>
vars == <<recordVars, leaseVars, callVars>>

Points ==
  {"idle", "startLease", "startPersist", "startUndo",
   "endPersist", "endRelease", "endAppend",
   "recover", "recovered", "resolve", "bare", "bareEvidence",
   "queue", "lock", "dequeue", "busy", "refresh", "run", "write", "finally", "unlock"}

\* Between the mkdir and the rm of the session lock.
Exclusive(c) ==
  pc[c] \in {"dequeue", "busy", "refresh", "run", "write", "finally", "unlock"}

Target == [sid: Sessions \cup {None}, dev: Devices \cup {None}]
NoTarget == [sid |-> None, dev |-> None]

TypeOK ==
  /\ RecordTypeOK
  /\ L!TypeOK
  /\ sessionLock \in [Sessions -> Calls \cup {Free, Orphan}]
  /\ pc \in [Calls -> Points]
  /\ on \in [Calls -> Target]
  /\ attempts \in [Calls -> Nat]

Init ==
  /\ RecordInit
  /\ L!LeaseInit
  /\ sessionLock = [s \in Sessions |-> Free]
  /\ pc = [c \in Calls |-> "idle"]
  /\ on = [c \in Calls |-> NoTarget]
  /\ attempts = [c \in Calls |-> 0]

-----------------------------------------------------------------------------

Goto(c, p) == pc' = [pc EXCEPT ![c] = p]
From(c, p) == pc[c] = p
Aim(c, s, d) == on' = [on EXCEPT ![c] = [sid |-> s, dev |-> d]]

\* The handler returns or throws: the call is over.
Over(c) ==
  /\ Goto(c, "idle")
  /\ Aim(c, None, None)
  /\ L!Leave(c)
  /\ LeaveStore(c)

\* The coordinator function the handler awaits has returned r.
LeaseReturned(c, R) == lpc[c] \in R
StoreReturned(c) == rpc[c] = "done"

-----------------------------------------------------------------------------
(* start_session.  With an open record it returns at once and changes      *)
(* nothing, whether the device matches or not.                             *)

StartSession(c, s, d) ==
  /\ "start" \in Tools
  /\ From(c, "idle") /\ Goto(c, "startLease")
  /\ ~Open(s)
  /\ Aim(c, s, d)
  /\ L!Enter(c, "acquire", s, d)
  /\ UNCHANGED <<recordVars, sessionLock, attempts>>

StartLeased(c) ==
  /\ From(c, "startLease") /\ LeaseReturned(c, {"granted"})
  /\ Goto(c, "startPersist")
  /\ L!Leave(c)
  /\ UNCHANGED <<recordVars, sessionLock, on, attempts>>

\* Device busy, or the lease lock timed out.
StartRefused(c) ==
  /\ From(c, "startLease") /\ LeaseReturned(c, {"refused", "threw"})
  /\ Over(c)
  /\ UNCHANGED <<sessionLock, attempts>>

\* persistStartedSession: only now is there a record that protects the lease.
StartPersist(c) ==
  /\ From(c, "startPersist")
  /\ PersistStarted(on[c].sid, on[c].dev)
  /\ Goto(c, "idle") /\ Aim(c, None, None)
  /\ UNCHANGED <<leaseVars, sessionLock, attempts>>

\* Slip: start_session unlinks the lease file itself instead of releasing it.
StartPersistFailsUnlinks(c) ==
  /\ WriteMayFail
  /\ From(c, "startPersist") /\ Goto(c, "idle")
  /\ lease' = [lease EXCEPT ![on[c].dev] = None]
  /\ Aim(c, None, None)
  /\ UNCHANGED <<recordVars, legacy, leaseLock, clock, lpc, op, tries, buf, scan,
                 sessionLock, attempts>>

\* The write fails: give the lease back, then rethrow.
StartPersistFails(c) ==
  /\ WriteMayFail
  /\ From(c, "startPersist") /\ Goto(c, "startUndo")
  /\ L!EnterRelease(c, on[c].sid, on[c].dev)
  /\ UNCHANGED <<recordVars, sessionLock, on, attempts>>

StartUndone(c) ==
  /\ From(c, "startUndo") /\ LeaseReturned(c, L!Returned)
  /\ Over(c)
  /\ UNCHANGED <<sessionLock, attempts>>

-----------------------------------------------------------------------------
(* end_session, which no lock serializes with anything.                    *)

\* It keeps the device of the record it finds, then calls persistEndedSession.
EndSession(c, s) ==
  /\ "end" \in Tools
  /\ From(c, "idle") /\ Goto(c, "endPersist")
  /\ Aim(c, s, IF record[s] = None THEN None ELSE record[s].device)
  /\ EnterStore(c, s, "session_ended")
  /\ UNCHANGED <<leaseVars, sessionLock, attempts>>

EndWithoutRecord(c) ==
  /\ From(c, "endPersist") /\ StoreReturned(c)
  /\ on[c].dev = None
  /\ Over(c)
  /\ UNCHANGED <<sessionLock, attempts>>

EndRelease(c) ==
  /\ From(c, "endPersist") /\ StoreReturned(c)
  /\ on[c].dev # None
  /\ Goto(c, "endRelease")
  /\ L!EnterRelease(c, on[c].sid, on[c].dev)
  /\ LeaveStore(c)
  /\ UNCHANGED <<sessionLock, on, attempts>>

\* Released: say so in the timeline of the session that was just closed.
EndReleased(c) ==
  /\ From(c, "endRelease") /\ LeaseReturned(c, {"granted"})
  /\ Goto(c, "endAppend")
  /\ EnterStore(c, on[c].sid, "lease_released")
  /\ L!Leave(c)
  /\ UNCHANGED <<sessionLock, on, attempts>>

EndNotReleased(c) ==
  /\ From(c, "endRelease") /\ LeaseReturned(c, {"refused"})
  /\ Over(c)
  /\ UNCHANGED <<sessionLock, attempts>>

EndAppended(c) ==
  /\ From(c, "endAppend") /\ StoreReturned(c)
  /\ Over(c)
  /\ UNCHANGED <<sessionLock, attempts>>

-----------------------------------------------------------------------------
(* withSessionExecution: recover stale leases, note each in the timeline   *)
(* of its owner, then look the session up.                                 *)

CallTool(c, s) ==
  /\ "tool" \in Tools
  /\ From(c, "idle") /\ Goto(c, "recover")
  /\ Aim(c, s, None)
  /\ L!EnterRecover(c)
  /\ UNCHANGED <<recordVars, sessionLock, attempts>>

\* No sessionId, and no single active session to pick one from: the handler
\* runs with nothing recovered, looked up or locked.
CallWithoutSession(c, d) ==
  /\ "tool" \in Tools
  /\ From(c, "idle") /\ Goto(c, "bare")
  /\ Aim(c, None, d)
  /\ UNCHANGED <<recordVars, leaseVars, sessionLock, attempts>>

RecoverTimedOut(c) ==
  /\ From(c, "recover") /\ LeaseReturned(c, {"threw"})
  /\ Over(c)
  /\ UNCHANGED <<sessionLock, attempts>>

\* One append per recovered lease, the lookup when all are noted.
NoteRecovered(c) ==
  /\ \/ From(c, "recover") /\ LeaseReturned(c, {"granted"})
     \/ From(c, "recovered") /\ StoreReturned(c)
  /\ \E s \in Sessions :
       L!NoteRecovered(c, s) /\ EnterStore(c, s, "lease_recovered_stale")
  /\ Goto(c, "recovered")
  /\ UNCHANGED <<sessionLock, on, attempts>>

AllNoted(c) ==
  /\ \/ From(c, "recover") /\ LeaseReturned(c, {"granted"})
     \/ From(c, "recovered") /\ StoreReturned(c)
  /\ scan[c].recovered = {}
  /\ Goto(c, "resolve")
  /\ L!Leave(c) /\ LeaveStore(c)
  /\ UNCHANGED <<sessionLock, on, attempts>>

\* No open record and the tool insists on one, or an open record whose platform,
\* device, app or profile is not the one the input names.
ResolveFails(c) ==
  /\ From(c, "resolve")
  /\ Over(c)
  /\ UNCHANGED <<sessionLock, attempts>>

\* No open record, and the tool does not insist: the handler runs all the
\* same, with neither lock nor lease, on the device its own input names.
ResolveBare(c, d) ==
  /\ From(c, "resolve") /\ ~Open(on[c].sid)
  /\ Goto(c, "bare")
  /\ Aim(c, on[c].sid, d)
  /\ UNCHANGED <<recordVars, leaseVars, sessionLock, attempts>>

\* An open record: runExclusive on its device, starting with the queue event.
ResolveOpen(c) ==
  /\ From(c, "resolve") /\ Open(on[c].sid)
  /\ Goto(c, "queue")
  /\ Aim(c, on[c].sid, record[on[c].sid].device)
  /\ EnterStore(c, on[c].sid, "queue_wait_started")
  /\ UNCHANGED <<leaseVars, sessionLock, attempts>>

\* The handler ends; its result may leave evidence in the session record.
BareDone(c) ==
  /\ From(c, "bare")
  /\ \/ Over(c)
     \/ /\ on[c].sid # None
        /\ Goto(c, "bareEvidence")
        /\ EnterStore(c, on[c].sid, "evidence")
        /\ UNCHANGED <<leaseVars, on>>
  /\ UNCHANGED <<sessionLock, attempts>>

BareEvidence(c) ==
  /\ From(c, "bareEvidence") /\ StoreReturned(c)
  /\ Over(c)
  /\ UNCHANGED <<sessionLock, attempts>>

-----------------------------------------------------------------------------
(* runExclusive. *)

Queued(c) ==
  /\ From(c, "queue") /\ StoreReturned(c)
  /\ Goto(c, "lock")
  /\ LeaveStore(c)
  /\ UNCHANGED <<leaseVars, sessionLock, on, attempts>>

\* Slip: mkdir(..., { recursive: true }).
TakeSessionLockRecursive(c) ==
  /\ From(c, "lock")
  /\ Goto(c, "dequeue")
  /\ sessionLock' = [sessionLock EXCEPT ![on[c].sid] = c]
  /\ attempts' = [attempts EXCEPT ![c] = 0]
  /\ EnterStore(c, on[c].sid, "queue_wait_ended")
  /\ UNCHANGED <<leaseVars, on>>

\* mkdir made the session's lock directory.
TakeSessionLock(c) ==
  /\ From(c, "lock") /\ sessionLock[on[c].sid] = Free
  /\ Goto(c, "dequeue")
  /\ sessionLock' = [sessionLock EXCEPT ![on[c].sid] = c]
  /\ attempts' = [attempts EXCEPT ![c] = 0]
  /\ EnterStore(c, on[c].sid, "queue_wait_ended")
  /\ UNCHANGED <<leaseVars, on>>

\* Slip: wait for the lock as long as it takes.
RetrySessionLockForever(c) ==
  /\ From(c, "lock") /\ sessionLock[on[c].sid] # Free
  /\ UNCHANGED <<recordVars, leaseVars, sessionLock, pc, on, attempts>>

RetrySessionLock(c) ==
  /\ From(c, "lock") /\ sessionLock[on[c].sid] # Free
  /\ attempts[c] + 1 < SessionLockAttempts
  /\ attempts' = [attempts EXCEPT ![c] = @ + 1]
  /\ UNCHANGED <<recordVars, leaseVars, sessionLock, pc, on>>

\* Slip: the timeout runs the release that belongs to the holder.
GiveUpSessionLockReleases(c) ==
  /\ From(c, "lock") /\ sessionLock[on[c].sid] # Free
  /\ attempts[c] + 1 >= SessionLockAttempts
  /\ attempts' = [attempts EXCEPT ![c] = 0]
  /\ Over(c)
  /\ sessionLock' = [sessionLock EXCEPT ![on[c].sid] = Free]

\* "Timed out acquiring session scheduler lock".
GiveUpSessionLock(c) ==
  /\ From(c, "lock") /\ sessionLock[on[c].sid] # Free
  /\ attempts[c] + 1 >= SessionLockAttempts
  /\ attempts' = [attempts EXCEPT ![c] = 0]
  /\ Over(c)
  /\ UNCHANGED sessionLock

MarkBusy(c) ==
  /\ From(c, "dequeue") /\ StoreReturned(c)
  /\ Goto(c, "busy")
  /\ L!Enter(c, "markBusy", on[c].sid, on[c].dev)
  /\ LeaveStore(c)
  /\ UNCHANGED <<sessionLock, on, attempts>>

\* An exception outside the try, or in the finally clause before the release:
\* the call is over and its lock directory stays, nobody's from now on.
LockLeaks(c) ==
  /\ pc[c] \in {"busy", "finally"} /\ LeaseReturned(c, {"threw"})
  /\ sessionLock' = [sessionLock EXCEPT ![on[c].sid] = Orphan]
  /\ Over(c)
  /\ UNCHANGED attempts

\* Whether the lease was there to be marked is not asked.
RefreshHeartbeat(c) ==
  /\ From(c, "busy") /\ LeaseReturned(c, {"granted", "refused"})
  /\ Goto(c, "refresh")
  /\ L!Enter(c, "refreshHeartbeat", on[c].sid, on[c].dev)
  /\ UNCHANGED <<recordVars, sessionLock, on, attempts>>

\* The task starts, whether or not a heartbeat could be written.
RunTask(c) ==
  /\ From(c, "refresh") /\ LeaseReturned(c, {"granted", "refused"})
  /\ Goto(c, "run")
  /\ L!Leave(c)
  /\ UNCHANGED <<recordVars, sessionLock, on, attempts>>

\* A running task writes the session record: the state after an action, an
\* interruption, the evidence of the result.
TaskWrites(c) ==
  /\ From(c, "run")
  /\ Goto(c, "write")
  /\ EnterStore(c, on[c].sid, "evidence")
  /\ UNCHANGED <<leaseVars, sessionLock, on, attempts>>

TaskGoesOn(c) ==
  /\ From(c, "write") /\ StoreReturned(c)
  /\ Goto(c, "run")
  /\ LeaveStore(c)
  /\ UNCHANGED <<leaseVars, sessionLock, on, attempts>>

\* Slip: the finally clause refreshes the heartbeat instead of marking idle.
MarkIdleStaysBusy(c) ==
  /\ \/ From(c, "run")
     \/ From(c, "refresh") /\ LeaseReturned(c, {"threw"})
  /\ Goto(c, "finally")
  /\ L!Enter(c, "refreshHeartbeat", on[c].sid, on[c].dev)
  /\ UNCHANGED <<recordVars, sessionLock, on, attempts>>

\* The finally clause: the task is over, with a result or an exception, or
\* refreshHeartbeat threw.
MarkIdle(c) ==
  /\ \/ From(c, "run")
     \/ From(c, "refresh") /\ LeaseReturned(c, {"threw"})
  /\ Goto(c, "finally")
  /\ L!Enter(c, "markIdle", on[c].sid, on[c].dev)
  /\ UNCHANGED <<recordVars, sessionLock, on, attempts>>

MarkedIdle(c) ==
  /\ From(c, "finally") /\ LeaseReturned(c, {"granted", "refused"})
  /\ Goto(c, "unlock")
  /\ L!Leave(c)
  /\ UNCHANGED <<recordVars, sessionLock, on, attempts>>

ReleaseSessionLock(c) ==
  /\ From(c, "unlock")
  /\ sessionLock' = [sessionLock EXCEPT ![on[c].sid] = Free]
  /\ Over(c)
  /\ UNCHANGED attempts

-----------------------------------------------------------------------------

HandlerStep(c) ==
  \/ StartLeased(c) \/ StartRefused(c) \/ StartPersist(c) \/ StartPersistFails(c)
  \/ StartUndone(c)
  \/ EndWithoutRecord(c) \/ EndRelease(c) \/ EndReleased(c) \/ EndNotReleased(c)
  \/ EndAppended(c)
  \/ RecoverTimedOut(c) \/ NoteRecovered(c) \/ AllNoted(c)
  \/ ResolveFails(c) \/ ResolveOpen(c) \/ (\E d \in Devices : ResolveBare(c, d))
  \/ BareDone(c) \/ BareEvidence(c)
  \/ Queued(c) \/ TakeSessionLock(c) \/ RetrySessionLock(c) \/ GiveUpSessionLock(c)
  \/ MarkBusy(c) \/ LockLeaks(c) \/ RefreshHeartbeat(c) \/ RunTask(c)
  \/ TaskWrites(c) \/ TaskGoesOn(c) \/ MarkIdle(c) \/ MarkedIdle(c) \/ ReleaseSessionLock(c)

\* One step of a call that was made, in whichever component it is.
CallStep(c) ==
  \/ HandlerStep(c)
  \/ L!LeaseStep(c) /\ UNCHANGED <<recordVars, callVars>>
  \/ RecordStep(c) /\ UNCHANGED <<leaseVars, callVars>>

Call(c) ==
  \/ \E s \in Sessions, d \in Devices : StartSession(c, s, d)
  \/ \E s \in Sessions : EndSession(c, s) \/ CallTool(c, s)
  \/ \E d \in Devices : CallWithoutSession(c, d)

Tick == L!Tick /\ UNCHANGED <<recordVars, callVars>>

\* A process dies: its calls are gone, files and directories stay.
Crash(h) ==
  LET gone == {c \in Calls : HostOf[c] = h}
  IN  /\ L!CrashLease(h)
      /\ CrashRecords(gone)
      /\ pc' = [c \in Calls |-> IF c \in gone THEN "idle" ELSE pc[c]]
      /\ on' = [c \in Calls |-> IF c \in gone THEN NoTarget ELSE on[c]]
      /\ attempts' = [c \in Calls |-> IF c \in gone THEN 0 ELSE attempts[c]]
      /\ sessionLock' = [s \in Sessions |->
                           IF sessionLock[s] \in gone THEN Orphan ELSE sessionLock[s]]

Next ==
  \/ \E c \in Calls : Call(c) \/ CallStep(c)
  \/ Tick
  \/ \E h \in Crashing : Crash(h)

Spec == Init /\ [][Next]_vars

\* Every call that was made keeps running, every file operation ends, and so does
\* a task, however often it writes the record; calls are made, time passes and
\* processes die as they like.
FairSpec == Spec /\ \A c \in Calls : WF_vars(CallStep(c)) /\ SF_vars(MarkIdle(c))

-----------------------------------------------------------------------------
(* Properties. *)

\* The session lock names exactly the call that is between mkdir and rm in
\* runExclusive: tasks of one session are serialized, whatever fails or dies.
SessionLockHeldByHolder ==
  \A s \in Sessions, c \in Calls : sessionLock[s] = c <=> Exclusive(c) /\ on[c].sid = s

SessionLock == INSTANCE ExclusiveLock WITH
                 Users <- Calls, Keys <- Sessions, Nowhere <- None,
                 inside <- [c \in Calls |-> IF Exclusive(c) THEN on[c].sid ELSE None],
                 lost <- {s \in Sessions : sessionLock[s] = Orphan}

\* The scheduler implements the abstract lock: entering only what nobody is in,
\* and losing a section for ever when a call ends without its rm.
ImplementsSessionLock == SessionLock!Spec

\* Whatever a call does in its handler, seen from the coordinator it is one of
\* the coordinator's own steps: the composition keeps every lease invariant.
ImplementsCoordinator == L!Spec

\* A lease marked busy belongs to a session whose lock directory exists: the
\* finally clause marks it idle before the rm, and where it cannot, the rm is
\* not reached either.  No schedule leaves a busy lease to an unlocked session.
BusyOnlyWhileLocked ==
  \A d \in Devices : lease[d] # None /\ lease[d].state = "busy" =>
    sessionLock[lease[d].owner] # Free

\* A record is closed exactly when session_ended is in its timeline: the lost
\* updates of unsynchronized writers never tear the two apart.
ClosedIffEnded ==
  \A s \in Sessions : record[s] # None =>
    (record[s].closed <=> "session_ended" \in record[s].timeline)

\* Every call that is made ends, with a result or an exception, unless its
\* process dies; locks left behind by others do not keep it for ever.
EveryCallEnds == \A c \in Calls : pc[c] # "idle" ~> pc[c] = "idle"

-----------------------------------------------------------------------------
(* What the repository's documents say and the code does not do. *)

\* README: lease and scheduler prevent concurrent execution on one target.
NoConcurrentExecution ==
  \A c1, c2 \in Calls :
    pc[c1] = "run" /\ pc[c2] = "run" /\ on[c1].dev = on[c2].dev => on[c1].sid = on[c2].sid

\* A call that ends in a live process gives its session lock back, also when
\* it ends with an exception.
LiveCallsUnlock ==
  [][\A s \in Sessions, c \in Calls :
       sessionLock[s] = c /\ HostOf[c] \notin Crashing => sessionLock'[s] \in {c, Free}]_vars
=============================================================================
