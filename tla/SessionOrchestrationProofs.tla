--------------------- MODULE SessionOrchestrationProofs ---------------------
(***************************************************************************)
(* Proofs about SessionOrchestration, for any calls, processes, sessions   *)
(* and devices, any of the processes crashing.                             *)
(*                                                                         *)
(* First an invariant of the handlers alone (Inv): what each call works on *)
(* and what it has loaded, and that the session lock names its holder.     *)
(* From it, every step is seen to be a step of LeaseCoordinator or none of *)
(* its business, which brings in what LeaseCoordinatorProofs proves.       *)
(* With both, BusyInv follows the busy mark of a lease through the calls.  *)
(***************************************************************************)
EXTENDS SessionOrchestration, TLAPS

LP == INSTANCE LeaseCoordinatorProofs WITH sessionOpen <- [s \in Sessions |-> Open(s)]

\* The handlers' own variables, and the record store's.
HandlerType ==
  /\ RecordTypeOK
  /\ sessionLock \in [Sessions -> Calls \cup {Free, Orphan}]
  /\ pc \in [Calls -> Points]
  /\ on \in [Calls -> Target]
  /\ attempts \in [Calls -> Nat]

\* What a call works on at each point of its handler.
AimedBy(c) ==
  /\ pc[c] \notin {"idle", "bare"} => on[c].sid \in Sessions
  /\ pc[c] \in {"startLease", "startPersist", "startUndo", "endRelease", "endAppend",
                "queue", "lock"} \/ Exclusive(c) => on[c].dev \in Devices

\* What a call of the record store writes to, and what it loaded.
StoringBy(c) ==
  /\ rpc[c] \in {"load", "write"} => rop[c].sid \in Sessions /\ rop[c].event \in Events
  /\ rpc[c] = "write" => rbuf[c] \in Record

Aimed == \A c \in Calls : AimedBy(c)
Storing == \A c \in Calls : StoringBy(c)

Inv == HandlerType /\ Aimed /\ Storing /\ SessionLockHeldByHolder

\* Which coordinator function a call is in, while it is in one.
CallingBy(c) ==
  LET own == op[c].sid = on[c].sid /\ op[c].dev = on[c].dev
  IN  /\ op[c].kind = "markBusy" => pc[c] = "busy" /\ own
      /\ op[c].kind = "refreshHeartbeat" => pc[c] = "refresh" /\ own
      /\ op[c].kind = "markIdle" => pc[c] = "finally" /\ own
      /\ pc[c] = "refresh" => op[c].kind = "refreshHeartbeat"
      /\ pc[c] = "finally" => op[c].kind = "markIdle"

\* Between markBusy's write and markIdle's.
MayBeBusy(c) ==
  \/ pc[c] \in {"busy", "refresh", "run", "write"}
  \/ pc[c] = "finally" /\ lpc[c] \in {"mkdir", "load", "persist", "threw"}

Calling == \A c \in Calls : CallingBy(c)

BusyInv ==
  \A d \in Devices : lease[d] # None /\ lease[d].state = "busy" =>
    \/ sessionLock[lease[d].owner] = Orphan
    \/ \E c \in Calls : /\ sessionLock[lease[d].owner] = c
                        /\ on[c].dev = d
                        /\ MayBeBusy(c)

\* What is written back is as consistent as what is there.
ClosedInv ==
  /\ ClosedIffEnded
  /\ \A c \in Calls : rpc[c] = "write" =>
       (rbuf[c].closed <=> "session_ended" \in rbuf[c].timeline)

AllInv == Inv /\ Calling /\ BusyInv /\ ClosedInv

USE EventAssumption, SessionNoneAssumption, CrashingAssumption, SessionLockAssumption,
    CoordinatorAssumption

-----------------------------------------------------------------------------
(* The record store's operations keep its types. *)

LEMMA StoreConstants ==
  /\ NoRecordOp \in RecordOp
  /\ NoTarget \in Target
  /\ \A s \in Sessions, e \in Events : [sid |-> s, event |-> e] \in RecordOp
  /\ \A s \in Sessions \cup {None}, d \in Devices \cup {None} : [sid |-> s, dev |-> d] \in Target
BY DEF NoRecordOp, RecordOp, NoTarget, Target

\* Appending an event leaves a record a record.
LEMMA WithType ==
  ASSUME NEW r \in Record, NEW e
  PROVE  /\ With(r, e) \in Record
         /\ [With(r, e) EXCEPT !.closed = TRUE] \in Record
         /\ With(r, e).device = r.device /\ With(r, e).closed = r.closed
         /\ With(r, e).timeline = r.timeline \cup ({e} \cap TrackedEvents)
BY DEF With, Record

LEMMA PersistStartedType ==
  ASSUME RecordTypeOK, NEW s \in Sessions, NEW d \in Devices, PersistStarted(s, d)
  PROVE  RecordTypeOK'
<1> DEFINE fresh == [closed |-> FALSE, device |-> d, timeline |-> {}]
<1>1. fresh \in Record
  BY DEF Record
<1>2. With(fresh, "session_started") \in Record
  BY <1>1, WithType
<1> QED
  BY <1>2 DEF PersistStarted, RecordTypeOK

LEMMA StoreCallType ==
  ASSUME RecordTypeOK, NEW c \in Calls,
         \/ \E s \in Sessions, e \in Events : EnterStore(c, s, e)
         \/ LeaveStore(c)
  PROVE  /\ RecordTypeOK' /\ UNCHANGED record
         /\ \A b \in Calls \ {c} : rpc'[b] = rpc[b] /\ rop'[b] = rop[b] /\ rbuf'[b] = rbuf[b]
         /\ StoringBy(c)'
<1> USE DEF RecordTypeOK
<1>1. ASSUME NEW s \in Sessions, NEW e \in Events, EnterStore(c, s, e)
      PROVE  /\ RecordTypeOK' /\ UNCHANGED record
             /\ \A b \in Calls \ {c} : rpc'[b] = rpc[b] /\ rop'[b] = rop[b] /\ rbuf'[b] = rbuf[b]
             /\ StoringBy(c)'
  <2>1. [sid |-> s, event |-> e] \in RecordOp
    BY StoreConstants
  <2> QED
    BY <1>1, <2>1 DEF EnterStore, StoringBy, RecordPoints
<1>2. CASE LeaveStore(c)
  BY <1>2, StoreConstants DEF LeaveStore, StoringBy, RecordPoints
<1> QED
  BY <1>1, <1>2

\* The event kinds the handlers append.
LEMMA EventKinds ==
  {"session_ended", "lease_released", "lease_recovered_stale", "queue_wait_started",
   "queue_wait_ended", "evidence"} \subseteq Events
BY DEF Events

LEMMA RecordStepType ==
  ASSUME RecordTypeOK, Storing, NEW c \in Calls, RecordStep(c)
  PROVE  /\ RecordTypeOK'
         /\ Storing'
         /\ \A s \in Sessions \ {rop[c].sid} : record'[s] = record[s]
<1> USE DEF RecordTypeOK
<1> StoringBy(c)
  BY DEF Storing
<1>1. CASE LoadRecord(c)
  BY <1>1 DEF LoadRecord, Storing, StoringBy, RecordPoints
<1>2. CASE WriteRecord(c)
  <2>1. rop[c].sid \in Sessions /\ rbuf[c] \in Record
    BY <1>2 DEF WriteRecord, StoringBy
  <2>2. record' \in [Sessions -> Record \cup {None}]
    BY <1>2, <2>1, WithType DEF WriteRecord
  <2> QED
    BY <1>2, <2>1, <2>2 DEF WriteRecord, Storing, StoringBy, RecordPoints
<1> QED
  BY <1>1, <1>2 DEF RecordStep

-----------------------------------------------------------------------------
(* A step of a handler. *)

\* It uses the record store in one of four ways.
LEMMA StoreUse ==
  ASSUME Inv, NEW c \in Calls, HandlerStep(c) \/ Call(c)
  PROVE  \/ StartPersist(c)
         \/ \E s \in Sessions, e \in Events : EnterStore(c, s, e)
         \/ LeaveStore(c)
         \/ UNCHANGED recordVars
<1> AimedBy(c)
  BY DEF Inv, Aimed
<1> USE EventKinds DEF From, AimedBy
<1>1. CASE Call(c)
  BY <1>1 DEF Call, StartSession, EndSession, CallTool, CallWithoutSession
<1>2. CASE StartLeased(c) \/ StartRefused(c) \/ StartPersistFails(c) \/ StartUndone(c)
  BY <1>2 DEF StartLeased, StartRefused, StartPersistFails, StartUndone, Over
<1>3. CASE EndWithoutRecord(c) \/ EndRelease(c) \/ EndReleased(c) \/ EndNotReleased(c) \/ EndAppended(c)
  BY <1>3 DEF EndWithoutRecord, EndRelease, EndReleased, EndNotReleased, EndAppended, Over
<1>4. CASE RecoverTimedOut(c) \/ NoteRecovered(c) \/ AllNoted(c) \/ ResolveFails(c)
  BY <1>4 DEF RecoverTimedOut, NoteRecovered, AllNoted, ResolveFails, Over
<1>5. CASE ResolveOpen(c) \/ (\E d \in Devices : ResolveBare(c, d)) \/ BareEvidence(c)
  BY <1>5 DEF ResolveOpen, ResolveBare, BareEvidence, Over
<1>6. CASE BareDone(c)
  <2>1. on[c].sid \in Sessions \cup {None}
    BY DEF Inv, HandlerType, Target
  <2> QED
    BY <1>6, <2>1 DEF BareDone, Over
<1>7. CASE Queued(c) \/ TakeSessionLock(c) \/ RetrySessionLock(c) \/ GiveUpSessionLock(c)
  BY <1>7 DEF Queued, TakeSessionLock, RetrySessionLock, GiveUpSessionLock, Over
<1>8. CASE MarkBusy(c) \/ LockLeaks(c) \/ RefreshHeartbeat(c) \/ RunTask(c)
  BY <1>8 DEF MarkBusy, LockLeaks, RefreshHeartbeat, RunTask, Over
<1>9. CASE TaskWrites(c) \/ TaskGoesOn(c) \/ MarkIdle(c) \/ MarkedIdle(c) \/ ReleaseSessionLock(c)
  BY <1>9 DEF TaskWrites, TaskGoesOn, MarkIdle, MarkedIdle, ReleaseSessionLock, Over, Exclusive
<1> QED
  BY <1>1, <1>2, <1>3, <1>4, <1>5, <1>6, <1>7, <1>8, <1>9 DEF HandlerStep

\* It moves its own call, and leaves it aimed at what its next point needs.
LEMMA HandlerMoves ==
  ASSUME Inv, NEW c \in Calls, HandlerStep(c) \/ Call(c)
  PROVE  /\ \E p \in Points : pc' = [pc EXCEPT ![c] = p]
         /\ \E t \in Target : on' = [on EXCEPT ![c] = t]
         /\ attempts' \in [Calls -> Nat]
         /\ AimedBy(c)'
<1> USE DEF From, Goto, Aim, AimedBy, Exclusive
<1> AimedBy(c) /\ HandlerType
  BY DEF Inv, Aimed
<1>1. CASE Call(c)
  BY <1>1, StoreConstants
  DEF Call, StartSession, EndSession, CallTool, CallWithoutSession, HandlerType, Points,
      RecordTypeOK, Record
<1>2. CASE StartLeased(c) \/ StartRefused(c) \/ StartPersistFails(c) \/ StartUndone(c) \/ StartPersist(c)
  BY <1>2, StoreConstants
  DEF StartLeased, StartRefused, StartPersistFails, StartUndone, StartPersist, Over, HandlerType,
      Points, NoTarget
<1>3. CASE EndWithoutRecord(c) \/ EndRelease(c) \/ EndReleased(c) \/ EndNotReleased(c) \/ EndAppended(c)
  BY <1>3, StoreConstants
  DEF EndWithoutRecord, EndRelease, EndReleased, EndNotReleased, EndAppended, Over, HandlerType,
      Points, Target
<1>4. CASE RecoverTimedOut(c) \/ NoteRecovered(c) \/ AllNoted(c) \/ ResolveFails(c)
  BY <1>4, StoreConstants
  DEF RecoverTimedOut, NoteRecovered, AllNoted, ResolveFails, Over, HandlerType, Points
<1>5. CASE (\E d \in Devices : ResolveBare(c, d)) \/ BareDone(c) \/ BareEvidence(c)
  BY <1>5, StoreConstants
  DEF ResolveBare, BareDone, BareEvidence, Over, HandlerType, Points, Target
<1>6. CASE ResolveOpen(c)
  <2>1. on[c].sid \in Sessions /\ record[on[c].sid].device \in Devices
    BY <1>6 DEF ResolveOpen, HandlerType, RecordTypeOK, Open, Record
  <2> QED
    BY <1>6, <2>1, StoreConstants DEF ResolveOpen, HandlerType, Points
<1>7. CASE Queued(c) \/ TakeSessionLock(c) \/ RetrySessionLock(c) \/ GiveUpSessionLock(c)
  BY <1>7, StoreConstants
  DEF Queued, TakeSessionLock, RetrySessionLock, GiveUpSessionLock, Over, HandlerType, Points
<1>8. CASE MarkBusy(c) \/ LockLeaks(c) \/ RefreshHeartbeat(c) \/ RunTask(c)
  BY <1>8, StoreConstants
  DEF MarkBusy, LockLeaks, RefreshHeartbeat, RunTask, Over, HandlerType, Points
<1>9. CASE TaskWrites(c) \/ TaskGoesOn(c) \/ MarkIdle(c) \/ MarkedIdle(c) \/ ReleaseSessionLock(c)
  BY <1>9, StoreConstants
  DEF TaskWrites, TaskGoesOn, MarkIdle, MarkedIdle, ReleaseSessionLock, Over, HandlerType, Points
<1> QED
  BY <1>1, <1>2, <1>3, <1>4, <1>5, <1>6, <1>7, <1>8, <1>9 DEF HandlerStep

\* mkdir, rm and a leak aside, it leaves the session locks and its own place
\* inside or outside one alone.
LEMMA HandlerLock ==
  ASSUME Inv, NEW c \in Calls, HandlerStep(c) \/ Call(c)
  PROVE  \/ TakeSessionLock(c)
         \/ ReleaseSessionLock(c) \/ LockLeaks(c)
         \/ /\ UNCHANGED sessionLock /\ (Exclusive(c)' <=> Exclusive(c))
            /\ Exclusive(c) => on'[c] = on[c]
<1> USE DEF From, Goto, Exclusive
<1> HandlerType
  BY DEF Inv
<1> USE DEF HandlerType
<1>1. CASE Call(c)
  BY <1>1 DEF Call, StartSession, EndSession, CallTool, CallWithoutSession
<1>2. CASE StartLeased(c) \/ StartRefused(c) \/ StartPersistFails(c) \/ StartUndone(c) \/ StartPersist(c)
  BY <1>2 DEF StartLeased, StartRefused, StartPersistFails, StartUndone, StartPersist, Over
<1>3. CASE EndWithoutRecord(c) \/ EndRelease(c) \/ EndReleased(c) \/ EndNotReleased(c) \/ EndAppended(c)
  BY <1>3 DEF EndWithoutRecord, EndRelease, EndReleased, EndNotReleased, EndAppended, Over
<1>4. CASE RecoverTimedOut(c) \/ NoteRecovered(c) \/ AllNoted(c) \/ ResolveFails(c)
  BY <1>4 DEF RecoverTimedOut, NoteRecovered, AllNoted, ResolveFails, Over
<1>5. CASE ResolveOpen(c) \/ (\E d \in Devices : ResolveBare(c, d)) \/ BareDone(c) \/ BareEvidence(c)
  BY <1>5 DEF ResolveOpen, ResolveBare, BareDone, BareEvidence, Over
<1>6. CASE Queued(c) \/ RetrySessionLock(c) \/ GiveUpSessionLock(c)
  BY <1>6 DEF Queued, RetrySessionLock, GiveUpSessionLock, Over
<1>7. CASE MarkBusy(c) \/ RefreshHeartbeat(c) \/ RunTask(c)
  BY <1>7 DEF MarkBusy, RefreshHeartbeat, RunTask
<1>8. CASE TaskWrites(c) \/ TaskGoesOn(c) \/ MarkIdle(c) \/ MarkedIdle(c)
  BY <1>8 DEF TaskWrites, TaskGoesOn, MarkIdle, MarkedIdle
<1> QED
  BY <1>1, <1>2, <1>3, <1>4, <1>5, <1>6, <1>7, <1>8 DEF HandlerStep

\* mkdir: the directory was nobody's, and is the call's that is now inside.
LEMMA TakeFacts ==
  ASSUME Inv, NEW c \in Calls, TakeSessionLock(c)
  PROVE  /\ on[c].sid \in Sessions /\ sessionLock[on[c].sid] = Free
         /\ sessionLock' = [sessionLock EXCEPT ![on[c].sid] = c]
         /\ ~Exclusive(c) /\ Exclusive(c)' /\ on' = on
BY DEF TakeSessionLock, Inv, HandlerType, Aimed, AimedBy, From, Goto, Exclusive

\* rm, or an exception past it: the call is outside, the directory not its own.
LEMMA DropFacts ==
  ASSUME Inv, NEW c \in Calls, ReleaseSessionLock(c) \/ LockLeaks(c)
  PROVE  /\ on[c].sid \in Sessions /\ sessionLock[on[c].sid] = c
         /\ \E v \in {Free, Orphan} : sessionLock' = [sessionLock EXCEPT ![on[c].sid] = v]
         /\ LockLeaks(c) => sessionLock' = [sessionLock EXCEPT ![on[c].sid] = Orphan]
         /\ ReleaseSessionLock(c) => sessionLock' = [sessionLock EXCEPT ![on[c].sid] = Free]
         /\ Exclusive(c) /\ ~Exclusive(c)'
<1>1. Exclusive(c) /\ on[c].sid \in Sessions
  BY DEF ReleaseSessionLock, LockLeaks, From, Exclusive, Inv, Aimed, AimedBy
<1>2. sessionLock[on[c].sid] = c
  BY <1>1 DEF Inv, SessionLockHeldByHolder
<1>3. ~Exclusive(c)'
  BY DEF ReleaseSessionLock, LockLeaks, Over, Goto, Exclusive, Inv, HandlerType
<1> QED
  BY <1>1, <1>2, <1>3 DEF ReleaseSessionLock, LockLeaks

LEMMA HandlerInv ==
  ASSUME Inv, NEW c \in Calls, HandlerStep(c) \/ Call(c)
  PROVE  Inv'
<1> HandlerType /\ AimedBy(c)
  BY DEF Inv, Aimed
<1>1. \A b \in Calls \ {c} : pc'[b] = pc[b] /\ on'[b] = on[b]
  BY HandlerMoves DEF HandlerType
<1>2. sessionLock' \in [Sessions -> Calls \cup {Free, Orphan}]
  BY HandlerLock, TakeFacts, DropFacts DEF HandlerType
<1>3. RecordTypeOK' /\ Storing'
  <2>1. CASE StartPersist(c)
    <3>1. on[c].sid \in Sessions /\ on[c].dev \in Devices
      BY <2>1 DEF StartPersist, From, AimedBy
    <3> QED
      BY <2>1, <3>1, PersistStartedType
      DEF StartPersist, HandlerType, PersistStarted, Inv, Storing, StoringBy
  <2>2. CASE (\E s \in Sessions, e \in Events : EnterStore(c, s, e)) \/ LeaveStore(c)
    BY <2>2, StoreCallType DEF HandlerType, Inv, Storing, StoringBy
  <2>3. CASE UNCHANGED recordVars
    BY <2>3 DEF recordVars, HandlerType, RecordTypeOK, Inv, Storing, StoringBy
  <2> QED
    BY <2>1, <2>2, <2>3, StoreUse
<1>4. HandlerType'
  BY <1>2, <1>3, HandlerMoves DEF HandlerType
<1>5. Aimed'
  BY <1>1, HandlerMoves DEF Inv, Aimed, AimedBy, Exclusive
<1>6. SessionLockHeldByHolder'
  <2>1. \A b \in Calls \ {c} : (Exclusive(b)' <=> Exclusive(b)) /\ on'[b] = on[b]
    BY <1>1 DEF Exclusive
  <2>2. CASE TakeSessionLock(c)
    BY <2>1, <2>2, TakeFacts DEF Inv, SessionLockHeldByHolder, HandlerType
  <2>3. CASE ReleaseSessionLock(c) \/ LockLeaks(c)
    BY <2>1, <2>3, DropFacts DEF Inv, SessionLockHeldByHolder, HandlerType
  <2>4. CASE /\ UNCHANGED sessionLock /\ (Exclusive(c)' <=> Exclusive(c))
             /\ Exclusive(c) => on'[c] = on[c]
    BY <2>1, <2>4 DEF Inv, SessionLockHeldByHolder
  <2> QED
    BY <2>2, <2>3, <2>4, HandlerLock
<1> QED
  BY <1>3, <1>4, <1>5, <1>6 DEF Inv

\* A step of the coordinator or of the record store leaves the handlers where
\* they are.
LEMMA ComponentInv ==
  ASSUME Inv, NEW c \in Calls,
         \/ UNCHANGED <<recordVars, callVars>>
         \/ RecordStep(c) /\ UNCHANGED <<leaseVars, callVars>>
  PROVE  Inv'
<1>1. RecordTypeOK' /\ Storing'
  BY RecordStepType DEF Inv, HandlerType, recordVars, RecordTypeOK, Storing, StoringBy
<1>2. UNCHANGED callVars
  OBVIOUS
<1> QED
  BY <1>1, <1>2 DEF callVars, Inv, HandlerType, Aimed, AimedBy, SessionLockHeldByHolder, Exclusive

LEMMA CrashInv ==
  ASSUME Inv, NEW h \in Crashing, Crash(h)
  PROVE  Inv'
<1> DEFINE gone == {c \in Calls : HostOf[c] = h}
<1> HandlerType
  BY DEF Inv
<1>1. RecordTypeOK' /\ Storing'
  BY StoreConstants DEF Crash, CrashRecords, HandlerType, RecordTypeOK, Inv, Storing, StoringBy,
                        RecordPoints
<1>2. \A b \in Calls : \/ b \in gone /\ pc'[b] = "idle"
                       \/ b \notin gone /\ pc'[b] = pc[b] /\ on'[b] = on[b]
  BY DEF Crash
<1>3. HandlerType'
  BY <1>1, StoreConstants DEF Crash, HandlerType, Points
<1>4. Aimed'
  BY <1>2 DEF Inv, Aimed, AimedBy, Exclusive
<1>5. SessionLockHeldByHolder'
  BY <1>2 DEF Crash, Inv, SessionLockHeldByHolder, Exclusive, HandlerType
<1> QED
  BY <1>1, <1>3, <1>4, <1>5 DEF Inv

LEMMA InitInv == Init => Inv
BY StoreConstants
DEF Init, RecordInit, Inv, HandlerType, RecordTypeOK, Points, RecordPoints, Aimed, AimedBy,
    Storing, StoringBy, SessionLockHeldByHolder, Exclusive

LEMMA NextInv == Inv /\ [Next]_vars => Inv'
<1> SUFFICES ASSUME Inv, [Next]_vars PROVE Inv'
  OBVIOUS
<1>1. ASSUME NEW c \in Calls, Call(c) \/ CallStep(c)
      PROVE  Inv'
  BY <1>1, HandlerInv, ComponentInv DEF CallStep
<1>2. CASE Tick \/ UNCHANGED vars
  BY <1>2 DEF Tick, vars, recordVars, callVars, Inv, HandlerType, RecordTypeOK, Aimed, AimedBy,
              Storing, StoringBy, SessionLockHeldByHolder, Exclusive
<1>3. ASSUME NEW h \in Crashing, Crash(h)
      PROVE  Inv'
  BY <1>3, CrashInv
<1> QED
  BY <1>1, <1>2, <1>3 DEF Next

LEMMA InvHolds == Spec => []Inv
BY InitInv, NextInv, PTL DEF Spec

\* runExclusive serializes the tasks of a session: its lock directory names
\* exactly the call inside, for any number of calls, timeouts, exceptions, crashes.
THEOREM SessionLockCorrect == Spec => []SessionLockHeldByHolder
BY InvHolds, PTL DEF Inv

-----------------------------------------------------------------------------
(* The session locks implement ExclusiveLock. *)

LEMMA SessionLockStutter ==
  ASSUME UNCHANGED sessionLock,
         \A b \in Calls : (Exclusive(b)' <=> Exclusive(b)) /\ (Exclusive(b) => on'[b] = on[b])
  PROVE  UNCHANGED SessionLock!vars
BY DEF SessionLock!vars

\* mkdir enters; rm exits; a call that ends without its rm loses the section.
LEMMA SessionLockStep ==
  ASSUME Inv, NEW c \in Calls, HandlerStep(c) \/ Call(c)
  PROVE  SessionLock!Next \/ UNCHANGED SessionLock!vars
<1> USE DEF Inv, HandlerType
<1>0. \A b \in Calls \ {c} : (Exclusive(b)' <=> Exclusive(b)) /\ on'[b] = on[b]
  BY HandlerMoves DEF Exclusive
<1>1. CASE TakeSessionLock(c)
  <2>1. PICK s \in Sessions : s = on[c].sid
    BY <1>1, TakeFacts
  <2>2. ~SessionLock!Occupied(s)
    BY <1>1, <2>1, TakeFacts DEF SessionLock!Occupied, SessionLockHeldByHolder
  <2>3. [b \in Calls |-> IF Exclusive(b)' THEN on'[b].sid ELSE None]
          = [[b \in Calls |-> IF Exclusive(b) THEN on[b].sid ELSE None] EXCEPT ![c] = s]
    <3>1. \A b \in Calls \ {c} : (IF Exclusive(b)' THEN on'[b].sid ELSE None)
                                  = (IF Exclusive(b) THEN on[b].sid ELSE None)
      BY <1>0
    <3>2. (IF Exclusive(c)' THEN on'[c].sid ELSE None) = s
      BY <1>1, <2>1, TakeFacts
    <3> QED
      BY <3>1, <3>2
  <2>4. {t \in Sessions : sessionLock'[t] = Orphan} = {t \in Sessions : sessionLock[t] = Orphan}
    BY <1>1, TakeFacts
  <2>5. SessionLock!Enter(c, s)
    BY <1>1, <2>2, <2>3, <2>4, TakeFacts DEF SessionLock!Enter, SessionLock!Occupied
  <2> QED
    BY <2>5 DEF SessionLock!Next
<1>2. CASE ReleaseSessionLock(c) \/ LockLeaks(c)
  <2>1. [b \in Calls |-> IF Exclusive(b)' THEN on'[b].sid ELSE None]
          = [[b \in Calls |-> IF Exclusive(b) THEN on[b].sid ELSE None] EXCEPT ![c] = None]
    <3>1. \A b \in Calls \ {c} : (IF Exclusive(b)' THEN on'[b].sid ELSE None)
                                  = (IF Exclusive(b) THEN on[b].sid ELSE None)
      BY <1>0
    <3>2. (IF Exclusive(c)' THEN on'[c].sid ELSE None) = None
      BY <1>2, DropFacts
    <3> QED
      BY <3>1, <3>2
  <2>2. CASE ReleaseSessionLock(c)
    <3>1. {t \in Sessions : sessionLock'[t] = Orphan} = {t \in Sessions : sessionLock[t] = Orphan}
      BY <2>2, DropFacts
    <3>2. SessionLock!Exit(c)
      BY <2>1, <2>2, <3>1, DropFacts DEF SessionLock!Exit
    <3> QED
      BY <3>2 DEF SessionLock!Next
  <2>3. CASE LockLeaks(c)
    <3>1. {t \in Sessions : sessionLock'[t] = Orphan}
            = {t \in Sessions : sessionLock[t] = Orphan} \cup {on[c].sid}
      BY <2>3, DropFacts
    <3>2. {t \in Sessions : \E u \in {c} : (IF Exclusive(u) THEN on[u].sid ELSE None) = t}
            = {on[c].sid}
      BY <2>3, DropFacts
    <3>3. SessionLock!Lose({c})
      <4>1. \A k \in Sessions : (\E u \in {c} : (IF Exclusive(u) THEN on[u].sid ELSE None) = k)
                                <=> k = on[c].sid
        BY <2>3, DropFacts
      <4> QED
        BY <1>0, <2>3, <3>1, <4>1, DropFacts DEF SessionLock!Lose
    <3> QED
      BY <3>3 DEF SessionLock!Next
  <2> QED
    BY <1>2, <2>2, <2>3
<1>3. CASE /\ UNCHANGED sessionLock /\ (Exclusive(c)' <=> Exclusive(c))
           /\ Exclusive(c) => on'[c] = on[c]
  BY <1>0, <1>3, SessionLockStutter
<1> QED
  BY <1>1, <1>2, <1>3, HandlerLock

LEMMA SessionLockCrash ==
  ASSUME Inv, NEW h \in Crashing, Crash(h)
  PROVE  SessionLock!Next
<1> DEFINE U == {c \in Calls : HostOf[c] = h}
<1> USE DEF Inv, HandlerType
<1>1. \A b \in Calls : /\ b \in U => ~Exclusive(b)'
                       /\ b \notin U => (Exclusive(b)' <=> Exclusive(b)) /\ on'[b] = on[b]
  BY DEF Crash, Exclusive
<1>2. \A s \in Sessions : sessionLock'[s] = Orphan
                            <=> sessionLock[s] = Orphan \/ \E b \in U : sessionLock[s] = b
  BY DEF Crash
<1>3. SessionLock!Lose(U)
  BY <1>1, <1>2 DEF SessionLock!Lose, SessionLockHeldByHolder
<1> QED
  BY <1>3 DEF SessionLock!Next

\* The scheduler's session locks are exclusive locks; what a crash or a leaking
\* exception leaves behind stays lost.
THEOREM SessionLockRefinement == Spec => ImplementsSessionLock
<1>1. Init => SessionLock!Init
  BY DEF Init, SessionLock!Init, Exclusive
<1>2. Inv /\ [Next]_vars => [SessionLock!Next]_(SessionLock!vars)
  <2> SUFFICES ASSUME Inv, [Next]_vars PROVE SessionLock!Next \/ UNCHANGED SessionLock!vars
    OBVIOUS
  <2>1. ASSUME NEW c \in Calls, HandlerStep(c) \/ Call(c)
        PROVE  SessionLock!Next \/ UNCHANGED SessionLock!vars
    BY <2>1, SessionLockStep
  <2>2. ASSUME NEW h \in Crashing, Crash(h)
        PROVE  SessionLock!Next
    BY <2>2, SessionLockCrash
  <2>3. CASE UNCHANGED callVars
    BY <2>3, SessionLockStutter DEF callVars, Exclusive
  <2>4. CASE Tick \/ UNCHANGED vars
    BY <2>3, <2>4 DEF Tick, vars
  <2> QED
    BY <2>1, <2>2, <2>3, <2>4 DEF Next, CallStep
<1> QED
  BY <1>1, <1>2, InvHolds, PTL DEF Spec, ImplementsSessionLock, SessionLock!Spec

-----------------------------------------------------------------------------
(* Every step is the coordinator's own or none of its business. *)

LEMMA OpenKept ==
  ASSUME UNCHANGED record
  PROVE  UNCHANGED [s \in Sessions |-> Open(s)]
BY DEF Open

\* What a handler does to the coordinator is to enter it or to use its result.
LEMMA LeaseUse ==
  ASSUME Inv, NEW c \in Calls, HandlerStep(c) \/ Call(c)
  PROVE  \/ StartPersist(c)
         \/ UNCHANGED record /\ (L!EnterSome(c) \/ L!UseResult(c) \/ UNCHANGED leaseVars)
<1> USE DEF From, L!LockedKinds, L!EnterSome, L!UseResult, recordVars, EnterStore, LeaveStore
<1> AimedBy(c) /\ HandlerType
  BY DEF Inv, Aimed
<1> USE DEF AimedBy, Exclusive
<1>1. CASE Call(c)
  BY <1>1 DEF Call, StartSession, EndSession, CallTool, CallWithoutSession
<1>2. CASE StartLeased(c) \/ StartRefused(c) \/ StartPersistFails(c) \/ StartUndone(c)
  BY <1>2 DEF StartLeased, StartRefused, StartPersistFails, StartUndone, Over
<1>3. CASE EndWithoutRecord(c) \/ EndReleased(c) \/ EndNotReleased(c) \/ EndAppended(c)
  BY <1>3 DEF EndWithoutRecord, EndReleased, EndNotReleased, EndAppended, Over
<1>4. CASE EndRelease(c)
  <2>1. on[c].sid \in Sessions /\ on[c].dev \in Devices
    BY <1>4 DEF EndRelease, HandlerType, Target
  <2> QED
    BY <1>4, <2>1 DEF EndRelease
<1>5. CASE RecoverTimedOut(c) \/ NoteRecovered(c) \/ AllNoted(c) \/ ResolveFails(c)
  BY <1>5 DEF RecoverTimedOut, NoteRecovered, AllNoted, ResolveFails, Over
<1>6. CASE ResolveOpen(c) \/ (\E d \in Devices : ResolveBare(c, d)) \/ BareDone(c) \/ BareEvidence(c)
  BY <1>6 DEF ResolveOpen, ResolveBare, BareDone, BareEvidence, Over
<1>7. CASE Queued(c) \/ TakeSessionLock(c) \/ RetrySessionLock(c) \/ GiveUpSessionLock(c)
  BY <1>7 DEF Queued, TakeSessionLock, RetrySessionLock, GiveUpSessionLock, Over
<1>8. CASE MarkBusy(c) \/ LockLeaks(c) \/ RefreshHeartbeat(c) \/ RunTask(c)
  BY <1>8 DEF MarkBusy, LockLeaks, RefreshHeartbeat, RunTask, Over
<1>9. CASE TaskWrites(c) \/ TaskGoesOn(c) \/ MarkIdle(c) \/ MarkedIdle(c) \/ ReleaseSessionLock(c)
  BY <1>9 DEF TaskWrites, TaskGoesOn, MarkIdle, MarkedIdle, ReleaseSessionLock, Over
<1> QED
  BY <1>1, <1>2, <1>3, <1>4, <1>5, <1>6, <1>7, <1>8, <1>9 DEF HandlerStep

\* Whatever is written to the record of one session, seen from the coordinator
\* that session opens or closes, or nothing happens.
LEMMA OneRecord ==
  ASSUME UNCHANGED leaseVars, NEW s \in Sessions,
         \A t \in Sessions \ {s} : record'[t] = record[t]
  PROVE  L!SessionChange(s) \/ UNCHANGED L!vars
<1>1. \A t \in Sessions \ {s} : Open(t)' = Open(t)
  BY DEF Open
<1>2. CASE Open(s)' = Open(s)
  <2>1. [t \in Sessions |-> Open(t)]' = [t \in Sessions |-> Open(t)]
    BY <1>1, <1>2
  <2> QED
    BY <2>1 DEF L!vars, leaseVars
<1>3. CASE Open(s)' = ~Open(s)
  <2>1. [t \in Sessions |-> Open(t)]' = [[t \in Sessions |-> Open(t)] EXCEPT ![s] = ~@]
    BY <1>1, <1>3
  <2> QED
    BY <2>1 DEF L!SessionChange, L!leaseVars, leaseVars
<1>4. Open(s) \in BOOLEAN /\ Open(s)' \in BOOLEAN
  BY DEF Open
<1> QED
  BY <1>2, <1>3, <1>4

LEMMA CoordinatorStep ==
  ASSUME Inv, [Next]_vars
  PROVE  L!Next \/ UNCHANGED L!vars
<1> USE DEF L!Next
<1>1. ASSUME NEW c \in Calls, HandlerStep(c) \/ Call(c)
      PROVE  L!Next \/ UNCHANGED L!vars
  <2>1. CASE StartPersist(c)
    <3>1. on[c].sid \in Sessions
      BY <2>1 DEF StartPersist, From, Inv, Aimed, AimedBy
    <3>2. \A t \in Sessions \ {on[c].sid} : record'[t] = record[t]
      BY <2>1, <3>1 DEF StartPersist, PersistStarted, Inv, HandlerType, RecordTypeOK
    <3> QED
      BY <2>1, <3>1, <3>2, OneRecord DEF StartPersist
  <2>2. CASE UNCHANGED record /\ (L!EnterSome(c) \/ L!UseResult(c) \/ UNCHANGED leaseVars)
    BY <2>2, OpenKept DEF L!vars, leaseVars
  <2> QED
    BY <1>1, <2>1, <2>2, LeaseUse
<1>2. ASSUME NEW c \in Calls, L!LeaseStep(c), UNCHANGED <<recordVars, callVars>>
      PROVE  L!Next
  BY <1>2, OpenKept DEF recordVars
<1>3. ASSUME NEW c \in Calls, RecordStep(c), UNCHANGED <<leaseVars, callVars>>
      PROVE  L!Next \/ UNCHANGED L!vars
  <2>1. rop[c].sid \in Sessions
    BY <1>3 DEF RecordStep, LoadRecord, WriteRecord, Inv, Storing, StoringBy
  <2>2. \A t \in Sessions \ {rop[c].sid} : record'[t] = record[t]
    BY <1>3, <2>1 DEF RecordStep, LoadRecord, WriteRecord, Inv, HandlerType, RecordTypeOK
  <2> QED
    BY <1>3, <2>1, <2>2, OneRecord
<1>4. CASE Tick
  BY <1>4, OpenKept DEF Tick, recordVars
<1>5. ASSUME NEW h \in Crashing, Crash(h)
      PROVE  L!Next
  BY <1>5, OpenKept DEF Crash, CrashRecords
<1>6. CASE UNCHANGED vars
  BY <1>6, OpenKept DEF vars, recordVars, leaseVars, L!vars
<1> QED
  BY <1>1, <1>2, <1>3, <1>4, <1>5, <1>6 DEF Next, CallStep

\* Handlers, store, clock and crashes drive the coordinator only through its own
\* steps: what is proved of the coordinator alone holds inside the composition.
THEOREM CoordinatorRefinement == Spec => ImplementsCoordinator
<1>1. Init => L!Init
  BY DEF Init, RecordInit, L!Init, Open
<1>2. Inv /\ [Next]_vars => [L!Next]_(L!vars)
  BY CoordinatorStep
<1> QED
  BY <1>1, <1>2, InvHolds, PTL DEF Spec, ImplementsCoordinator, L!Spec

-----------------------------------------------------------------------------
(* What is proved of the coordinator alone, brought in. *)

LEMMA SameTypes ==
  /\ L!Lease = LP!Lease /\ L!Op = LP!Op /\ L!Scan = LP!Scan
  /\ L!NoOp = LP!NoOp /\ L!NoScan = LP!NoScan
BY DEF L!Lease, LP!Lease, L!Op, LP!Op, L!Scan, LP!Scan, L!NoOp, LP!NoOp, L!NoScan, LP!NoScan,
       L!Kinds, LP!Kinds, L!LockedKinds, LP!LockedKinds

LEMMA SameSteps ==
  ASSUME NEW c \in Calls
  PROVE  /\ L!EnterSome(c) = LP!EnterSome(c)
         /\ L!UseResult(c) = LP!UseResult(c)
         /\ L!LeaseStep(c) = LP!LeaseStep(c)
<1>1. L!EnterSome(c) = LP!EnterSome(c) /\ L!UseResult(c) = LP!UseResult(c)
  BY DEF L!EnterSome, LP!EnterSome, L!Enter, LP!Enter, L!EnterRelease, LP!EnterRelease,
         L!EnterRecover, LP!EnterRecover, L!UseResult, LP!UseResult, L!Leave, LP!Leave,
         L!NoteRecovered, LP!NoteRecovered, L!AtRest, LP!AtRest, L!Returned, LP!Returned,
         L!LockedKinds, LP!LockedKinds, L!NoOp, LP!NoOp, L!NoScan, LP!NoScan,
         L!Visible, LP!Visible, L!Stale, LP!Stale
<1>2. L!LeaseStep(c) = LP!LeaseStep(c)
  BY DEF L!LeaseStep, LP!LeaseStep, L!TakeLock, LP!TakeLock, L!RetryLock, LP!RetryLock,
         L!GiveUpLock, LP!GiveUpLock, L!Unlock, LP!Unlock, L!Load, LP!Load,
         L!CheckOwner, LP!CheckOwner, L!Evict, LP!Evict, L!Reload, LP!Reload,
         L!Persist, LP!Persist, L!Written, LP!Written, L!NextStale, LP!NextStale,
         L!NoMoreStale, LP!NoMoreStale, L!ReleaseLoad, LP!ReleaseLoad,
         L!ReleaseUnlink, LP!ReleaseUnlink, L!Move, LP!Move, L!Visible, LP!Visible,
         L!Stale, LP!Stale, L!OwnedByAnother, LP!OwnedByAnother
<1> QED
  BY <1>1, <1>2

LEMMA SameSpec == L!Spec => LP!Spec
<1>1. L!Init => LP!Init
  BY DEF L!Init, LP!Init, L!LeaseInit, LP!LeaseInit, L!NoOp, LP!NoOp, L!NoScan, LP!NoScan
<1>2. L!Next => LP!Next
  BY SameSteps DEF L!Next, LP!Next, L!SessionChange, LP!SessionChange, L!leaseVars, LP!leaseVars,
     L!Tick, LP!Tick, L!CrashLease, LP!CrashLease, L!Forget, LP!Forget,
     L!NoOp, LP!NoOp, L!NoScan, LP!NoScan
<1>3. [L!Next]_(L!vars) => [LP!Next]_(LP!vars)
  BY <1>2 DEF L!vars, LP!vars
<1> QED
  BY <1>1, <1>3, PTL DEF L!Spec, LP!Spec

LEMMA LeaseInvHolds == Spec => []LP!Inv
<1>1. LP!Spec => []LP!Inv
  BY LP!InvHolds, SameTypes, CoordinatorAssumption, SessionNoneAssumption, SMT
<1> QED
  BY <1>1, SameSpec, CoordinatorRefinement, PTL DEF ImplementsCoordinator

\* What a call holds when it is about to write a lease, and the types.
LEMMA CoordinatorFacts ==
  ASSUME LP!Inv
  PROVE  /\ L!TypeOK
         /\ \A c \in Calls :
              /\ lpc[c] \in {"mkdir", "load", "evict", "persist"} => op[c].dev \in Devices
              /\ lpc[c] = "next" => op[c].kind = "recover"
              /\ lpc[c] = "persist" =>
                   /\ op[c].kind \in L!LockedKinds
                   /\ op[c].kind # "acquire" => buf[c] \in L!Lease /\ buf[c].owner = op[c].sid
<1>1. L!TypeOK
  BY SameTypes DEF LP!Inv, L!TypeOK, LP!TypeOK, L!Points, LP!Points
<1>2. ASSUME NEW c \in Calls
      PROVE  /\ lpc[c] \in {"mkdir", "load", "evict", "persist"} => op[c].dev \in Devices
             /\ lpc[c] = "next" => op[c].kind = "recover"
             /\ lpc[c] = "persist" =>
                  /\ op[c].kind \in L!LockedKinds
                  /\ op[c].kind # "acquire" => buf[c] \in L!Lease /\ buf[c].owner = op[c].sid
  <2>1. LP!ShapeOf(c)
    BY DEF LP!Inv, LP!Shape
  <2> QED
    BY <2>1, SameTypes DEF LP!ShapeOf, LP!InSection, LP!LockedKinds, L!LockedKinds
<1> QED
  BY <1>1, <1>2

\* The composition's type invariant: the handlers', the store's and the
\* coordinator's state stay of their types in every schedule and crash.
THEOREM CompositionTypeCorrect == Spec => []TypeOK
<1>1. Inv /\ LP!Inv => TypeOK
  BY CoordinatorFacts DEF Inv, HandlerType, TypeOK
<1> QED
  BY <1>1, InvHolds, LeaseInvHolds, PTL

-----------------------------------------------------------------------------
(* A busy lease is one of a locked session. *)

\* A lease that is busy after a step of the coordinator was so before, or a
\* markBusy or refreshHeartbeat of its owner has just written it.
LEMMA BusyWrite ==
  ASSUME LP!Inv, NEW c \in Calls, L!LeaseStep(c),
         NEW d \in Devices, lease'[d] # None, lease'[d].state = "busy"
  PROVE  \/ lease'[d] = lease[d]
         \/ /\ d = op[c].dev /\ lease'[d].owner = op[c].sid
            /\ op[c].kind \in {"markBusy", "refreshHeartbeat"}
<1> USE CoordinatorFacts
<1>1. CASE L!Persist(c)
  <2>1. /\ lpc[c] = "persist" /\ op[c].dev \in Devices
        /\ lease' = [lease EXCEPT ![op[c].dev] = L!Written(c)]
    BY <1>1 DEF L!Persist, L!Move
  <2>2. op[c].kind \in L!LockedKinds
        /\ (op[c].kind # "acquire" => buf[c] \in L!Lease /\ buf[c].owner = op[c].sid)
    BY <2>1
  <2>3. L!Written(c).state = "busy" =>
          /\ op[c].kind \in {"markBusy", "refreshHeartbeat"}
          /\ L!Written(c).owner = op[c].sid
    BY <2>2 DEF L!Written, L!LockedKinds, L!Lease
  <2> QED
    BY <2>1, <2>3 DEF L!TypeOK
<1>2. CASE L!Evict(c) \/ L!ReleaseUnlink(c)
  BY <1>2 DEF L!Evict, L!ReleaseUnlink, L!Move, L!TypeOK
<1>3. CASE UNCHANGED lease
  BY <1>3
<1> QED
  BY <1>1, <1>2, <1>3 DEF L!LeaseStep, L!TakeLock, L!RetryLock, L!GiveUpLock, L!Unlock, L!Load,
     L!CheckOwner, L!Reload, L!NextStale, L!NoMoreStale, L!ReleaseLoad

\* A step inside the coordinator moves one call, in the same function.
LEMMA LeaseStepMoves ==
  ASSUME LP!Inv, NEW c \in Calls, L!LeaseStep(c)
  PROVE  /\ \A b \in Calls \ {c} : lpc'[b] = lpc[b] /\ op'[b] = op[b]
         /\ op'[c].kind = op[c].kind
         /\ op[c].kind # "recover" => op' = op
<1> L!TypeOK
  BY CoordinatorFacts
<1> USE DEF L!TypeOK, L!Move
<1>1. CASE L!TakeLock(c) \/ L!RetryLock(c) \/ L!GiveUpLock(c) \/ L!Load(c)
  BY <1>1 DEF L!TakeLock, L!RetryLock, L!GiveUpLock, L!Load
<1>2. CASE L!Unlock(c)
  BY <1>2 DEF L!Unlock
<1>3. CASE L!CheckOwner(c) \/ L!Evict(c) \/ L!Reload(c) \/ L!Persist(c)
  BY <1>3 DEF L!CheckOwner, L!Evict, L!Reload, L!Persist
<1>4. ASSUME NEW d \in Devices, L!NextStale(c, d)
      PROVE  /\ \A b \in Calls \ {c} : lpc'[b] = lpc[b] /\ op'[b] = op[b]
             /\ op'[c].kind = op[c].kind /\ op[c].kind = "recover"
  BY <1>4, CoordinatorFacts DEF L!NextStale, L!Op
<1>5. CASE L!NoMoreStale(c) \/ L!ReleaseLoad(c) \/ L!ReleaseUnlink(c)
  BY <1>5 DEF L!NoMoreStale, L!ReleaseLoad, L!ReleaseUnlink
<1> QED
  BY <1>1, <1>2, <1>3, <1>4, <1>5 DEF L!LeaseStep

\* What a handler step does to the calls inside the coordinator.
LEMMA HandlerCalling ==
  ASSUME Inv, Calling, LP!Inv, NEW c \in Calls, HandlerStep(c) \/ Call(c)
  PROVE  /\ UNCHANGED lease
         /\ \A b \in Calls \ {c} : lpc'[b] = lpc[b] /\ op'[b] = op[b]
         /\ CallingBy(c)'
<1> L!TypeOK /\ HandlerType /\ AimedBy(c) /\ CallingBy(c)
  BY CoordinatorFacts DEF Inv, Aimed, Calling
<1> USE DEF L!TypeOK, HandlerType, CallingBy, From, Goto, Aim, L!NoOp, EnterStore, LeaveStore,
            L!Enter, L!EnterRelease, L!EnterRecover, L!Leave, L!NoteRecovered
<1>1. CASE Call(c)
  BY <1>1 DEF Call, StartSession, EndSession, CallTool, CallWithoutSession, leaseVars
<1>2. CASE StartLeased(c) \/ StartRefused(c) \/ StartPersistFails(c) \/ StartUndone(c)
  BY <1>2 DEF StartLeased, StartRefused, StartPersistFails, StartUndone, Over
<1>3. CASE StartPersist(c)
  BY <1>3 DEF StartPersist, leaseVars
<1>4. CASE EndWithoutRecord(c) \/ EndReleased(c) \/ EndNotReleased(c) \/ EndAppended(c)
           \/ EndRelease(c)
  BY <1>4 DEF EndWithoutRecord, EndReleased, EndNotReleased, EndAppended, EndRelease, Over
<1>5. CASE RecoverTimedOut(c) \/ NoteRecovered(c) \/ AllNoted(c) \/ ResolveFails(c)
  BY <1>5 DEF RecoverTimedOut, NoteRecovered, AllNoted, ResolveFails, Over
<1>6. CASE ResolveOpen(c) \/ (\E d \in Devices : ResolveBare(c, d)) \/ BareDone(c) \/ BareEvidence(c)
  BY <1>6 DEF ResolveOpen, ResolveBare, BareDone, BareEvidence, Over, leaseVars
<1>7. CASE Queued(c) \/ TakeSessionLock(c) \/ RetrySessionLock(c) \/ GiveUpSessionLock(c)
  BY <1>7 DEF Queued, TakeSessionLock, RetrySessionLock, GiveUpSessionLock, Over, leaseVars
<1>8. CASE LockLeaks(c) \/ RunTask(c) \/ TaskWrites(c) \/ TaskGoesOn(c) \/ MarkedIdle(c) \/ ReleaseSessionLock(c)
  BY <1>8 DEF LockLeaks, RunTask, TaskWrites, TaskGoesOn, MarkedIdle, ReleaseSessionLock, Over, leaseVars
<1>9. CASE MarkBusy(c) \/ RefreshHeartbeat(c) \/ MarkIdle(c)
  BY <1>9 DEF MarkBusy, RefreshHeartbeat, MarkIdle
<1> QED
  BY <1>1, <1>2, <1>3, <1>4, <1>5, <1>6, <1>7, <1>8, <1>9 DEF HandlerStep

\* A call that may have a busy lease goes on so, or leaks its session lock.
LEMMA StillBusy ==
  ASSUME Inv, Calling, LP!Inv, NEW c \in Calls, HandlerStep(c) \/ Call(c), MayBeBusy(c)
  PROVE  LockLeaks(c) \/ (UNCHANGED <<sessionLock, on>> /\ MayBeBusy(c)')
<1> HandlerType /\ L!TypeOK
  BY CoordinatorFacts DEF Inv
<1> USE DEF HandlerType, From, Goto, LeaseReturned, MayBeBusy
<1>1. CASE RefreshHeartbeat(c) \/ RunTask(c) \/ TaskWrites(c) \/ TaskGoesOn(c)
  BY <1>1 DEF RefreshHeartbeat, RunTask, TaskWrites, TaskGoesOn
<1>2. CASE MarkIdle(c)
  BY <1>2 DEF MarkIdle, L!Enter, L!TypeOK
<1> QED
  BY <1>1, <1>2
  DEF HandlerStep, StartLeased, StartRefused, StartPersist, StartPersistFails, StartUndone,
      EndWithoutRecord, EndRelease, EndReleased, EndNotReleased, EndAppended,
      RecoverTimedOut, NoteRecovered, AllNoted, ResolveFails, ResolveOpen, ResolveBare,
      BareDone, BareEvidence, Queued, TakeSessionLock, RetrySessionLock, GiveUpSessionLock,
      MarkBusy, MarkedIdle, ReleaseSessionLock,
      Call, StartSession, EndSession, CallTool, CallWithoutSession

LEMMA CallingInv ==
  ASSUME Inv, Calling, LP!Inv, [Next]_vars
  PROVE  Calling'
<1> USE DEF Calling
<1>1. ASSUME NEW c \in Calls, HandlerStep(c) \/ Call(c)
      PROVE  Calling'
  <2>1. \A b \in Calls \ {c} : pc'[b] = pc[b] /\ on'[b] = on[b] /\ op'[b] = op[b]
    BY <1>1, HandlerMoves, HandlerCalling DEF Inv, HandlerType
  <2> QED
    BY <1>1, <2>1, HandlerCalling DEF CallingBy
<1>2. ASSUME NEW c \in Calls, L!LeaseStep(c), UNCHANGED callVars
      PROVE  Calling'
  BY <1>2, LeaseStepMoves DEF CallingBy, callVars
<1>3. CASE UNCHANGED <<op, callVars>>
  BY <1>3 DEF CallingBy, callVars
<1>4. ASSUME NEW h \in Crashing, Crash(h)
      PROVE  Calling'
  BY <1>4 DEF Crash, CallingBy, L!CrashLease, L!Forget, L!NoOp, NoTarget
<1> QED
  BY <1>1, <1>2, <1>3, <1>4 DEF Next, CallStep, Tick, L!Tick, vars, leaseVars

\* The handler's own steps: the session of a busy lease stays locked.
LEMMA BusyHandler ==
  ASSUME Inv, Calling, LP!Inv, BusyInv, NEW c \in Calls, HandlerStep(c) \/ Call(c)
  PROVE  BusyInv'
<1> SUFFICES ASSUME NEW d \in Devices, lease[d] # None, lease[d].state = "busy"
             PROVE  \/ sessionLock'[lease[d].owner] = Orphan
                    \/ \E b \in Calls : /\ sessionLock'[lease[d].owner] = b
                                        /\ on'[b].dev = d
                                        /\ MayBeBusy(b)'
  BY HandlerCalling DEF BusyInv
<1> DEFINE s == lease[d].owner
<1>1. s \in Sessions
  BY CoordinatorFacts DEF L!TypeOK, L!Lease
<1>2. CASE sessionLock[s] = Orphan
  <2>1. sessionLock'[s] = Orphan
    BY <1>1, <1>2, HandlerLock, TakeFacts, DropFacts DEF Inv, HandlerType
  <2> QED
    BY <2>1
<1>3. ASSUME NEW b \in Calls, sessionLock[s] = b, on[b].dev = d, MayBeBusy(b)
      PROVE  \/ sessionLock'[s] = Orphan
             \/ sessionLock'[s] = b /\ on'[b].dev = d /\ MayBeBusy(b)'
  <2>1. CASE b = c
    <3>1. on[c].sid = s
      BY <1>1, <1>3, <2>1 DEF Inv, SessionLockHeldByHolder
    <3> QED
      BY <1>1, <1>3, <2>1, <3>1, StillBusy DEF LockLeaks, Inv, HandlerType
  <2>2. CASE b # c
    <3>1. pc'[b] = pc[b] /\ on'[b] = on[b] /\ lpc'[b] = lpc[b]
      BY <2>2, HandlerMoves, HandlerCalling DEF Inv, HandlerType
    <3>2. sessionLock'[s] = b
      <4>1. on[b].sid = s /\ ~(on[c].sid = s /\ Exclusive(c))
        BY <1>1, <1>3, <2>2 DEF Inv, SessionLockHeldByHolder
      <4> QED
        BY <1>1, <1>3, <4>1, HandlerLock, TakeFacts, DropFacts DEF Inv, HandlerType
    <3> QED
      BY <1>3, <3>1, <3>2 DEF MayBeBusy
  <2> QED
    BY <2>1, <2>2
<1> QED
  BY <1>2, <1>3 DEF BusyInv

\* The coordinator's steps: only markBusy and refreshHeartbeat write busy, in
\* a handler that holds the session lock; markIdle has undone it by its return.
LEMMA BusyLeaseStep ==
  ASSUME Inv, Calling, LP!Inv, BusyInv, NEW c \in Calls, L!LeaseStep(c), UNCHANGED callVars
  PROVE  BusyInv'
<1> USE DEF callVars
<1> SUFFICES ASSUME NEW d \in Devices, lease'[d] # None, lease'[d].state = "busy"
             PROVE  \/ sessionLock[lease'[d].owner] = Orphan
                    \/ \E b \in Calls : /\ sessionLock[lease'[d].owner] = b
                                        /\ on[b].dev = d
                                        /\ MayBeBusy(b)'
  BY DEF BusyInv
<1> DEFINE s == lease'[d].owner
<1>1. CASE /\ d = op[c].dev /\ s = op[c].sid
           /\ op[c].kind \in {"markBusy", "refreshHeartbeat"}
  <2>1. pc[c] \in {"busy", "refresh"} /\ on[c].sid = s /\ on[c].dev = d
    BY <1>1 DEF Calling, CallingBy
  <2>2. s \in Sessions /\ sessionLock[s] = c
    BY <2>1 DEF Inv, Aimed, AimedBy, SessionLockHeldByHolder, Exclusive
  <2> QED
    BY <2>1, <2>2 DEF MayBeBusy
<1>2. CASE lease'[d] = lease[d]
  <2>1. s \in Sessions
    BY <1>2, CoordinatorFacts DEF L!TypeOK, L!Lease
  <2>2. ASSUME NEW b \in Calls, sessionLock[s] = b, on[b].dev = d, MayBeBusy(b)
        PROVE  MayBeBusy(b)'
    <3>1. CASE b # c \/ pc[b] # "finally"
      BY <2>2, <3>1, LeaseStepMoves DEF MayBeBusy
    <3>2. CASE b = c /\ pc[c] = "finally"
      <4>1. op[c].kind = "markIdle" /\ op[c].sid = s /\ op[c].dev = d
        BY <2>1, <2>2, <3>2 DEF Calling, CallingBy, Inv, SessionLockHeldByHolder
      <4>2. lpc[c] \in {"mkdir", "load", "persist", "threw"}
        BY <2>2, <3>2 DEF MayBeBusy
      <4>3. CASE L!TakeLock(c) \/ L!RetryLock(c) \/ L!GiveUpLock(c)
        BY <3>2, <4>2, <4>3, CoordinatorFacts
        DEF L!TakeLock, L!RetryLock, L!GiveUpLock, L!Move, L!TypeOK, MayBeBusy
      <4>4. CASE L!Load(c)
        <5>1. L!Visible(d) = lease[d] /\ ~L!OwnedByAnother(lease[d], op[c].sid)
          BY <1>2, <4>1 DEF L!Visible, L!OwnedByAnother
        <5> QED
          BY <1>2, <3>2, <4>1, <4>4, <5>1, CoordinatorFacts
          DEF L!Load, L!Move, L!TypeOK, MayBeBusy
      <4>5. CASE L!Persist(c)
        <5>1. lease'[d].state = "leased"
          BY <4>1, <4>5, CoordinatorFacts DEF L!Persist, L!Written, L!TypeOK
        <5> QED
          BY <5>1
      <4> QED
        BY <4>1, <4>2, <4>3, <4>4, <4>5
        DEF L!LeaseStep, L!Unlock, L!CheckOwner, L!Evict, L!Reload, L!NextStale, L!NoMoreStale,
            L!ReleaseLoad, L!ReleaseUnlink, L!Move
    <3> QED
      BY <3>1, <3>2
  <2> QED
    BY <1>2, <2>2 DEF BusyInv
<1> QED
  BY <1>1, <1>2, BusyWrite

LEMMA BusyStep ==
  ASSUME Inv, Calling, LP!Inv, BusyInv, [Next]_vars
  PROVE  BusyInv'
<1>1. ASSUME NEW c \in Calls, HandlerStep(c) \/ Call(c)
      PROVE  BusyInv'
  BY <1>1, BusyHandler
<1>2. ASSUME NEW c \in Calls, L!LeaseStep(c), UNCHANGED callVars
      PROVE  BusyInv'
  BY <1>2, BusyLeaseStep
<1>3. CASE UNCHANGED <<lease, lpc, callVars>>
  BY <1>3 DEF BusyInv, MayBeBusy, callVars
<1>4. ASSUME NEW h \in Crashing, Crash(h)
      PROVE  BusyInv'
  <2>1. ASSUME NEW d \in Devices, lease[d] # None, lease[d].state = "busy"
        PROVE  \/ sessionLock'[lease[d].owner] = Orphan
               \/ \E b \in Calls : /\ sessionLock'[lease[d].owner] = b
                                   /\ on'[b].dev = d
                                   /\ MayBeBusy(b)'
    <3>1. lease[d].owner \in Sessions
      BY <2>1, CoordinatorFacts DEF L!TypeOK, L!Lease
    <3>2. CASE sessionLock[lease[d].owner] = Orphan
      BY <1>4, <3>1, <3>2 DEF Crash
    <3>3. ASSUME NEW b \in Calls, sessionLock[lease[d].owner] = b, on[b].dev = d, MayBeBusy(b)
          PROVE  \/ sessionLock'[lease[d].owner] = Orphan
                 \/ sessionLock'[lease[d].owner] = b /\ on'[b].dev = d /\ MayBeBusy(b)'
      BY <1>4, <3>1, <3>3 DEF Crash, L!CrashLease, L!Forget, MayBeBusy
    <3> QED
      BY <2>1, <3>2, <3>3 DEF BusyInv
  <2>2. UNCHANGED lease
    BY <1>4 DEF Crash, L!CrashLease
  <2> QED
    BY <2>1, <2>2 DEF BusyInv
<1> QED
  BY <1>1, <1>2, <1>3, <1>4 DEF Next, CallStep, Tick, L!Tick, vars, leaseVars

LEMMA BusyHolds == Spec => [](Inv /\ LP!Inv /\ Calling /\ BusyInv)
<1>1. Init => Calling /\ BusyInv
  BY DEF Init, L!LeaseInit, L!NoOp, Calling, CallingBy, BusyInv
<1>2. Inv /\ LP!Inv /\ Calling /\ BusyInv /\ [Next]_vars => Calling' /\ BusyInv'
  BY CallingInv, BusyStep
<1> QED
  BY <1>1, <1>2, InvHolds, LeaseInvHolds, PTL DEF Spec

\* The finally clause of runExclusive marks the lease idle before the rm: no
\* schedule, timeout, exception or crash leaves a busy lease to a session whose
\* lock is free.
THEOREM BusyCorrect == Spec => []BusyOnlyWhileLocked
<1>1. Inv /\ BusyInv => BusyOnlyWhileLocked
  BY DEF BusyInv, BusyOnlyWhileLocked
<1> QED
  BY <1>1, BusyHolds, PTL

-----------------------------------------------------------------------------
(* A record is closed exactly when its timeline says so. *)

\* The handlers write no record but the fresh one of start_session.
LEMMA ClosedHandler ==
  ASSUME Inv, ClosedInv, NEW c \in Calls, HandlerStep(c) \/ Call(c)
  PROVE  ClosedInv'
<1> HandlerType
  BY DEF Inv
<1> USE DEF HandlerType, RecordTypeOK
<1>1. CASE StartPersist(c)
  <2>1. on[c].sid \in Sessions /\ on[c].dev \in Devices
    BY <1>1 DEF StartPersist, From, Inv, Aimed, AimedBy
  <2>2. PICK r : /\ record' = [record EXCEPT ![on[c].sid] = r]
                 /\ r = With([closed |-> FALSE, device |-> on[c].dev, timeline |-> {}],
                             "session_started")
    BY <1>1 DEF StartPersist, PersistStarted
  <2>3. ~r.closed /\ "session_ended" \notin r.timeline
    <3> DEFINE fresh == [closed |-> FALSE, device |-> on[c].dev, timeline |-> {}]
    <3>1. fresh \in Record
      BY <2>1 DEF Record
    <3>2. /\ With(fresh, "session_started").closed = fresh.closed
          /\ With(fresh, "session_started").timeline
               = fresh.timeline \cup ({"session_started"} \cap TrackedEvents)
      BY <3>1, WithType
    <3> QED
      BY <2>2, <3>2
  <2>4. UNCHANGED <<rpc, rbuf>>
    BY <1>1 DEF StartPersist, PersistStarted
  <2> QED
    BY <2>1, <2>2, <2>3, <2>4 DEF ClosedInv, ClosedIffEnded
<1>2. CASE (\E s \in Sessions, e \in Events : EnterStore(c, s, e)) \/ LeaveStore(c)
  BY <1>2 DEF EnterStore, LeaveStore, ClosedInv, ClosedIffEnded
<1>3. CASE UNCHANGED recordVars
  BY <1>3 DEF recordVars, ClosedInv, ClosedIffEnded
<1> QED
  BY <1>1, <1>2, <1>3, StoreUse

\* What is loaded is consistent; ending adds the event and closes, appending
\* does neither.
LEMMA ClosedStore ==
  ASSUME "session_ended" \in TrackedEvents, Inv, ClosedInv, NEW c \in Calls, RecordStep(c)
  PROVE  ClosedInv'
<1> HandlerType /\ StoringBy(c)
  BY DEF Inv, Storing
<1> USE DEF HandlerType, RecordTypeOK
<1>1. CASE LoadRecord(c)
  <2>1. rop[c].sid \in Sessions
    BY <1>1 DEF LoadRecord, StoringBy
  <2> QED
    BY <1>1, <2>1 DEF LoadRecord, ClosedInv, ClosedIffEnded
<1>2. CASE WriteRecord(c)
  <2> DEFINE next == With(rbuf[c], rop[c].event)
  <2>1. /\ rop[c].sid \in Sessions /\ rbuf[c] \in Record
        /\ rbuf[c].closed <=> "session_ended" \in rbuf[c].timeline
    BY <1>2 DEF WriteRecord, StoringBy, ClosedInv
  <2>2. /\ next \in Record /\ [next EXCEPT !.closed = TRUE] \in Record
        /\ next.closed = rbuf[c].closed
        /\ next.timeline = rbuf[c].timeline \cup ({rop[c].event} \cap TrackedEvents)
    BY <2>1, WithType
  <2>3. PICK r \in Record : /\ record' = [record EXCEPT ![rop[c].sid] = r]
                            /\ r = IF rop[c].event = "session_ended"
                                   THEN [next EXCEPT !.closed = TRUE] ELSE next
    BY <1>2, <2>2 DEF WriteRecord
  <2>4. r.closed <=> "session_ended" \in r.timeline
    <3>1. CASE rop[c].event = "session_ended"
      BY <2>2, <2>3, <3>1 DEF Record
    <3>2. CASE rop[c].event # "session_ended"
      BY <2>1, <2>2, <2>3, <3>2
    <3> QED
      BY <3>1, <3>2
  <2>5. /\ \A b \in Calls : rpc'[b] = "write" => b # c /\ rpc[b] = "write"
        /\ \A b \in Calls \ {c} : rbuf'[b] = rbuf[b]
    BY <1>2 DEF WriteRecord
  <2> QED
    BY <2>1, <2>3, <2>4, <2>5 DEF ClosedInv, ClosedIffEnded
<1> QED
  BY <1>1, <1>2 DEF RecordStep

\* Unsynchronized writers lose each other's updates, but whole records at a
\* time: closed flag and session_ended are never torn apart.
THEOREM ClosedCorrect ==
  ASSUME "session_ended" \in TrackedEvents
  PROVE  Spec => []ClosedIffEnded
<1>1. Init => ClosedInv
  BY DEF Init, RecordInit, ClosedInv, ClosedIffEnded
<1>2. Inv /\ ClosedInv /\ [Next]_vars => ClosedInv'
  <2> SUFFICES ASSUME Inv, ClosedInv, [Next]_vars PROVE ClosedInv'
    OBVIOUS
  <2>1. CASE UNCHANGED recordVars
    BY <2>1 DEF recordVars, ClosedInv, ClosedIffEnded
  <2>2. ASSUME NEW h \in Crashing, Crash(h)
        PROVE  ClosedInv'
    BY <2>2 DEF Crash, CrashRecords, ClosedInv, ClosedIffEnded, Inv, HandlerType, RecordTypeOK
  <2> QED
    BY <2>1, <2>2, ClosedHandler, ClosedStore DEF Next, CallStep, Tick, vars
<1>3. ClosedInv => ClosedIffEnded
  BY DEF ClosedInv
<1> QED
  BY <1>1, <1>2, <1>3, InvHolds, PTL DEF Spec

=============================================================================
