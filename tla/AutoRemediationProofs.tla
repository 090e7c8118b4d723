----------------------- MODULE AutoRemediationProofs -----------------------
(***************************************************************************)
(* Proofs about AutoRemediation, for any calls, processes, sessions and    *)
(* devices.  A remediation's steps are steps of SessionOrchestration, so   *)
(* its session lock names its holder here too; the rest is who waits for   *)
(* whom (Waiting).                                                         *)
(***************************************************************************)
EXTENDS AutoRemediation, SessionOrchestrationProofs

\* A task that waits for a recovery waits for one of its own.
WaitingBy(c) ==
  /\ inner[c] # None =>
       stage[c] = "recovering" /\ inner[c] # c /\ HostOf[inner[c]] = HostOf[c]
  /\ \A d \in Calls : inner[c] # None /\ inner[d] = inner[c] => d = c

Waiting ==
  /\ stage \in [Calls -> Stages]
  /\ inner \in [Calls -> Calls \cup {None}]
  /\ \A c \in Calls : WaitingBy(c)
  /\ TaskOutlivesRecovery

USE CallNoneAssumption

-----------------------------------------------------------------------------
(* Remediation takes no step that tool calls do not take. *)

LEMMA RemStepIsStep ==
  ASSUME Inv, NEW c \in Calls, RemStep(c)
  PROVE  \/ \E b \in Calls : Call(b) \/ CallStep(b)
         \/ UNCHANGED vars
<1>1. CASE Proceed(c) \/ Trigger(c) \/ StopUnrecovered(c) \/ Settle(c)
  BY <1>1 DEF Proceed, Trigger, StopUnrecovered, Settle, CallStep, HandlerStep
<1>2. CASE ExplainThrows(c)
  BY <1>2 DEF ExplainThrows
<1>3. ASSUME NEW b \in Calls, Recover(c, b)
      PROVE  Call(b)
  <2>1. on[c].sid \in Sessions
    BY <1>3 DEF Recover, Inv, Aimed, AimedBy
  <2> QED
    BY <1>3, <2>1 DEF Recover, Call
<1>4. ASSUME NEW p \in Calls, RecoveryEnds(p, c)
      PROVE  CallStep(c)
  BY <1>4 DEF RecoveryEnds
<1> QED
  BY <1>1, <1>2, <1>3, <1>4 DEF RemStep

LEMMA RemNextIsNext ==
  ASSUME Inv, [RemNext]_allVars
  PROVE  [Next]_vars
<1>1. ASSUME NEW c \in Calls, RemStep(c)
      PROVE  [Next]_vars
  BY <1>1, RemStepIsStep DEF Next
<1>2. ASSUME NEW c \in Calls, Call(c)
      PROVE  Next
  BY <1>2 DEF Next
<1>3. CASE Tick \/ UNCHANGED allVars
  BY <1>3 DEF Next, allVars
<1>4. ASSUME NEW h \in Crashing, RemCrash(h)
      PROVE  Next
  BY <1>4 DEF Next, RemCrash
<1> QED
  BY <1>1, <1>2, <1>3, <1>4 DEF RemNext

LEMMA RemInvHolds == RemSpec => []Inv
<1>1. RemInit => Inv
  BY InitInv DEF RemInit
<1>2. Inv /\ [RemNext]_allVars => Inv'
  BY RemNextIsNext, NextInv
<1> QED
  BY <1>1, <1>2, PTL DEF RemSpec

\* Every theorem about SessionOrchestration holds of calls that call others.
THEOREM RemediationRefinement == RemSpec => ImplementsOrchestration
<1>1. RemInit => Init
  BY DEF RemInit
<1>2. Inv /\ [RemNext]_allVars => [Next]_vars
  BY RemNextIsNext
<1> QED
  BY <1>1, <1>2, RemInvHolds, PTL DEF RemSpec, Spec, ImplementsOrchestration

-----------------------------------------------------------------------------
(* Who waits for whom. *)

\* A call's step moves no other call, keeps its session until its end, and a
\* running task ends only through the finally clause.
LEMMA StepOfCall ==
  ASSUME Inv, NEW b \in Calls, CallStep(b)
  PROVE  /\ \A c \in Calls \ {b} : pc'[c] = pc[c] /\ on'[c] = on[c]
         /\ pc'[b] = "idle" \/ on'[b].sid = on[b].sid
         /\ pc[b] = "run" => pc'[b] # "idle"
         /\ pc[b] # "idle" \/ pc'[b] = "idle"
<1> HandlerType
  BY DEF Inv
<1>1. CASE HandlerStep(b)
  <2>1. \A c \in Calls \ {b} : pc'[c] = pc[c] /\ on'[c] = on[c]
    BY <1>1, HandlerMoves DEF HandlerType
  <2> USE DEF HandlerType, From, Goto, Aim, Over
  <2>2. CASE StartLeased(b) \/ StartRefused(b) \/ StartPersist(b) \/ StartPersistFails(b) \/ StartUndone(b)
    BY <2>1, <2>2 DEF StartLeased, StartRefused, StartPersist, StartPersistFails, StartUndone
  <2>3. CASE EndWithoutRecord(b) \/ EndRelease(b) \/ EndReleased(b) \/ EndNotReleased(b) \/ EndAppended(b)
    BY <2>1, <2>3 DEF EndWithoutRecord, EndRelease, EndReleased, EndNotReleased, EndAppended
  <2>4. CASE RecoverTimedOut(b) \/ NoteRecovered(b) \/ AllNoted(b) \/ ResolveFails(b) \/ ResolveOpen(b)
             \/ (\E d \in Devices : ResolveBare(b, d)) \/ BareDone(b) \/ BareEvidence(b)
    BY <2>1, <2>4 DEF RecoverTimedOut, NoteRecovered, AllNoted, ResolveFails, ResolveOpen,
                      ResolveBare, BareDone, BareEvidence
  <2>5. CASE Queued(b) \/ TakeSessionLock(b) \/ RetrySessionLock(b) \/ GiveUpSessionLock(b)
             \/ MarkBusy(b) \/ LockLeaks(b) \/ RefreshHeartbeat(b) \/ RunTask(b)
    BY <2>1, <2>5 DEF Queued, TakeSessionLock, RetrySessionLock, GiveUpSessionLock,
                      MarkBusy, LockLeaks, RefreshHeartbeat, RunTask
  <2>6. CASE TaskWrites(b) \/ TaskGoesOn(b) \/ MarkIdle(b) \/ MarkedIdle(b) \/ ReleaseSessionLock(b)
    BY <2>1, <2>6 DEF TaskWrites, TaskGoesOn, MarkIdle, MarkedIdle, ReleaseSessionLock
  <2> QED
    BY <1>1, <2>2, <2>3, <2>4, <2>5, <2>6 DEF HandlerStep
<1>2. CASE UNCHANGED callVars
  BY <1>2 DEF callVars
<1> QED
  BY <1>1, <1>2 DEF CallStep

\* Nobody waits for a call that was not made, and no waiting task is one.
LEMMA IdleIsAlone ==
  ASSUME Waiting, NEW b \in Calls, pc[b] = "idle"
  PROVE  inner[b] = None /\ \A c \in Calls : inner[c] # b
BY DEF Waiting, TaskOutlivesRecovery

\* A step that moves one call and changes nobody's waiting.
LEMMA WaitingKept ==
  ASSUME Waiting, NEW b \in Calls,
         \A c \in Calls \ {b} : pc'[c] = pc[c] /\ on'[c] = on[c] /\ stage'[c] = stage[c],
         stage' \in [Calls -> Stages], UNCHANGED inner,
         inner[b] = None,
         Nested(b) => pc'[b] # "idle" /\ on'[b].sid = on[b].sid
  PROVE  Waiting'
<1> USE DEF Waiting
<1>1. ASSUME NEW c \in Calls
      PROVE  WaitingBy(c)'
  BY <1>1 DEF WaitingBy
<1>2. ASSUME NEW c \in Calls, inner[c] # None
      PROVE  pc'[c] = "run" /\ pc'[inner[c]] # "idle" /\ on'[inner[c]].sid = on'[c].sid
  <2>1. c # b /\ inner[c] \in Calls
    BY <1>2
  <2>2. pc[c] = "run" /\ pc[inner[c]] # "idle" /\ on[inner[c]].sid = on[c].sid
    BY <1>2 DEF TaskOutlivesRecovery
  <2>3. CASE inner[c] = b
    BY <2>1, <2>2, <2>3 DEF Nested
  <2> QED
    BY <2>1, <2>2, <2>3
<1> QED
  BY <1>1, <1>2 DEF TaskOutlivesRecovery

LEMMA WaitingStep ==
  ASSUME Inv, Waiting, NEW b \in Calls, RemStep(b)
  PROVE  Waiting'
<1> stage \in [Calls -> Stages] /\ inner \in [Calls -> Calls \cup {None}]
  BY DEF Waiting
<1> WaitingBy(b)
  BY DEF Waiting
<1> TaskOutlivesRecovery
  BY DEF Waiting
<1>1. CASE Proceed(b)
  <2>1. CallStep(b)
    BY <1>1 DEF Proceed
  <2>2. inner[b] = None
    BY <1>1 DEF Proceed, WaitingBy, TaskOutlivesRecovery, Stages
  <2>3. stage' \in [Calls -> Stages]
    BY <1>1 DEF Proceed, Stages
  <2>4. \A c \in Calls \ {b} : stage'[c] = stage[c]
    BY <1>1 DEF Proceed
  <2>5. UNCHANGED inner /\ (Nested(b) => pc'[b] # "idle")
    BY <1>1 DEF Proceed
  <2> QED
    BY <2>1, <2>2, <2>3, <2>4, <2>5, StepOfCall, WaitingKept
<1>2. CASE Trigger(b) \/ StopUnrecovered(b) \/ Settle(b)
  <2>1. CallStep(b) /\ pc'[b] # "idle"
    BY <1>2 DEF Trigger, StopUnrecovered, Settle, CallStep, HandlerStep, TaskWrites, Goto,
                Inv, HandlerType
  <2>2. inner[b] = None
    BY <1>2 DEF Trigger, StopUnrecovered, Settle, WaitingBy
  <2>3. stage' \in [Calls -> Stages] /\ UNCHANGED inner
    BY <1>2 DEF Trigger, StopUnrecovered, Settle, Stages
  <2>4. \A c \in Calls \ {b} : stage'[c] = stage[c]
    BY <1>2 DEF Trigger, StopUnrecovered, Settle
  <2> QED
    BY <2>1, <2>2, <2>3, <2>4, StepOfCall, WaitingKept
<1>3. CASE ExplainThrows(b)
  <2>1. inner[b] = None
    BY <1>3 DEF ExplainThrows, WaitingBy
  <2>2. stage' \in [Calls -> Stages] /\ UNCHANGED <<inner, pc, on>>
    BY <1>3 DEF ExplainThrows, Stages, vars, callVars
  <2>3. \A c \in Calls \ {b} : stage'[c] = stage[c]
    BY <1>3 DEF ExplainThrows
  <2>4. Nested(b) => pc[b] # "idle"
    BY DEF Nested, TaskOutlivesRecovery
  <2> QED
    BY <2>1, <2>2, <2>3, <2>4, WaitingKept
<1>4. ASSUME NEW r \in Calls, Recover(b, r)
      PROVE  Waiting'
  <2>1. /\ pc[b] = "run" /\ pc[r] = "idle" /\ stage[b] = "triggered"
        /\ HostOf[r] = HostOf[b] /\ b # r
    BY <1>4 DEF Recover, CallTool, From
  <2>2. inner[b] = None /\ inner[r] = None /\ \A c \in Calls : inner[c] # r
    BY <2>1, IdleIsAlone DEF WaitingBy
  <2>3. /\ stage' = [stage EXCEPT ![b] = "recovering"]
        /\ inner' = [inner EXCEPT ![b] = r]
    BY <1>4 DEF Recover
  <2>4. /\ pc' = [pc EXCEPT ![r] = "recover"]
        /\ on' = [on EXCEPT ![r] = [sid |-> on[b].sid, dev |-> None]]
    BY <1>4 DEF Recover, CallTool, Goto, Aim
  <2>5. stage' \in [Calls -> Stages] /\ inner' \in [Calls -> Calls \cup {None}]
    BY <2>3 DEF Stages
  <2>6. ASSUME NEW c \in Calls
        PROVE  WaitingBy(c)'
    BY <2>1, <2>2, <2>3 DEF WaitingBy, Waiting
  <2>7. ASSUME NEW c \in Calls, inner'[c] # None
        PROVE  pc'[c] = "run" /\ pc'[inner'[c]] # "idle" /\ on'[inner'[c]].sid = on'[c].sid
    <3> pc \in [Calls -> Points] /\ on \in [Calls -> Target]
      BY DEF Inv, HandlerType
    <3>1. CASE c = b
      BY <2>1, <2>3, <2>4, <3>1
    <3>2. CASE c # b
      <4>1. inner'[c] = inner[c] /\ inner[c] \in Calls \ {r} /\ c # r
        BY <2>2, <2>3, <2>7, <3>2
      <4>2. pc[c] = "run" /\ pc[inner[c]] # "idle" /\ on[inner[c]].sid = on[c].sid
        BY <4>1, <2>7 DEF TaskOutlivesRecovery
      <4> QED
        BY <2>4, <4>1, <4>2
    <3> QED
      BY <3>1, <3>2
  <2> QED
    BY <2>5, <2>6, <2>7 DEF Waiting, TaskOutlivesRecovery
<1>5. ASSUME NEW p \in Calls, RecoveryEnds(p, b)
      PROVE  Waiting'
  <2>1. /\ inner[p] = b /\ CallStep(b) /\ pc'[b] = "idle"
        /\ inner' = [inner EXCEPT ![p] = None]
    BY <1>5 DEF RecoveryEnds
  <2>2. stage' \in [Calls -> Stages] /\ \A c \in Calls \ {p} : stage'[c] = stage[c]
    BY <1>5 DEF RecoveryEnds, Stages
  <2>3. pc[b] # "run"
    BY <2>1, StepOfCall
  <2>4. \A c \in Calls : inner[c] = b => c = p
    BY <2>1 DEF Waiting, WaitingBy
  <2>5. ASSUME NEW c \in Calls
        PROVE  WaitingBy(c)'
    <3>1. WaitingBy(c)
      BY DEF Waiting
    <3> QED
      BY <2>1, <2>2, <3>1 DEF WaitingBy
  <2>6. ASSUME NEW c \in Calls, inner'[c] # None
        PROVE  pc'[c] = "run" /\ pc'[inner'[c]] # "idle" /\ on'[inner'[c]].sid = on'[c].sid
    <3>1. c # p /\ inner'[c] = inner[c] /\ inner[c] \in Calls
      BY <2>1, <2>6
    <3>2. pc[c] = "run" /\ pc[inner[c]] # "idle" /\ on[inner[c]].sid = on[c].sid
      BY <3>1, <2>6 DEF TaskOutlivesRecovery
    <3>3. c # b /\ inner[c] # b
      BY <2>3, <2>4, <3>1, <3>2
    <3>4. \A e \in Calls \ {b} : pc'[e] = pc[e] /\ on'[e] = on[e]
      BY <2>1, StepOfCall
    <3> QED
      BY <3>1, <3>2, <3>3, <3>4
  <2> QED
    BY <2>1, <2>2, <2>5, <2>6 DEF Waiting, TaskOutlivesRecovery
<1> QED
  BY <1>1, <1>2, <1>3, <1>4, <1>5 DEF RemStep

LEMMA WaitingNext ==
  ASSUME Inv, Waiting, [RemNext]_allVars
  PROVE  Waiting'
<1>1. ASSUME NEW b \in Calls, Call(b), UNCHANGED remVars
      PROVE  Waiting'
  <2>1. pc[b] = "idle"
    BY <1>1 DEF Call, StartSession, EndSession, CallTool, CallWithoutSession, From
  <2>2. inner[b] = None /\ ~Nested(b)
    BY <2>1, IdleIsAlone DEF Nested
  <2>3. \A c \in Calls \ {b} : pc'[c] = pc[c] /\ on'[c] = on[c]
    BY <1>1, HandlerMoves DEF Inv, HandlerType
  <2> QED
    BY <1>1, <2>2, <2>3, WaitingKept DEF remVars, Waiting
<1>2. CASE UNCHANGED <<remVars, callVars>>
  BY <1>2 DEF remVars, callVars, Waiting, WaitingBy, TaskOutlivesRecovery
<1>3. ASSUME NEW h \in Crashing, RemCrash(h)
      PROVE  Waiting'
  <2> DEFINE gone == {c \in Calls : HostOf[c] = h}
  <2>1. /\ stage' = [c \in Calls |-> IF c \in gone THEN "none" ELSE stage[c]]
        /\ inner' = [c \in Calls |-> IF c \in gone THEN None ELSE inner[c]]
        /\ pc' = [c \in Calls |-> IF c \in gone THEN "idle" ELSE pc[c]]
        /\ on' = [c \in Calls |-> IF c \in gone THEN NoTarget ELSE on[c]]
    BY <1>3 DEF RemCrash, Crash
  <2>2. stage' \in [Calls -> Stages] /\ inner' \in [Calls -> Calls \cup {None}]
    BY <2>1 DEF Waiting, Stages
  <2>3. ASSUME NEW c \in Calls
        PROVE  WaitingBy(c)'
    BY <2>1, <2>2 DEF Waiting, WaitingBy
  <2>4. ASSUME NEW c \in Calls, inner'[c] # None
        PROVE  pc'[c] = "run" /\ pc'[inner'[c]] # "idle" /\ on'[inner'[c]].sid = on'[c].sid
    <3>1. c \notin gone /\ inner'[c] = inner[c] /\ inner[c] \in Calls
      BY <2>1, <2>4 DEF Waiting
    <3>2. /\ pc[c] = "run" /\ pc[inner[c]] # "idle" /\ on[inner[c]].sid = on[c].sid
          /\ HostOf[inner[c]] = HostOf[c]
      BY <3>1, <2>4 DEF Waiting, WaitingBy, TaskOutlivesRecovery
    <3> QED
      BY <2>1, <3>1, <3>2
  <2> QED
    BY <2>2, <2>3, <2>4 DEF Waiting, TaskOutlivesRecovery
<1> QED
  BY <1>1, <1>2, <1>3, WaitingStep DEF RemNext, Tick, allVars, vars

LEMMA WaitingHolds == RemSpec => [](Inv /\ Waiting)
<1>1. RemInit => Waiting
  BY DEF RemInit, Waiting, WaitingBy, TaskOutlivesRecovery, Stages
<1>2. Inv /\ Waiting /\ [RemNext]_allVars => Waiting'
  BY WaitingNext
<1> QED
  BY <1>1, <1>2, RemInvHolds, PTL DEF RemSpec

\* The composition of all components, remediation included, is type-correct.
THEOREM RemediationTypeCorrect == RemSpec => []RemTypeOK
<1>1. TypeOK /\ Waiting => RemTypeOK
  BY DEF RemTypeOK, Waiting
<1>2. RemSpec => Spec
  BY RemediationRefinement DEF ImplementsOrchestration
<1> QED
  BY <1>1, <1>2, CompositionTypeCorrect, WaitingHolds, PTL

\* A task is never over while its recovery works on the session.
THEOREM WaitingCorrect == RemSpec => []TaskOutlivesRecovery
<1>1. Waiting => TaskOutlivesRecovery
  BY DEF Waiting
<1> QED
  BY <1>1, WaitingHolds, PTL

\* No recovery gets into the section of the task that waits for it.
THEOREM RecoveryCorrect == RemSpec => []RecoveryStaysOutside
<1>1. Inv /\ Waiting => RecoveryStaysOutside
  <2> SUFFICES ASSUME Inv, Waiting, NEW c \in Calls, inner[c] # None, Exclusive(inner[c])
               PROVE  FALSE
    BY DEF RecoveryStaysOutside
  <2>1. inner[c] \in Calls /\ inner[c] # c
    BY DEF Waiting, WaitingBy
  <2>2. pc[c] = "run" /\ on[inner[c]].sid = on[c].sid
    BY DEF Waiting, TaskOutlivesRecovery
  <2>3. on[c].sid \in Sessions
    BY <2>2 DEF Inv, Aimed, AimedBy
  <2>4. sessionLock[on[c].sid] = c /\ sessionLock[on[c].sid] = inner[c]
    BY <2>1, <2>2, <2>3 DEF Inv, SessionLockHeldByHolder, Exclusive
  <2> QED
    BY <2>1, <2>4
<1> QED
  BY <1>1, WaitingHolds, PTL
=============================================================================
