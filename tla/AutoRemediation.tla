-------------------------- MODULE AutoRemediation --------------------------
(***************************************************************************)
(* perform_action_with_evidence with autoRemediate                         *)
(* (mcp-server/src/tools/perform-action-with-auto-remediation.ts).         *)
(*                                                                         *)
(* The tool is a task of runExclusive like any other.  When its action     *)
(* fails it may call one recovery tool, and index.ts hands it the wrapped  *)
(* tool: the recovery is a session-bound call of its own, made inside the  *)
(* task of another, on the same session and in the same process.           *)
(***************************************************************************)
EXTENDS SessionOrchestration

ASSUME CallNoneAssumption == None \notin Calls

VARIABLES
  stage,  \* how far the remediation in a call's task has come
  inner   \* the recovery call a task is waiting for

remVars == <<stage, inner>>
allVars == <<vars, remVars>>

\* From the trigger event to the final event or the exception.
Stages == {"none", "triggered", "recovering", "recovered", "settled", "threw"}

RemTypeOK ==
  /\ TypeOK
  /\ stage \in [Calls -> Stages]
  /\ inner \in [Calls -> Calls \cup {None}]

RemInit ==
  /\ Init
  /\ stage = [c \in Calls |-> "none"]
  /\ inner = [c \in Calls |-> None]

-----------------------------------------------------------------------------

Nested(b) == \E c \in Calls : inner[c] = b

\* The action failed, none of the early stops applies, and the trigger event
\* goes to the session record.
Trigger(c) ==
  /\ stage[c] = "none" /\ ~Nested(c)
  /\ TaskWrites(c)
  /\ stage' = [stage EXCEPT ![c] = "triggered"]
  /\ UNCHANGED inner

\* Weak attribution, or no recovery that may be tried: the final event.
StopUnrecovered(c) ==
  /\ stage[c] = "triggered"
  /\ TaskWrites(c)
  /\ stage' = [stage EXCEPT ![c] = "settled"]
  /\ UNCHANGED inner

\* An explain, compare, rank or suggest tool throws.
ExplainThrows(c) ==
  /\ pc[c] = "run" /\ stage[c] = "triggered"
  /\ stage' = [stage EXCEPT ![c] = "threw"]
  /\ UNCHANGED <<vars, inner>>

\* Slip: the recovery tool runs as if the lock were its own.
RecoverReentrant(c, b) ==
  /\ pc[c] = "run" /\ stage[c] = "triggered"
  /\ From(b, "idle") /\ Goto(b, "run")
  /\ HostOf[b] = HostOf[c]
  /\ Aim(b, on[c].sid, on[c].dev)
  /\ stage' = [stage EXCEPT ![c] = "recovering"]
  /\ inner' = [inner EXCEPT ![c] = b]
  /\ UNCHANGED <<recordVars, leaseVars, sessionLock, attempts>>

\* recover_to_known_state or replay_last_stable_path, awaited inside the task.
Recover(c, b) ==
  /\ pc[c] = "run" /\ stage[c] = "triggered"
  /\ HostOf[b] = HostOf[c]
  /\ CallTool(b, on[c].sid)
  /\ stage' = [stage EXCEPT ![c] = "recovering"]
  /\ inner' = [inner EXCEPT ![c] = b]

\* The recovery call ends.  The summary the task goes on to read is only there
\* when the recovery tool itself ran: a result of the wrapper has none.
RecoveryEnds(c, b) ==
  /\ inner[c] = b
  /\ CallStep(b) /\ pc'[b] = "idle"
  /\ \E st \in {"recovered", "threw"} :
       /\ st = "recovered" => pc[b] \in {"bare", "bareEvidence", "unlock"}
       /\ stage' = [stage EXCEPT ![c] = st]
  /\ inner' = [inner EXCEPT ![c] = None]

\* succeeded or stopped: the final event of a remediation that recovered.
Settle(c) ==
  /\ stage[c] = "recovered"
  /\ TaskWrites(c)
  /\ stage' = [stage EXCEPT ![c] = "settled"]
  /\ UNCHANGED inner

\* Slip: the recovery is not awaited.
ProceedUnawaited(c) ==
  /\ CallStep(c)
  /\ pc[c] = "run" /\ stage[c] # "none" => MarkIdle(c)
  /\ Nested(c) => pc'[c] # "idle"
  /\ stage' = [stage EXCEPT ![c] = IF pc'[c] \in {"run", "write"} THEN @ ELSE "none"]
  /\ UNCHANGED inner

\* Any other step of a call.  A task that began a remediation waits for its
\* recovery, or stops where the audit record is missing, and then is over; a call
\* whose task is over has no stage any more.
Proceed(c) ==
  /\ CallStep(c)
  /\ pc[c] = "run" /\ stage[c] # "none" =>
       MarkIdle(c) /\ stage[c] # "recovering"
  /\ Nested(c) => pc'[c] # "idle"
  /\ stage' = [stage EXCEPT ![c] = IF pc'[c] \in {"run", "write"} THEN @ ELSE "none"]
  /\ UNCHANGED inner

RemStep(c) ==
  \/ Proceed(c)
  \/ Trigger(c) \/ StopUnrecovered(c) \/ ExplainThrows(c) \/ Settle(c)
  \/ \E b \in Calls : Recover(c, b)
  \/ \E p \in Calls : RecoveryEnds(p, c)

RemCrash(h) ==
  LET gone == {c \in Calls : HostOf[c] = h}
  IN  /\ Crash(h)
      /\ stage' = [c \in Calls |-> IF c \in gone THEN "none" ELSE stage[c]]
      /\ inner' = [c \in Calls |-> IF c \in gone THEN None ELSE inner[c]]

RemNext ==
  \/ \E c \in Calls : (Call(c) /\ UNCHANGED remVars) \/ RemStep(c)
  \/ Tick /\ UNCHANGED remVars
  \/ \E h \in Crashing : RemCrash(h)

RemSpec == RemInit /\ [][RemNext]_allVars

\* Every call keeps running, as in SessionOrchestration.
RemFairSpec ==
  RemSpec /\ \A c \in Calls : WF_allVars(RemStep(c)) /\ SF_allVars(MarkIdle(c) /\ Proceed(c))

-----------------------------------------------------------------------------
(* Properties. *)

\* Calls inside calls change nothing for the scheduler, the store and the
\* coordinator: whatever remediation does is what tool calls do anyway.
ImplementsOrchestration == Spec

\* A recovery never gets into runExclusive's section: the task that waits for
\* it has the session's lock.  It can only run when the session was closed
\* under the task, and then with no lock at all.
RecoveryStaysOutside ==
  \A c \in Calls : inner[c] # None => ~Exclusive(inner[c])

\* A task is never over while its recovery still works on the session.
TaskOutlivesRecovery ==
  \A c \in Calls : inner[c] # None =>
    /\ pc[c] = "run" /\ pc[inner[c]] # "idle"
    /\ on[inner[c]].sid = on[c].sid

-----------------------------------------------------------------------------
(* What a test of the repository says and the code does not do. *)

\* A recovery that is tried gets to run (auto-remediation.test.ts, whose
\* recovery tools are stubs without the wrapper).
RecoveryGetsItsTurn ==
  [][\A c \in Calls : inner[c] # None /\ pc[inner[c]] = "lock" /\ pc[c] = "run" /\ pc'[c] = "run"
                        => pc'[inner[c]] # "idle"]_allVars
=============================================================================
