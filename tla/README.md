# A TLA+ model of mobile-e2e-mcp

mobile-e2e-mcp is an MCP server that lets an agent drive Android and iOS devices: it opens
sessions on devices, runs UI tools in them, records and replays flows, explains and repairs
failed actions, and explores an app on its own. Several server processes may share one
repository root; everything they share lies in JSON files and lock directories under it.

This directory models four parts of it. One is where processes meet: device leases, session
records, the session scheduler, and the tool calls that go through all three. The second is where
a program acts on a device it only partly sees: one action with its evidence, and the main loop of
the explorer. The third is the recorder: the shells it starts, and the way from a user's touches to
a flow that replays them. The fourth is what happens to recorded actions afterwards: checkpoint
chains, replays, previews and tasks. TLC checks the models on small instances and TLAPS proves the
safety properties of most of them for instances of any size.

Paths below are relative to `src/packages/`. `PROJECT.json` has the map from definitions to
source lines, the runs, the mutants, the findings, the hazards and the theorems.

## 1. Inventory

| component | sources | state | operations | what is hard |
|---|---|---|---|---|
| lease coordinator | `core/src/execution-coordinator.ts`, `device-lease-store.ts` | a lease file per device (`owner`, `state`, heartbeat), a second, legacy path for it, a lock directory per device | `acquireLease`, `releaseLease`, `markBusy`, `markIdle`, `refreshHeartbeat`, `recoverStaleLeases`, `withDeviceLeaseLock` | interleaved file accesses of several processes, lock time-outs, crashes under the lock, staleness judged before it is acted on |
| session records | `core/src/session-record-store.ts` | a record file per session: closed flag, timeline, latest state, an audit record | `persistStartedSession`, `persistEndedSession`, `appendSessionTimelineEvent`, `persistSessionState`, `persistInterruptionEvent` | load, change, write back with no lock: lost updates |
| session scheduler | `core/src/session-scheduler.ts` | a lock directory per session | `runExclusive` | what the `try`/`finally` covers and what it does not; waiters that time out |
| tool execution | `mcp-server/src/index.ts`, `tools/start-session.ts`, `tools/end-session.ts`, `tools/persist-session-evidence.ts` | none of its own | `start_session`, `end_session`, `withSessionExecution` around every session-bound tool | steps of the three stores in a fixed order, with nothing that makes them one step |
| auto remediation | `mcp-server/src/tools/perform-action-with-auto-remediation.ts` | timeline markers | explain, rank, suggest and run one recovery after a failed action | a tool nested in a tool of the same session |
| policy | `core/src/policy-engine.ts`, `mcp-server/src/policy-guard.ts` | none | scopes per tool, profiles, interruption plans | tables |
| action records, failure memory | `core/src/action-record-store.ts`, `failure-memory-store.ts` | a JSON file per action, a baseline and a failure index | append, list newest first, look up | what is written when of one action; unlocked read-modify-write |
| recording sessions | `core/src/recording-store.ts`, `adapter-maestro/src/recording-runtime.ts` | a record per recording, two detached shells, a raw log, a steps file | start, status, end, cancel | a process and its pid in a file are not one thing; nothing is locked |
| recorded flows | `adapter-maestro/src/recording-runtime-android.ts`, `recording-mapper.ts`, `recording-runtime-snapshot.ts` | parser and mapper state, snapshot files | parse input lines, date and scale events, choose a selector, map to steps, render | devices report touches differently; panels have their own units and clocks; snapshots are older than what they are used for |
| replay and tasks | `adapter-maestro/src/replay-*.ts`, `recovery-tools.ts`, `flow-runtime.ts`, `task-planner.ts` | action records | `replay_checkpoint_chain`, `replay_last_stable_path`, the preview of `run_flow`, `complete_task` | order of records, partial failure, what is reported of it |
| actions with evidence | `adapter-maestro/src/action-orchestrator*.ts` | timeline, baseline and record of the action | one action with retries, OCR fallback, outcome | the app moves between any two awaits; commands that worked and were reported failed |
| interruptions | `adapter-maestro/src/interruption-*.ts`, `mcp-server/src/tools/request-manual-handoff.ts` | events in the session record, a resume checkpoint | detect, resolve, resume | the screen drifts between checkpoint and resume; the action may have run already |
| UI waiting | `adapter-maestro/src/ui-stability.ts`, `ui-wait-tool.ts` | none | poll until stable or deadline | deadlines, flapping |
| explorer | `explorer/src/engine.ts` and its helpers | frame stack, page registry, state graph, failure counters | depth-first search over the pages of an app | the device may be on another page than the stack says; budgets; ends at all |
| OCR fallback | `adapter-vision/src/ocr/` | none | when OCR may be used and believed | thresholds |
| back ends, diagnostics, performance, CLI, reports, transport | the rest | none shared | wrappers around external programs, parsing, formatting | outside what TLC can say something about |

How they interact: an MCP request becomes one asynchronous call. `start_session` takes the device
lease, then writes the session record. A session-bound tool first recovers stale leases, notes
each in the record of the session that lost it, looks up its own record, and then goes through
`runExclusive`: queue event, session lock, dequeue event, lease marked busy, heartbeat, the task,
evidence into the record, lease marked idle, session lock removed. `end_session` takes no lock:
it closes the record, then releases the lease, then adds to the timeline. Every arrow in this
paragraph is an `await`, so calls of one process interleave there as calls of several do.

What makes each of them correct:

- *Leases.* Whoever is under the lock of a device is alone there; what is evicted is what was
  judged; a lease is never overwritten by another session; a stale lease is recoverable.
- *Session records.* A record is never half of two; ending a session is final.
- *Scheduler.* Tasks of a session exclude each other; the lock is given back on every way out;
  a lease is not left marked busy.
- *Tool calls.* One device, one session at a time; every call ends.
- *Remediation.* One recovery per remediation, which can run where it is called and is awaited.
- *Recording.* A shell that runs can be stopped; an ended recording stays ended; steps are the inputs,
  once and in order; the flow replays what the user did, where it was done.
- *Action.* The device is touched again only for a reason; what is kept is what is returned; a success
  has been seen.
- *Replay.* Only safe successes of the past, each at most once, where they were done; what is
  reported is what the records say. That only what lies after the checkpoint is repeated is what
  the comments say, and it is not so (`ChainAfterCheckpoint`).
- *Explorer.* The stack is one way down the app, and no circle but through a look-alike; taps only
  on the page the top frame stands for; every action is accounted for; budgets are kept; the run ends.

## 2. Modules

| module | models | builds on |
|---|---|---|
| `ExclusiveLock` | what a lock made of a directory promises, without the directory | |
| `LeaseCoordinator` | leases and lease locks; sessions only as open or not open (environment) | `ExclusiveLock` (refinement) |
| `SessionRecords` | the record store: load, then write | |
| `SessionOrchestration` | tool calls through scheduler, coordinator and store | `LeaseCoordinator`, `SessionRecords`, `ExclusiveLock` (refinement) |
| `AutoRemediation` | a task that calls a recovery tool on its own session | `SessionOrchestration` (extends it, and refines it) |
| `Explorer` | the explorer's main loop, its frame stack and the device under it | |
| `Recording` | recordings: record, shells, raw log, steps file | |
| `RecordedFlow` | from touches to the exported flow | |
| `ActionEvidence` | one `perform_action_with_evidence`, with its guards, OCR and resume | |
| `Replay` | the tools that perform several actions, over the records of a session | |
| `MC...` | one instance for TLC of each | |
| `LeaseCoordinatorProofs`, `SessionOrchestrationProofs`, `AutoRemediationProofs`, `ExplorerProofs`, `RecordingProofs`, `ActionEvidenceProofs`, `ReplayProofs`, `RecordedFlowProofs` | theorems | |

**`LeaseCoordinator`.** The files are `lease`, `legacy` and `leaseLock`; each call has a program
counter `lpc`, the function and arguments it runs (`op`), what it read last (`buf`), its failed
mkdir attempts (`tries`) and, for `recoverStaleLeases`, what is left to visit (`scan`). One action
is one file access: `TakeLock`, `RetryLock` and `GiveUpLock` are the three outcomes of an mkdir,
`Load`, `CheckOwner`, `Evict`, `Reload` and `Persist` the accesses under the lock, `Unlock` the rm
of the finally clause, `ReleaseLoad` and `ReleaseUnlink` the two accesses of `releaseLease`, which
takes no lock. The six coordinator functions differ in where `Load` sends them and in what
`Written` makes of the lease. Callers enter with `Enter`, `EnterRelease` and `EnterRecover` and take
the result with `Leave` and `NoteRecovered`; `SessionChange` is the environment opening or closing
a session between any two steps. `Visible` is the lease with the legacy path behind the primary one.

**`SessionRecords`.** `PersistStarted` overwrites the record; every other writer is `LoadRecord`
followed by `WriteRecord` of what was loaded. A record keeps its closed flag, its device and the set
of kinds of its timeline events, of which `TrackedEvents` are recorded. `writeJsonFile` writes a
temporary file and renames it, so a write is one step and a reader never sees half of one.

**`SessionOrchestration`.** `pc` is where a call is in its handler; the call moves on when the
component it awaits has returned (`LeaseReturned`, `StoreReturned`). The environment of
`LeaseCoordinator` is replaced by the record store: `sessionOpen[s]` becomes `Open(s)`. A process
(`Hosts`) crashes as a whole: its calls are gone, its files and lock directories stay, and those
directories belong to nobody (`Orphan`).

A running task may write the session record
any number of times (`TaskWrites`, `TaskGoesOn`): the state after an action, an interruption, evidence.

**`AutoRemediation`.** `performActionWithAutoRemediation` runs as such a task. `stage` says how far a
task's remediation is and `inner` which call it awaits: `Trigger` writes the trigger event, then comes
either `StopUnrecovered` with a final event, or an exception (`ExplainThrows`), or `Recover`, which is
`CallTool` by a second call of the same process on the same session, because `index.ts` hands over the
recovery tools with `withSessionExecution` around them. `RecoveryEnds` is the step that ends that call:
the task goes on with a summary only if the tool itself ran, since reading the summary of any other
answer throws. `Settle` writes the final event. `Proceed` is every other step of a call and keeps a
task waiting while its recovery is under way.

**`Explorer`.** `stack` is the stack of frames of `engine.ts`; a frame has the page it stands for
(`page`, which gives `state`), its depth and path, its cursor (`elementIndex`), the size of its
element list and of each scroll segment, the labels known to do nothing, and whether it is external.
Its `lookalike` is history, read by no action: whether an expansion ever gave it a page that shares only
the structure of its own.
`screen` is what the device shows, `currentApp` is `currentAppId`. `visited` and `count` are the page
registry, `failures` the circuit breaker, `spent` the budgeted actions, `retries` `elementRetries`, and
`sent`, `committed`, `rejected` are `transitionLifecycle`. `late` says that `timeoutMs` is over; `opts`
fixes platform and failure strategy for the run.

| actions | code (`explorer/src/engine.ts` unless named) |
|---|---|
| `Launch` | 167-327: launch, wait, register the home page, gate it |
| `FrameAligned`, `FrameResumed`, `FrameRecovered`, `FrameLost`, `Relaunch` | 360-497: the frame guard and its ways out |
| `ExpandKnown`, `ExpandGated`, `ExpandForeign`, `ExpandPage` | 506-758: a frame without elements is expanded, or left at once |
| `NextSegment`, `HorizontalProbe`, `PopFrame`, `SkipSegment`, `StartTap` | 768-943: the next element, or the end of a segment |
| `TapSucceeds`, `TapFails` | 943-1002, 1454-1463 and `tapAndWait`: attempts and retries |
| `LandExternalLink`, `LandUnexpanded`, `LandNowhere`, `LandDrifted`, `LandOnAncestor`, `LandOnChild` | 1007-1449: where a tap led |
| `Finish`, `TimeIsUp`, `Throws` | the loop's condition, the clock, a rejected call to the device |

`Reconcile` and `FindAncestor` are `frame-reconciler.ts`, `ReturnToTarget` is
`foreign-app-return.ts`, `Leave` the three places that pop a frame and go back.

What it assumes and leaves out: the device moves only when the engine acts; a page belongs to a known
app; the screen id is the page, so two pages with one hash of visible texts are one page. A page's
title, structure and app are functions of the page; what a rule says of it is a set of pages (`Gated`,
`Stateful`, `Dialogs`, `Unsafe`). How many elements sampling leaves is a choice from `Offers`. A tap
moves to some page of `Leads`, also when it fails. `navigateBack` is its outcomes (`BackReaches`): what
`verifyBackTransition` lets it report as success, the relaunch of the target app on Android, and after
a failure any page at all. Page context types play no part in keeping a scroll state here. An action
budget is one success per page and label, the default. The state graph, the failure log and the report
are results, never read by the loop, and are left out.

**`Recording`.** `record`, `shell`, `log` and `steps` are the files and processes of a recording, `call`
is what each call is doing. A start spawns the capture (`SpawnCapture`), then the snapshot loop, then
writes the record; an end kills, lists or parses events, appends the parsed ones to the raw log, writes
the steps, loads the record and writes it back; a cancel kills, loads and writes. Calls die (`Crash`),
shells do not die with them. The capture keeps its log open without `O_APPEND`, so an input made after JSON
events were appended overwrites them from the first one on, the last one it reaches in part (`UserInput`):
what is left of that line stays in the log (`torn`) and is no JSON event. An end that finds no intact JSON
line parses the whole file (`ParseRawEvents`), and the raw parsers, whose expressions are not anchored, may
take such a fragment, or a whole JSON line another end has just written, for input once more: any of them or
none, at a time that is the line's own, the start's, or later than all others (`ReadAgain`). `excused` is a
history variable: a recording is *orphaned* when a start died or threw between its shells and its record or a
dry-run end forgot the pids, *overlapped* when two ends were in flight at once, *reread* when an end took
input from what was no line of the capture. iOS recordings that are no physical device, and Android ones,
take a subset of the branches the instance takes.

**`RecordedFlow`.** `did` is what the user did and hit, the truth everything else is compared with. A
`device` says how touches and time reach the recorder: where BTN_TOUCH stands among the lines of a touch,
if it is sent (`button`; *late*, after the position, loses the point of the touch); which coordinates a
touch reports (`axes`); the largest x of the panel (`axis`), which is the screen's width or not (`OnScreen`);
and by how much its time lags (`lag`). The app shows another screen whenever it likes (`ScreenChanges`). An
action writes its lines, the parser reads them one at a time into `events`, the snapshot loop names a
snapshot and dumps the screen later. `EndCapture` is what `end_record_session` makes of the events: it dates
them (`Estimated`: the recording's start plus the distance from an uptime read later, or from the first event
when there is none), gives each the last snapshot named before that date (`Nearest`), and, when a coordinate
lies well beyond the first snapshot, takes the largest one recorded for the end of the axis and scales all
by it (`Scaled`). Then the mapper reads the events into `steps`, looking up what stands at the coordinates in
the snapshot (`Selector`), and the renderer writes `flow`. Commands carry `by`, the user actions they stand
for. Of the two axes x has values and decides what is hit; y is only known or not, and may turn the scaling on
(`beyondInY`): what the model says of x the code does to y as well, each by its own largest value.

Assumed: every dumped screen has a node with bounds, the host's clock goes on steadily, its `date` prints
milliseconds, and the device's uptime runs as fast as the host's clock from the anchor on.

**`ActionEvidence`.** `call` is one action: `pc` names the await it is at, `guard` which of the two
interruption guards runs, `did` the commands the device got and what justified a later one. Before each
read, `view` may be any state of the app that may follow (`Touched`, `AppMoves`).

| actions | code (`adapter-maestro/src/`) |
|---|---|
| `Detect`, `Dismiss`, `Verify` | `interruption-tools.ts` 267-499, before and after the action |
| `PreRead`, `Execute`, `ExecuteDry` | `action-orchestrator.ts` 331-362, `task-planner.ts` 56-142, `ui-action-tools.ts` |
| `OcrRefused`, `OcrLooks`, `OcrTap`, `OcrPost` | `action-orchestrator-ocr.ts` 100-364 |
| `PostRead`, `RetryRead`, `Refresh` | `action-orchestrator.ts` 411-674: the read loop, the verdict, one more read |
| `KeepTimeline`, `KeepBaseline`, `KeepRecord`, `Rerecord` | 769-924 and the second write of the record |
| `ResumeBefore`, `Resume`, `ResumeAfter` | `resumeInterruptedActionWithMaestro`, the drift check |

A retry reads again and does not act again. `Category`, `StepState`, `MaxAttempts` and `ShouldRetry` are
the classifiers of `action-orchestrator-model.ts` on what the model knows of a state. Whether logs
differ (`hint`), a page identity differs, OCR finds the text or a rule applies is any outcome.

**`Replay`.** `log` is the list of a session's records, newest first, and `job` the tool under way: its
plan, the results so far, what it reports in the end. A record keeps the view `before` and `after` it. A view
may have no screen id (`NoScreen`: `toScreenId` makes none of an empty title, or of one without a letter or
digit it knows), and then its screen is compared with nothing (`ScreensDiffer`). An action returns any result `ActionEvidence`
lets it return (`LiveResults`); a dry run returns what `ui-action-tools.ts` answers without a device.
`StartChain`, `ChainCheck` and `ChainStep` are `replay-chain.ts`, `StartPath` and `PathStep`
`replay_last_stable_path`, `StartFlow`, `FlowStep` and `FlowEnds` the preview, `StartTask` and
`TaskStep` `complete_task`. One tool runs at a time, as the session's lock has it (`SessionOrchestration`).

The operators whose comment begins with *Slip* are plausible mistakes in one definition, kept so
that every property can be seen to notice one. They are no part of any specification.

## 3. What is checked

| run | instance | shows |
|---|---|---|
| `LeaseSafety` | 2 calls in 2 processes, 2 sessions, 1 device, 2 lock attempts, clock 0..1, a legacy lease | lease locks exclude and implement `ExclusiveLock`; evictions and grants concern the lease that was judged; a lease changes hands only by being removed first |
| `Orchestration` | 2 calls in 2 processes that may both crash, 2 sessions, 1 device, failing record writes | session locks exclude and implement `ExclusiveLock`; a busy lease has a locked session; a record's closed flag agrees with its timeline |
| `Remediation` | 2 calls of one process that may die, failing record writes, a session that may be ended under the task, evidence writes, fairness | a recovery never enters the section of the task that waits for it, no task ends before its recovery, all calls end, remediation takes only steps of `SessionOrchestration`, and the composition drives `LeaseCoordinator` only through its own steps |
| `RecoveryWaits` | the same without fairness | the first finding of section 5 |
| `Explorer` | an app of 7 pages (a list in two states with one title, another of the same structure, an untitled page, a dialog, a foreign page), both platforms, all strategies, 3 taps | the stack stays one path, without circles but for look-alikes, first taps are aimed, actions and pages are accounted for, the run ends |
| `RecordingLife` | 2 calls, one recording of a physical iOS device, 2 inputs, crashes, a device that goes away | running shells can be stopped but for three named ways; steps are the inputs once and in order unless two ends overlap or an end takes what is left of an overwritten JSON line for input; an ended recording stays ended |
| `RecordedFlow` | 2 screens; 3 actions, 2 points, 3 kinds of device (one with a late BTN_TOUCH, one that reports y only), no snapshot but the one taken at the end; or 2 taps and drags, a panel of pixels and a clock that starts with the first event or a longer panel and a late clock, up to 3 points and 2 snapshots, one screen a dialog | the flow keeps the user's order, replays nothing twice, loses nothing without a warning, types where the user tapped, and taps what was tapped if the recording says where that was and on which screen |
| `Evidence` | actions of three kinds on an app of 9 states, dry and live, crashes | a second command has a reason, what is kept agrees with what is returned, a success was reported and seen |
| `Replay` | histories of 3 records of 4 intents, flows of 3 items, tasks of 3 steps cut at 2, 4 states of the app, one of them without a screen id | replays perform recorded safe successes only, each once and never their anchor, on the targets that were judged but for one named way, and add nothing else to the history; reports agree with records |
| `ChainAfterCheckpoint` | the same | the last finding of section 5 |
| `StartWindow`, `LockLeak` | one property each | the others |

**Bounds.** `LockAttempts` is 50 in the code and `SessionLockAttempts` 300; with 2 a waiter still
waits, tries again, succeeds late or gives up, which is all the count decides (`Orchestration` lets a
waiter for a lease lock give up at once; `LeaseSafety` and `Remediation` let it try again). Two calls and one
device are enough for every pair of functions to meet on a lease; two sessions for one to evict or
recover the other's lease. `StaleAfter` is 0 and the clock stops at `MaxClock` (0 or 1): one tick
makes a lease stale and a second adds nothing, since ages are only compared with a threshold.
`Tools` limits which handlers an instance calls, `Crashing` which processes may die, `WriteMayFail`
whether the record of a start can fail to be written, `TrackedEvents` which timeline kinds are
recorded: each run names what it needs so that the others stay small. Where symmetry is
used the run checks invariants and properties of steps, which a permutation of calls keeps, and no
liveness. Deadlock is checked except where a run really ends: the explorer's, the recorder's bounded
user, a rendered flow.

For `Explorer`, three taps (`MaxTaps`, the bound of the model) are enough to go down two levels, drift
there and come back, to overrun the page budget of 3, and for a third frame to be unwound or reset. A
threshold of 1 lets the circuit open after two taps that lead nowhere. Two segments, the second longer
than the first, reach the segment arithmetic of PAGE-SKIP. `ExternalLinkMaxDepth` is 1, so a foreign
page is expanded at depth 1 and gated below. From the home page a tap reaches the list or the foreign
page, and a way back may end anywhere, so every kind of landing, reconciliation and return occurs.

For `RecordingLife`, two inputs are what an order needs, and one recording is enough because recordings
share nothing. Its constraint `ShortLogs` stops where a log or a call has more than three JSON events, which
takes overlapping ends or a line read again, both of which excuse the recording already, and where both have
happened to it. For `RecordedFlow`, a pair of actions interacts through the tap window, the input field, the
pending touch or a text chunk, and the third shows what the pair left behind. The property about taps needs no
third action but snapshots: the action constraint `InScope` gives the late devices two taps or drags, one pause,
and two snapshots, one that shows the tapped screen and one that is newer, or older because the clock is late,
and keeps the others without. The longer panel has three times the screen's width and its points lie at 11, 33
and 100 pixels, so that without the last one the first two are taken for other elements; the dialog is narrower
than the screen, so that it misleads the scaling when it comes first. For `Evidence`, the app has one view for each class
the classifiers tell apart, rules allow 1 or 2 attempts, and all loops run to their code limits. For
`Replay`, three records are an anchor and two steps to replay in some order (a path may find two);
flows and tasks read no records and start where there are none; a task of 3 steps under `MaxSteps = 2`
is cut; of records that are no success no state is kept, for no tool reads it.

**Fairness.** `FairSpec` asks for weak fairness of `CallStep(c)`, one call's next step. A call is an
async function whose next step is a file operation or a timer of the lock's retry loop; Node.js runs
its continuation eventually, and nothing another call does can prevent it. A task may write the
record again and again, but not for ever: strong fairness of `MarkIdle(c)` says that it returns or
throws in the end, as every tool does (they have deadlines). In `RemFairSpec` the same holds of a task
that is not waiting for a recovery; one that waits ends because the recovery does. No fairness is
assumed of new calls, of the clock, or of crashes. A lock that is never released again needs none
either: its waiters give up after the last attempt.

For the explorer, `FairSpec` asks for weak fairness of `Explore`, the loop's next step, because every
call to the device ends (the adb and simctl wrappers have time limits), and of `TimeIsUp`, because the
clock goes on. `Throws` gets none. The handoff strategy retries an element for as long as it fails and
is ended by the deadline alone; that is why `Terminates` needs the clock.

## 4. What is proved

Every theorem holds for any sets of calls, processes, sessions and devices, any number of
attempts, any clock, any leases at the legacy path, and any set of crashing processes.

*Assumptions.* The named `ASSUME`s of `LeaseCoordinator`, `SessionRecords`, `SessionOrchestration`
and `AutoRemediation`: each call runs in a process, attempts are positive, legacy leases are leases,
and `None`, `Free`, `Orphan` are none of the things they stand next to. TLC evaluates all of them.

*`LeaseCoordinatorProofs`.* `TypeOK`, `LockHeldByHolder`, `EvictsWhatItJudged`, `GrantedIsOwn`,
`NoHandover`, `ImplementsLock`. The inductive invariant adds two things to the properties: `Shape`,
what a call works on and has read at each point, and `Judged`, that from the read that condemns a
lease to its unlink the file holds that lease or nothing. The last is inductive only because
`LockHeldByHolder` keeps every other writer out and because the one unlocked writer, `releaseLease`,
can only remove; hence the *or nothing* in both `EvictsWhatItJudged` and `GrantedIsOwn`.

*`SessionOrchestrationProofs`.* First an invariant of the handlers alone (`Inv`: types, what each
call is aimed at, what it has loaded, the session lock names its holder), which gives
`SessionLockHeldByHolder` and `ImplementsSessionLock`. It also gives `ImplementsCoordinator`: every
step of the composition is a step of `LeaseCoordinator` with `Open` for `sessionOpen`, or leaves it
alone. That theorem imports everything proved of the coordinator alone (`LeaseInvHolds`), from which
follow `TypeOK` of the composition and, with `BusyInv`, `BusyOnlyWhileLocked`. `BusyInv` says who is
responsible for a busy mark: the session's lock is orphaned, or its holder is between `markBusy` and
the write of `markIdle` on that very device. `ClosedInv` carries `ClosedIffEnded` through the loaded
copies; it needs `session_ended` to be a tracked kind.

*`AutoRemediationProofs`.* `RemediationRefinement` shows every step of a remediation to be a step of
`SessionOrchestration`, so all of the above holds with calls inside calls, `TypeOK` among it
(`RemediationTypeCorrect`). `Waiting` adds who waits for whom: a call is awaited by at most one task,
never by itself, always of its own process (so a crash takes both), and its task is at `recovering`.
`TaskOutlivesRecovery` is inductive only with those. `RecoveryStaysOutside` then follows from it and
`SessionLockHeldByHolder`: the lock directory of a session cannot name both the task and its recovery.
That is the scheduler doing its work, and also why `RecoveryWaits` fails.

*`ExplorerProofs`.* For any finite or infinite set of pages, any titles, structures and links between
them, any limits and options that satisfy `PagesAssumption` and `LimitsAssumption`. `DescentInv` is
`TypeOK`, a good stack (`StackIsPath` and `NoCycle`) and `Aligned`, that the screen passes for the top
frame's page from the frame guard to the first tap. `NoCycle` has no hypothesis on the app. It
excepts the frames that are known to break it: an expansion gives the frame the page of the screen, and
the frame guard lets a page pass that has only the structure of the frame's own in common with it
(`hashUiStructure` ignores texts), which may be a page of a frame below. Such a frame is a `lookalike`.
An expansion without one gives a page or title the frame already had. Pushing a child is safe because
`FindAncestor` found nothing; unwinding because it returns the topmost match, which is a look-alike or
has nothing of the page below it, and below a match by title there is no match by page. That a topmost
match exists is `TopmostIsMax`, from the well-foundedness of proper inclusion on finite sets.
`TransitionsAccounted` is inductive with the types; `PagesWithinLimit` needs `Budget`, which counts the
entries an iteration has made at each `pc`.

*`RecordingProofs`.* For any calls, recordings and number of inputs. Nothing is locked, so the argument
is about who may be in flight: while a start is between its id and its record no other call knows the
id (`StartAlone`), and a call that closes a recording has stopped its shells before it can clear the
pids (`EndersStopped`), unless the recording is excused. `StrayShellsExplained` follows. For the order of steps `LogsInOrder` says that
the raw log holds the inputs as they came and, unless ends overlapped or one read a line again, that its JSON
events and what each end has read carry their own times and are strictly increasing, and that an end that
parses found no JSON events. Nothing is asked of `torn`: what is left of a line does no harm until an end reads
it, and that end excuses the recording. It rests on sequence lemmas (`SortedIncreasing`: a sorted permutation of
an increasing sequence is that sequence; `TailIncreasing`: so is what overwriting leaves). `NeverRunsAgain`
holds of any stale image a call may write back, because `Patched` clears the pids whatever it loaded.

*`ActionEvidenceProofs`.* For any app, intents, targets of OCR, interruptions and rule attempts. None of the
four properties is inductive: they speak of an action that ended, or of all it did. `Inv` says what is
known at each await: the counters of the loop under way (`Counted`), what has been kept so far and that a
verdict stands as soon as anything is kept (`Keeping`), what stands behind a success (`Earning`, with
`Ready` before a verdict is taken and `Decided` after) and that whoever may touch the device next has a
reason since its last touch (`MayAct`, in `Acting`). The classifiers come first, as lemmas about the
record they return (`JudgedFacts`, `SettledFacts`, `FirstJudgedFacts`), so that a step of `Next` never
expands them; then `JudgingGood`, `ConcludedGood`, `RetryGood` and `AfterGood` say for one phase each
what a record needs to satisfy `Inv`, and each action has one lemma that supplies it. The one assumption is
`EvidenceAssumption`: there is an intent, waits and launches are distinct, rules allow one to three
attempts, and what a dry run reads neither interrupts nor asks for a handoff.

*`ReplayProofs`.* For any intents, views, screens and bounds that satisfy `ReplayAssumption`. `ReplaysOnlySafe`
and `ReportsAreTrue` are not inductive: the second speaks of tools that are done, and neither says where the
records are that a plan points to. `IInv` has a part for the records (`LogInv`), one for the shape of a tool
under way (`JobInv`) and one each for replays, chains, tasks and flows, which says after every single action
how many records the tool has added and what they have to do with its results. Two lemmas carry the rest:
`LoggedStep`, that an action puts at most one record in front of the others, so that each id still finds its
record, and `SelectionsKeepOrder`, that `filter` keeps the order of a list. What is proved does not depend on
the side of the anchor a chain's records lie on: the anchor itself is never replayed (`LastStableCheckpoint`
only puts it into the list), sources are distinct because positions are, a step's target is traced to its
record (`AimedLike`), and every added record is traced to the step it was made for, by intent and target.
Screens are compared only where both have an id, so that is all `ReportsAreTrue` says of them.

*`RecordedFlowProofs`.* For any screens, elements, panels, clocks, gaps and bounds that satisfy
`FlowAssumption`. The recorder is three loops, each of which reads the list the one before has made, and the
properties speak of the last list only. `IInv` therefore has a part for each phase (`CaptureInv`, `MapInv`,
`RenderInv`), and each part says of *what has been made and what is left to read* together what a property
says of the flow: what is left stems from later actions (`FlowInOrder`); each action is in one of the two, or
warned about (`NothingLostSilently`); a tap's event, still in the panel's units, lies where its pixel hit the
tapped element, and after `EndCapture` the lookup finds that element if the recording is sure of it (`Sure`,
in `SeenRightly` and `RightElement`); and between a text and the tap its field comes from there are only keys
and touches that are warned about, or will be when the renderer finds them without a position
(`TypedWhereTapped`). The last is the delicate one: `FieldTapped` must say it of the text that has not come
yet, `Typed` of steps, `ToType` of steps whose tap may already be a command, `Focused` of commands. In the
capture phase the argument is who ends a touch: before its event is read the touch is active or about to begin
(`TouchUnderWay`), after it at most the lift of the slot is left and finds it inactive (`TouchOver`).

What `EndCapture` does to coordinates and times is three lemmas. `FarthestReached` and `ScaledRightly`: if a
touch reached the far end of the axis and the first snapshot fills the screen, the factor the recorder takes is
the panel's own, and on a panel of pixels it takes none. `NearestSeen`: an estimated time is between the real
one less the lag and the real one (`Dated`), so the snapshot chosen is one of those `ScreenIsKnown` speaks of.

Only model-checked: `EveryCallEnds` and `Terminates`, which are liveness. The properties of section 5 are
false.

## 5. Findings

Each is a run that finds a schedule in which the code does not do what the repository says.

- `RecoveryWaits`: a recovery called from inside `runExclusive` waits for the lock its own caller
  holds, gives up and throws; the triggered remediation never gets its final event. The tests pass
  recovery tools without the session wrapper.
- `StartWindow`: between `acquireLease` and `persistStartedSession` a lease has no record behind it,
  so another `start_session` evicts it, both go on, and tools of both run on the device at once.
- `LockLeak`: a lease-lock time-out in `markBusy` or `markIdle` skips `lock.release()`.
- `ChainAfterCheckpoint`: records are listed newest first, so the search from the end of the list for "the last
  (most recent) stable checkpoint" finds the oldest one, and "all actions AFTER the anchor" are those before it
  in time, newest first. The chain repeats what led up to the checkpoint.

Seen while modelling, with no run of their own.

*Leases and scheduler.* A writer that loaded the record before `end_session` writes all of it back
afterwards, and the session is open again (`session-record-store.ts` 422). `runExclusive` ignores the
answers of `markBusy` and `refreshHeartbeat`, so a tool may run in a session whose lease has been
recovered. `releaseLease` reads and unlinks without the lock and can unlink a lease another session has acquired in between. `removeLease` unlinks only the
primary path, so a stale lease at the legacy path is reported as recovered and stays.
`persistSessionEvidenceCapture` reads the state summary before `persistSessionState` loads the record
again, and may write back an older one.

*Explorer.* The frame guard may relaunch the app, find the home page, log that it continues, and pop the
home frame: the exploration is over, and not reported as aborted. PAGE-SKIP sets the cursor to the
length of the first segment, a step back in a longer later one. The circuit breaker counts failed
elements where the plan speaks of failed pages. A failed tap that moved the device is retried where it is
now, since only the first tap is aimed (the comment at `engine.ts` 1465 says it did not navigate).
Reconciliation clears `isExternalApp` also on a foreign frame, which is then left by the ordinary way back.

*Recorder.* A dry-run end stops nothing and forgets the pids (`recording-runtime.ts` 656). A snapshot is
named by the time before its dump, so the screen in it may be one a later action led to. A fragment of a JSON
line that the capture overwrote may be read as input by the next end, with another time. The largest coordinate
recorded is taken for the end of the panel's axis (`recording-runtime-snapshot.ts` 218): on a panel whose units
are not pixels, a recording whose touches stay clear of the far edge is stretched, and its taps may be given
other elements. The anchor of event times is read after `startedAt` was, so events are dated too early and may
be given the snapshot before the one that shows their screen. `ScaleIsKnown` and `ScreenIsKnown` are the
conditions under which neither happens.

*Actions.* The read after the verdict (`Refresh`) may show a terminal state and the action is still a
success: hence the clause about `refreshed` in `SuccessIsEarned`. A resume on another screen than the
mark fails, also when the action it repeated was a navigation that worked. A process that dies after the
baseline entry leaves it without a record.

*Replay.* Where one of two screens has no id nothing is compared, and a chain may be full although the app ended
on another screen. A record without a resource id is replayed with the id of the screen it led to as its target,
and the risk check has only seen the record: a tap that opened a checkout becomes a tap on that checkout, in a
chain of "low-risk actions" (`mcp-server/src/index.ts` 994); `ReplaysOnlySafe` names it as the one way a target
escapes the check. Dry-run successes are recorded like others and may be replayed by `replay_last_stable_path`. A
preview stops at its first tap, since dry taps answer `partial`, and then writes `replay_completed` after
`replay_stopped`. Items of a flow that are no maps leave gaps in the step numbers,
while the remaining numbers are counted without gaps: the numbers of the gaps stay remaining for ever. `complete_task`'s answer of an
incomplete success with the reason `timeout` cannot be reached, nor can the coordinate-tap branch of the
step orchestrator.

## 6. Not modelled

Redaction, formatting, parsing of tool output, configuration, transport, reports and the wrappers
around external programs: no state is shared there and no order of steps matters; what they answer is any
outcome in the modules that call them. File-system errors other than EEXIST and ENOENT and unparseable
files. What a tool's task does to the device is `ActionEvidence`'s and `Explorer`'s subject and opaque in
`SessionOrchestration`. `recover_to_known_state` makes no records and is only a call in
`AutoRemediation`. The real run of a flow is a shell script; only its preview is in `Replay`. UI waiting is
one read of `ActionEvidence`. The failure index (`failure-memory-store.ts`), read, extended and written
back with no lock, loses concurrent entries; no property would hold of it. Policies are tables over tool
names. `PROJECT.json` lists every component with its status.

## 7. Plan

Done: leases, records, scheduler and tool calls; remediation; the explorer's main loop; recordings and
their flows; actions with evidence, interruptions among them; replay and tasks. Next, in order:

1. The iOS log parser in `RecordedFlow`, and values on both axes.
2. State summaries and artifact lists in the session record.
3. The rest of the explorer: back-strategy ladders with their caches, scroll restoration step by step.
4. The UI stability loop with its deadline, and policies as pure operators against reference tables.
