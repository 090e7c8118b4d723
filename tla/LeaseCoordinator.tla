------------------------- MODULE LeaseCoordinator -------------------------
(***************************************************************************)
(* Device leases: core/src/execution-coordinator.ts over                   *)
(* core/src/device-lease-store.ts.                                         *)
(*                                                                         *)
(* A lease is a JSON file per device.  Every coordinator function but one  *)
(* runs between an mkdir and an rm of a lock directory of that device;     *)
(* releaseLease alone reads and unlinks with no lock.  The callers are     *)
(* tool invocations in flight, several to an OS process (Hosts), and every *)
(* await between two file accesses is a step of its own here.              *)
(*                                                                         *)
(* The module knows one thing of sessions: whether a session has an open   *)
(* record.  sessionOpen belongs to the environment, and                    *)
(* SessionOrchestration substitutes the session-record store for it.       *)
(***************************************************************************)
EXTENDS Naturals

CONSTANTS
  Calls,         \* tool invocations, each one async control flow
  Sessions,
  Devices,
  Hosts,         \* OS processes sharing one repoRoot
  HostOf,        \* the process a call runs in
  LockAttempts,  \* mkdir attempts before a lease lock times out (50 in the code)
  StaleAfter,    \* the age a heartbeat may have (staleAfterMs)
  MaxClock,      \* bound: the clock stops here
  LegacyLeases,  \* leases that may lie at the legacy path when the system starts
  None,          \* no lease, no session, no device
  Free,          \* no lock directory
  Orphan         \* a lock directory whose creator is gone

Lease == [owner: Sessions, state: {"leased", "busy"}, heartbeat: Nat]

ASSUME HostAssumption == HostOf \in [Calls -> Hosts]
ASSUME LockAttemptsAssumption == LockAttempts \in Nat \ {0}
ASSUME ClockAssumption == StaleAfter \in Nat /\ MaxClock \in Nat
ASSUME LegacyAssumption == LegacyLeases \subseteq Lease
ASSUME NoneAssumption == None \notin Lease /\ None \notin Sessions /\ None \notin Devices
ASSUME LockAssumption == Free \notin Calls /\ Orphan \notin Calls /\ Free # Orphan

VARIABLES
  sessionOpen,   \* environment: does the session have an open record?
  lease,         \* the lease file of a device, at the primary path
  legacy,        \* the lease file of a device at the legacy path
  leaseLock,     \* the lock directory of a device, with the call that made it
  clock,         \* wall-clock time, in units of heartbeat age
  lpc,           \* where a call is inside the coordinator
  op,            \* the coordinator function it runs, its sessionId and deviceId
  tries,         \* mkdir attempts that failed so far
  buf,           \* the lease it read last
  scan           \* recoverStaleLeases: `now`, leases left to visit, owners removed

leaseVars == <<lease, legacy, leaseLock, clock, lpc, op, tries, buf, scan>>
vars == <<sessionOpen, lease, legacy, leaseLock, clock, lpc, op, tries, buf, scan>>

LockedKinds == {"acquire", "markBusy", "markIdle", "refreshHeartbeat"}
Kinds == LockedKinds \cup {"recover", "release", "none"}
Points == {"idle", "mkdir", "load", "owner", "evict", "reload", "persist",
           "rmGranted", "rmRefused", "next", "releaseLoad", "releaseUnlink",
           "granted", "refused", "threw"}
Returned == {"granted", "refused", "threw"}

Op == [kind: Kinds, sid: Sessions \cup {None}, dev: Devices \cup {None}]
Scan == [asOf: Nat, todo: SUBSET Devices, recovered: SUBSET Sessions]
NoOp == [kind |-> "none", sid |-> None, dev |-> None]
NoScan == [asOf |-> 0, todo |-> {}, recovered |-> {}]

TypeOK ==
  /\ sessionOpen \in [Sessions -> BOOLEAN]
  /\ lease \in [Devices -> Lease \cup {None}]
  /\ legacy \in [Devices -> LegacyLeases \cup {None}]
  /\ leaseLock \in [Devices -> Calls \cup {Free, Orphan}]
  /\ clock \in Nat
  /\ lpc \in [Calls -> Points]
  /\ op \in [Calls -> Op]
  /\ tries \in [Calls -> Nat]
  /\ buf \in [Calls -> Lease \cup {None}]
  /\ scan \in [Calls -> Scan]

LeaseInit ==
  /\ lease = [d \in Devices |-> None]
  /\ legacy \in [Devices -> LegacyLeases \cup {None}]
  /\ leaseLock = [d \in Devices |-> Free]
  /\ clock = 0
  /\ lpc = [c \in Calls |-> "idle"]
  /\ op = [c \in Calls |-> NoOp]
  /\ tries = [c \in Calls |-> 0]
  /\ buf = [c \in Calls |-> None]
  /\ scan = [c \in Calls |-> NoScan]

Init == LeaseInit /\ sessionOpen = [s \in Sessions |-> FALSE]

-----------------------------------------------------------------------------
(* Reading the store. *)

\* loadLeaseByDevice: the primary file, else the legacy one.
Visible(d) == IF lease[d] # None THEN lease[d] ELSE legacy[d]

Stale(l, now) == now > l.heartbeat + StaleAfter

OwnedByAnother(l, s) == l # None /\ l.owner # s

-----------------------------------------------------------------------------
(* Calling and returning.  What a call no longer needs it forgets. *)

AtRest(c) == lpc[c] \in Returned \cup {"idle"}

Move(c, from, to) == lpc[c] = from /\ lpc' = [lpc EXCEPT ![c] = to]

\* A call at rest enters acquireLease, markBusy, markIdle or refreshHeartbeat: each
\* starts by asking for the lock directory of the device.
Enter(c, k, s, d) ==
  /\ k \in LockedKinds
  /\ AtRest(c)
  /\ lpc' = [lpc EXCEPT ![c] = "mkdir"]
  /\ op' = [op EXCEPT ![c] = [kind |-> k, sid |-> s, dev |-> d]]
  /\ scan' = [scan EXCEPT ![c] = NoScan]
  /\ UNCHANGED <<lease, legacy, leaseLock, clock, tries, buf>>

\* releaseLease: straight to the read, no lock.
EnterRelease(c, s, d) ==
  /\ AtRest(c)
  /\ lpc' = [lpc EXCEPT ![c] = "releaseLoad"]
  /\ op' = [op EXCEPT ![c] = [kind |-> "release", sid |-> s, dev |-> d]]
  /\ scan' = [scan EXCEPT ![c] = NoScan]
  /\ UNCHANGED <<lease, legacy, leaseLock, clock, tries, buf>>

\* recoverStaleLeases fixes `now`, lists the leases and keeps the stale ones.
EnterRecover(c) ==
  /\ AtRest(c)
  /\ lpc' = [lpc EXCEPT ![c] = "next"]
  /\ op' = [op EXCEPT ![c] = [NoOp EXCEPT !.kind = "recover"]]
  /\ scan' = [scan EXCEPT ![c] =
                [asOf |-> clock,
                 todo |-> {d \in Devices : Visible(d) # None /\ Stale(Visible(d), clock)},
                 recovered |-> {}]]
  /\ UNCHANGED <<lease, legacy, leaseLock, clock, tries, buf>>

\* The caller is done with the coordinator.
Leave(c) ==
  /\ AtRest(c)
  /\ lpc' = [lpc EXCEPT ![c] = "idle"]
  /\ op' = [op EXCEPT ![c] = NoOp]
  /\ scan' = [scan EXCEPT ![c] = NoScan]
  /\ UNCHANGED <<lease, legacy, leaseLock, clock, tries, buf>>

\* The caller of recoverStaleLeases goes through the leases it recovered.
NoteRecovered(c, s) ==
  /\ lpc[c] = "granted"
  /\ s \in scan[c].recovered
  /\ scan' = [scan EXCEPT ![c].recovered = @ \ {s}]
  /\ UNCHANGED <<lease, legacy, leaseLock, clock, lpc, op, tries, buf>>

-----------------------------------------------------------------------------
(* withDeviceLeaseLock. *)

\* Slip: mkdir(..., { recursive: true }), which also succeeds on a directory
\* that exists.
TakeLockRecursive(c) ==
  /\ Move(c, "mkdir", "load")
  /\ leaseLock' = [leaseLock EXCEPT ![op[c].dev] = c]
  /\ tries' = [tries EXCEPT ![c] = 0]
  /\ UNCHANGED <<lease, legacy, clock, op, buf, scan>>

\* mkdir succeeds: the directory did not exist.
TakeLock(c) ==
  /\ Move(c, "mkdir", "load")
  /\ leaseLock[op[c].dev] = Free
  /\ leaseLock' = [leaseLock EXCEPT ![op[c].dev] = c]
  /\ tries' = [tries EXCEPT ![c] = 0]
  /\ UNCHANGED <<lease, legacy, clock, op, buf, scan>>

\* mkdir fails with EEXIST and attempts are left: sleep and try again.
RetryLock(c) ==
  /\ lpc[c] = "mkdir"
  /\ leaseLock[op[c].dev] # Free
  /\ tries[c] + 1 < LockAttempts
  /\ tries' = [tries EXCEPT ![c] = @ + 1]
  /\ UNCHANGED <<lease, legacy, leaseLock, clock, lpc, op, buf, scan>>

\* Slip: the wait is inside the try, so the finally clause removes a directory
\* that another call made.
GiveUpLockInsideTry(c) ==
  /\ Move(c, "mkdir", "threw")
  /\ leaseLock[op[c].dev] # Free
  /\ tries[c] + 1 >= LockAttempts
  /\ tries' = [tries EXCEPT ![c] = 0]
  /\ leaseLock' = [leaseLock EXCEPT ![op[c].dev] = Free]
  /\ UNCHANGED <<lease, legacy, clock, op, buf, scan>>

\* The last attempt fails: throw "Timed out acquiring device lease lock".
GiveUpLock(c) ==
  /\ Move(c, "mkdir", "threw")
  /\ leaseLock[op[c].dev] # Free
  /\ tries[c] + 1 >= LockAttempts
  /\ tries' = [tries EXCEPT ![c] = 0]
  /\ UNCHANGED <<lease, legacy, leaseLock, clock, op, buf, scan>>

\* The finally clause: rm the directory, whoever made it.
Unlock(c) ==
  /\ lpc[c] \in {"rmGranted", "rmRefused"}
  /\ leaseLock' = [leaseLock EXCEPT ![op[c].dev] = Free]
  /\ lpc' = [lpc EXCEPT ![c] = CASE op[c].kind = "recover" -> "next"
                                 [] op[c].kind # "recover" /\ lpc[c] = "rmGranted" -> "granted"
                                 [] OTHER -> "refused"]
  /\ buf' = [buf EXCEPT ![c] = None]
  /\ UNCHANGED <<lease, legacy, clock, op, tries, scan>>

-----------------------------------------------------------------------------
(* Under the lock. *)

\* Slip: recoverStaleLeases trusts the listing and does not check again.
LoadNoRecheck(c) ==
  LET l == Visible(op[c].dev)
      goal == CASE op[c].kind = "acquire" ->
                     IF OwnedByAnother(l, op[c].sid) THEN "owner" ELSE "reload"
                [] op[c].kind = "recover" -> IF l = None THEN "rmRefused" ELSE "evict"
                [] OTHER ->
                     IF l = None \/ OwnedByAnother(l, op[c].sid)
                     THEN "rmRefused" ELSE "persist"
  IN  /\ Move(c, "load", goal)
      /\ buf' = [buf EXCEPT ![c] = l]
      /\ UNCHANGED <<lease, legacy, leaseLock, clock, op, tries, scan>>

\* Slip: markBusy, markIdle and refreshHeartbeat do not ask whose lease it is.
LoadAnyOwner(c) ==
  LET l == Visible(op[c].dev)
      goal == CASE op[c].kind = "acquire" ->
                     IF OwnedByAnother(l, op[c].sid) THEN "owner" ELSE "reload"
                [] op[c].kind = "recover" ->
                     IF l = None \/ ~Stale(l, scan[c].asOf) THEN "rmRefused" ELSE "evict"
                [] OTHER -> IF l = None THEN "rmRefused" ELSE "persist"
  IN  /\ Move(c, "load", goal)
      /\ buf' = [buf EXCEPT ![c] = l]
      /\ UNCHANGED <<lease, legacy, leaseLock, clock, op, tries, scan>>

\* The first read of the lease decides where the function goes.
Load(c) ==
  LET l == Visible(op[c].dev)
      goal == CASE op[c].kind = "acquire" ->
                     IF OwnedByAnother(l, op[c].sid) THEN "owner" ELSE "reload"
                [] op[c].kind = "recover" ->
                     IF l = None \/ ~Stale(l, scan[c].asOf) THEN "rmRefused" ELSE "evict"
                [] OTHER ->
                     IF l = None \/ OwnedByAnother(l, op[c].sid)
                     THEN "rmRefused" ELSE "persist"
  IN  /\ Move(c, "load", goal)
      /\ buf' = [buf EXCEPT ![c] = l]
      /\ UNCHANGED <<lease, legacy, leaseLock, clock, op, tries, scan>>

\* Slip: the lease of a closed session is overwritten instead of removed.
CheckOwnerOverwrites(c) ==
  /\ Move(c, "owner", IF sessionOpen[buf[c].owner] THEN "rmRefused" ELSE "persist")
  /\ UNCHANGED <<lease, legacy, leaseLock, clock, op, tries, buf, scan>>

\* acquireLease reads the session record of the lease's owner: open is busy,
\* closed or missing is a lease to clear away.
CheckOwner(c) ==
  /\ Move(c, "owner", IF sessionOpen[buf[c].owner] THEN "rmRefused" ELSE "evict")
  /\ UNCHANGED <<lease, legacy, leaseLock, clock, op, tries, buf, scan>>

\* removeLease: unlink the primary file, whatever it holds by now.
Evict(c) ==
  /\ Move(c, "evict", IF op[c].kind = "acquire" THEN "reload" ELSE "rmGranted")
  /\ lease' = [lease EXCEPT ![op[c].dev] = None]
  /\ scan' = [scan EXCEPT ![c].recovered =
                IF op[c].kind = "recover" THEN @ \cup {buf[c].owner} ELSE @]
  /\ UNCHANGED <<legacy, leaseLock, clock, op, tries, buf>>

\* acquireLease reads the lease once more and refuses if another owns it now.
Reload(c) ==
  LET l == Visible(op[c].dev)
  IN  /\ Move(c, "reload", IF OwnedByAnother(l, op[c].sid) THEN "rmRefused" ELSE "persist")
      /\ buf' = [buf EXCEPT ![c] = l]
      /\ UNCHANGED <<lease, legacy, leaseLock, clock, op, tries, scan>>

\* Slip: markIdle writes a state that isDeviceLease does not know.
WrittenIdle(c) ==
  CASE op[c].kind = "markBusy" -> [buf[c] EXCEPT !.state = "busy", !.heartbeat = clock]
    [] op[c].kind = "refreshHeartbeat" -> [buf[c] EXCEPT !.heartbeat = clock]
    [] op[c].kind = "markIdle" -> [buf[c] EXCEPT !.state = "idle", !.heartbeat = clock]
    [] OTHER -> [owner |-> op[c].sid, state |-> "leased", heartbeat |-> clock]

\* The record each function writes, from the one it read.
Written(c) ==
  CASE op[c].kind = "markBusy" -> [buf[c] EXCEPT !.state = "busy", !.heartbeat = clock]
    [] op[c].kind = "refreshHeartbeat" -> [buf[c] EXCEPT !.heartbeat = clock]
    [] OTHER -> [owner |-> op[c].sid, state |-> "leased", heartbeat |-> clock]

Persist(c) ==
  /\ Move(c, "persist", "rmGranted")
  /\ lease' = [lease EXCEPT ![op[c].dev] = Written(c)]
  /\ UNCHANGED <<legacy, leaseLock, clock, op, tries, buf, scan>>

-----------------------------------------------------------------------------
(* recoverStaleLeases visits one listed lease after the other. *)

NextStale(c, d) ==
  /\ d \in scan[c].todo
  /\ Move(c, "next", "mkdir")
  /\ op' = [op EXCEPT ![c].dev = d]
  /\ scan' = [scan EXCEPT ![c].todo = @ \ {d}]
  /\ UNCHANGED <<lease, legacy, leaseLock, clock, tries, buf>>

NoMoreStale(c) ==
  /\ scan[c].todo = {}
  /\ Move(c, "next", "granted")
  /\ UNCHANGED <<lease, legacy, leaseLock, clock, op, tries, buf, scan>>

-----------------------------------------------------------------------------
(* releaseLease. *)

\* No lease or the caller's own: go on to unlink.  Another's: refuse.
ReleaseLoad(c) ==
  LET l == Visible(op[c].dev)
  IN  /\ Move(c, "releaseLoad",
              IF OwnedByAnother(l, op[c].sid) THEN "refused" ELSE "releaseUnlink")
      /\ buf' = [buf EXCEPT ![c] = IF OwnedByAnother(l, op[c].sid) THEN None ELSE l]
      /\ UNCHANGED <<lease, legacy, leaseLock, clock, op, tries, scan>>

\* unlink the primary file by its name; "not_found" when the read found no
\* lease or the file is gone.
ReleaseUnlink(c) ==
  /\ Move(c, "releaseUnlink",
          IF buf[c] # None /\ lease[op[c].dev] # None THEN "granted" ELSE "refused")
  /\ lease' = [lease EXCEPT ![op[c].dev] = None]
  /\ buf' = [buf EXCEPT ![c] = None]
  /\ UNCHANGED <<legacy, leaseLock, clock, op, tries, scan>>

-----------------------------------------------------------------------------
(* What nobody calls. *)

Tick ==
  /\ clock < MaxClock
  /\ clock' = clock + 1
  /\ UNCHANGED <<lease, legacy, leaseLock, lpc, op, tries, buf, scan>>

Forget(f, h, v) == [c \in Calls |-> IF HostOf[c] = h THEN v ELSE f[c]]

\* An OS process dies: its calls vanish, the directories they made stay.
CrashLease(h) ==
  /\ lpc' = Forget(lpc, h, "idle")
  /\ op' = Forget(op, h, NoOp)
  /\ tries' = Forget(tries, h, 0)
  /\ buf' = Forget(buf, h, None)
  /\ scan' = Forget(scan, h, NoScan)
  /\ leaseLock' = [d \in Devices |->
                     IF \E c \in Calls : leaseLock[d] = c /\ HostOf[c] = h
                     THEN Orphan ELSE leaseLock[d]]
  /\ UNCHANGED <<lease, legacy, clock>>

-----------------------------------------------------------------------------

\* One step of a call that is inside the coordinator.
LeaseStep(c) ==
  \/ TakeLock(c) \/ RetryLock(c) \/ GiveUpLock(c) \/ Unlock(c)
  \/ Load(c) \/ CheckOwner(c) \/ Evict(c) \/ Reload(c) \/ Persist(c)
  \/ (\E d \in Devices : NextStale(c, d)) \/ NoMoreStale(c)
  \/ ReleaseLoad(c) \/ ReleaseUnlink(c)

EnterSome(c) ==
  \/ \E k \in LockedKinds, s \in Sessions, d \in Devices : Enter(c, k, s, d)
  \/ \E s \in Sessions, d \in Devices : EnterRelease(c, s, d)
  \/ EnterRecover(c)

UseResult(c) == Leave(c) \/ \E s \in Sessions : NoteRecovered(c, s)

\* The environment opens and closes sessions.
SessionChange(s) ==
  /\ sessionOpen' = [sessionOpen EXCEPT ![s] = ~@]
  /\ UNCHANGED leaseVars

Next ==
  \/ \E c \in Calls : (EnterSome(c) \/ LeaseStep(c) \/ UseResult(c)) /\ UNCHANGED sessionOpen
  \/ \E s \in Sessions : SessionChange(s)
  \/ Tick /\ UNCHANGED sessionOpen
  \/ \E h \in Hosts : CrashLease(h) /\ UNCHANGED sessionOpen

Spec == Init /\ [][Next]_vars

-----------------------------------------------------------------------------
(* Properties. *)

InSection(c) ==
  lpc[c] \in {"load", "owner", "evict", "reload", "persist", "rmGranted", "rmRefused"}

\* The lock directory of a device names exactly the call that is between its
\* mkdir and its rm (withDeviceLeaseLock): two calls are never under the lock of
\* one device, no call runs a section without the directory, and the rm of the
\* finally clause only ever removes the directory its own call made.
LockHeldByHolder ==
  /\ \A c \in Calls : InSection(c) => leaseLock[op[c].dev] = c
  /\ \A d \in Devices, c \in Calls : leaseLock[d] = c => InSection(c) /\ op[c].dev = d

\* The lease locks are an ExclusiveLock: a call is inside the section of the
\* device it locked, and the directory of a crashed call loses the section.
Lock == INSTANCE ExclusiveLock WITH
          Users <- Calls, Keys <- Devices, Nowhere <- None,
          inside <- [c \in Calls |-> IF InSection(c) THEN op[c].dev ELSE None],
          lost <- {d \in Devices : leaseLock[d] = Orphan}

\* withDeviceLeaseLock implements the abstract lock: mkdir enters only an
\* unoccupied section, rm leaves it, a crash loses it, and nothing else shows.
ImplementsLock == Lock!Spec

\* What acquireLease and recoverStaleLeases unlink is the lease they judged:
\* between the read that found it abandoned or stale and the unlink, nobody
\* puts another lease in its place (at worst releaseLease removed it already).
EvictsWhatItJudged ==
  \A c \in Calls : lpc[c] = "evict" =>
    /\ lease[op[c].dev] \in {None, buf[c]}
    /\ op[c].kind = "recover" => Stale(buf[c], scan[c].asOf)
    /\ op[c].kind = "acquire" => buf[c].owner # op[c].sid

\* A caller that was granted the lease owns it, or a releaseLease that takes no
\* lock removed it in between; it is never another session's by then.
GrantedIsOwn ==
  \A c \in Calls : lpc[c] \in {"persist", "rmGranted"} /\ op[c].kind # "recover" =>
    lease[op[c].dev] = None \/ lease[op[c].dev].owner = op[c].sid

\* A lease file never changes hands in one write: every function that writes a
\* lease read it as absent or its own, and no write of another session can come
\* between that read and the write, so a lease is removed before it is another's.
NoHandover ==
  [][\A d \in Devices : lease[d] # None /\ lease'[d] # None
                          => lease'[d].owner = lease[d].owner]_vars

=============================================================================
