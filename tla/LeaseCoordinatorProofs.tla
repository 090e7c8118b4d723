----------------------- MODULE LeaseCoordinatorProofs -----------------------
(***************************************************************************)
(* Proofs about LeaseCoordinator, for any calls, processes, sessions,      *)
(* devices and legacy leases, any number of lock attempts and any clock.   *)
(*                                                                         *)
(* The inductive invariant is Inv.  Shape says what a call holds at each   *)
(* point; LockHeldByHolder gives whoever is under a lease lock the lease   *)
(* file to itself, but for releaseLease; Judged and Own say what each call *)
(* read is still there, or was removed by releaseLease.                    *)
(***************************************************************************)
EXTENDS LeaseCoordinator, TLAPS

\* What a call works on, and what it has read, at each point.
ShapeOf(c) ==
  /\ InSection(c) \/ lpc[c] = "mkdir" =>
       /\ op[c].dev \in Devices
       /\ op[c].kind \in LockedKinds \cup {"recover"}
       /\ op[c].kind # "recover" => op[c].sid \in Sessions
  /\ lpc[c] \in {"releaseLoad", "releaseUnlink"} => op[c].dev \in Devices
  /\ lpc[c] = "next" => op[c].kind = "recover"
  /\ lpc[c] = "owner" => op[c].kind = "acquire" /\ buf[c] \in Lease
  /\ lpc[c] = "evict" => op[c].kind \in {"acquire", "recover"} /\ buf[c] \in Lease
  /\ lpc[c] = "reload" => op[c].kind = "acquire"
  /\ lpc[c] = "persist" =>
       /\ op[c].kind \in LockedKinds
       /\ op[c].kind # "acquire" => buf[c] \in Lease /\ buf[c].owner = op[c].sid

Shape == \A c \in Calls : ShapeOf(c)

\* From the read that condemns a lease to its unlink.
JudgedBy(c) ==
  lpc[c] \in {"owner", "evict"} =>
    /\ lease[op[c].dev] \in {None, buf[c]}
    /\ op[c].kind = "recover" => Stale(buf[c], scan[c].asOf)
    /\ op[c].kind = "acquire" => buf[c].owner # op[c].sid

Judged == \A c \in Calls : JudgedBy(c)

OwnBy(c) ==
  lpc[c] \in {"persist", "rmGranted"} /\ op[c].kind # "recover" =>
    lease[op[c].dev] = None \/ lease[op[c].dev].owner = op[c].sid

Inv == TypeOK /\ Shape /\ LockHeldByHolder /\ Judged /\ GrantedIsOwn

USE HostAssumption, ClockAssumption, LegacyAssumption, NoneAssumption, LockAssumption

-----------------------------------------------------------------------------
(* What is read from the store. *)

\* loadLeaseByDevice returns a lease or nothing, and the primary lease if there
\* is one.
LEMMA VisibleType ==
  ASSUME TypeOK, NEW d \in Devices
  PROVE  /\ Visible(d) \in Lease \cup {None}
         /\ lease[d] \in {None, Visible(d)}
BY DEF TypeOK, Visible

\* What a function writes is a lease of the session it was called for.
LEMMA WrittenType ==
  ASSUME TypeOK, NEW c \in Calls, ShapeOf(c), lpc[c] = "persist"
  PROVE  Written(c) \in Lease /\ Written(c).owner = op[c].sid
<1>1. op[c].sid \in Sessions /\ clock \in Nat
  BY DEF TypeOK, ShapeOf, InSection, LockedKinds
<1>2. CASE op[c].kind = "acquire"
  BY <1>1, <1>2 DEF Written, Lease
<1>3. CASE op[c].kind # "acquire"
  <2>1. buf[c] \in Lease /\ buf[c].owner = op[c].sid /\ op[c].kind \in LockedKinds
    BY <1>3 DEF ShapeOf
  <2> QED
    BY <1>1, <2>1 DEF Written, Lease, LockedKinds
<1> QED
  BY <1>2, <1>3

-----------------------------------------------------------------------------
(* Types. *)

LEMMA InitInv == Init => Inv
<1> SUFFICES ASSUME Init PROVE Inv
  OBVIOUS
<1>1. TypeOK
  BY DEF Init, LeaseInit, TypeOK, Points, Op, NoOp, Kinds, Scan, NoScan
<1>2. Shape /\ Judged /\ GrantedIsOwn
  BY DEF Init, LeaseInit, Shape, ShapeOf, Judged, JudgedBy, GrantedIsOwn, InSection
<1>3. LockHeldByHolder
  BY DEF Init, LeaseInit, LockHeldByHolder, InSection
<1> QED
  BY <1>1, <1>2, <1>3 DEF Inv

\* Every step of a call keeps the types.
LEMMA StepType ==
  ASSUME TypeOK, Shape, NEW c \in Calls,
         EnterSome(c) \/ LeaseStep(c) \/ UseResult(c), UNCHANGED sessionOpen
  PROVE  TypeOK'
<1> USE DEF TypeOK
<1> ShapeOf(c)
  BY DEF Shape
<1>1. CASE EnterSome(c)
  <2>1. ASSUME NEW k \in LockedKinds, NEW s \in Sessions, NEW d \in Devices, Enter(c, k, s, d)
        PROVE  TypeOK'
    BY <2>1 DEF Enter, Points, Op, Kinds, Scan, NoScan
  <2>2. ASSUME NEW s \in Sessions, NEW d \in Devices, EnterRelease(c, s, d)
        PROVE  TypeOK'
    BY <2>2 DEF EnterRelease, Points, Op, Kinds, Scan, NoScan
  <2>3. ASSUME EnterRecover(c)
        PROVE  TypeOK'
    BY <2>3 DEF EnterRecover, Points, Op, NoOp, Kinds, Scan
  <2> QED
    BY <1>1, <2>1, <2>2, <2>3 DEF EnterSome
<1>2. CASE UseResult(c)
  <2>1. ASSUME Leave(c)
        PROVE  TypeOK'
    BY <2>1 DEF Leave, Points, Op, NoOp, Kinds, Scan, NoScan
  <2>2. ASSUME NEW s \in Sessions, NoteRecovered(c, s)
        PROVE  TypeOK'
    BY <2>2 DEF NoteRecovered, Scan
  <2> QED
    BY <1>2, <2>1, <2>2 DEF UseResult
<1>3. CASE TakeLock(c) \/ RetryLock(c) \/ GiveUpLock(c) \/ Unlock(c)
  BY <1>3 DEF TakeLock, RetryLock, GiveUpLock, Unlock, Move, Points
<1>4. CASE Load(c) \/ Reload(c)
  <2>1. Visible(op[c].dev) \in Lease \cup {None}
    BY <1>4, VisibleType DEF Load, Reload, Move, ShapeOf, InSection
  <2>2. CASE Load(c)
    BY <2>1, <2>2 DEF Load, Move, Points
  <2>3. CASE Reload(c)
    BY <2>1, <2>3 DEF Reload, Move, Points
  <2> QED
    BY <1>4, <2>2, <2>3
<1>5. CASE CheckOwner(c) \/ NoMoreStale(c)
  BY <1>5 DEF CheckOwner, NoMoreStale, Move, Points
<1>6. CASE Evict(c)
  <2>1. buf[c].owner \in Sessions
    BY <1>6 DEF Evict, Move, ShapeOf, Lease
  <2>2. scan[c].recovered \in SUBSET Sessions
    BY DEF Scan
  <2>3. scan' \in [Calls -> Scan]
    BY <1>6, <2>1, <2>2 DEF Evict, Scan
  <2>4. lease' \in [Devices -> Lease \cup {None}] /\ lpc' \in [Calls -> Points]
    BY <1>6 DEF Evict, Move, Points
  <2> QED
    BY <1>6, <2>3, <2>4 DEF Evict
<1>7. CASE Persist(c)
  BY <1>7, WrittenType DEF Persist, Move, Points
<1>8. ASSUME NEW d \in Devices, NextStale(c, d)
      PROVE  TypeOK'
  <2>1. scan[c].todo \ {d} \in SUBSET Devices
    BY DEF Scan
  <2>2. scan' \in [Calls -> Scan]
    BY <1>8, <2>1 DEF NextStale, Scan
  <2>3. op' \in [Calls -> Op] /\ lpc' \in [Calls -> Points]
    BY <1>8 DEF NextStale, Move, Points, Op
  <2> QED
    BY <1>8, <2>2, <2>3 DEF NextStale
<1>9. CASE ReleaseLoad(c)
  <2>1. Visible(op[c].dev) \in Lease \cup {None}
    BY <1>9, VisibleType DEF ReleaseLoad, Move, ShapeOf
  <2> QED
    BY <1>9, <2>1 DEF ReleaseLoad, Move, Points
<1>10. CASE ReleaseUnlink(c)
  BY <1>10 DEF ReleaseUnlink, Move, Points
<1> QED
  BY <1>1, <1>2, <1>3, <1>4, <1>5, <1>6, <1>7, <1>8, <1>9, <1>10 DEF LeaseStep

\* So do time and the death of a process.
LEMMA OutsideType ==
  ASSUME TypeOK, Tick \/ \E h \in Hosts : CrashLease(h), UNCHANGED sessionOpen
  PROVE  TypeOK'
<1>1. CASE Tick
  BY <1>1 DEF Tick, TypeOK
<1>2. ASSUME NEW h \in Hosts, CrashLease(h)
      PROVE  TypeOK'
  <2>1. NoOp \in Op /\ NoScan \in Scan /\ "idle" \in Points
    BY DEF NoOp, Op, Kinds, NoScan, Scan, Points
  <2>2. /\ lpc' \in [Calls -> Points] /\ op' \in [Calls -> Op] /\ tries' \in [Calls -> Nat]
        /\ buf' \in [Calls -> Lease \cup {None}] /\ scan' \in [Calls -> Scan]
    BY <1>2, <2>1 DEF CrashLease, Forget, TypeOK
  <2>3. leaseLock' \in [Devices -> Calls \cup {Free, Orphan}]
    BY <1>2 DEF CrashLease, TypeOK
  <2> QED
    BY <1>2, <2>2, <2>3 DEF CrashLease, TypeOK
<1> QED
  BY <1>1, <1>2

-----------------------------------------------------------------------------
(* Shape and the lock. *)

\* A step of a call changes only what that call holds.
LEMMA OtherCalls ==
  ASSUME TypeOK, NEW c \in Calls, NEW b \in Calls \ {c},
         EnterSome(c) \/ LeaseStep(c) \/ UseResult(c)
  PROVE  /\ lpc'[b] = lpc[b] /\ op'[b] = op[b] /\ buf'[b] = buf[b] /\ scan'[b] = scan[b]
         /\ tries'[b] = tries[b]
<1> USE DEF TypeOK
<1>1. CASE EnterSome(c)
  BY <1>1 DEF EnterSome, Enter, EnterRelease, EnterRecover
<1>2. CASE UseResult(c)
  BY <1>2 DEF UseResult, Leave, NoteRecovered
<1>3. CASE TakeLock(c) \/ RetryLock(c) \/ GiveUpLock(c) \/ Unlock(c)
  BY <1>3 DEF TakeLock, RetryLock, GiveUpLock, Unlock, Move
<1>4. CASE Load(c) \/ CheckOwner(c) \/ Evict(c) \/ Reload(c) \/ Persist(c)
  BY <1>4 DEF Load, CheckOwner, Evict, Reload, Persist, Move
<1>5. CASE (\E d \in Devices : NextStale(c, d)) \/ NoMoreStale(c)
  BY <1>5 DEF NextStale, NoMoreStale, Move
<1>6. CASE ReleaseLoad(c) \/ ReleaseUnlink(c)
  BY <1>6 DEF ReleaseLoad, ReleaseUnlink, Move
<1> QED
  BY <1>1, <1>2, <1>3, <1>4, <1>5, <1>6 DEF LeaseStep

\* What each kind of step leaves in the call that takes it.
LEMMA StepShape ==
  ASSUME TypeOK, Shape, NEW c \in Calls,
         EnterSome(c) \/ LeaseStep(c) \/ UseResult(c)
  PROVE  Shape'
<1> USE DEF TypeOK
<1>0. ASSUME NEW b \in Calls \ {c}
      PROVE  ShapeOf(b)'
  BY <1>0, OtherCalls DEF Shape, ShapeOf, InSection
<1> SUFFICES ShapeOf(c)'
  BY <1>0 DEF Shape
<1> ShapeOf(c)
  BY DEF Shape
<1> USE DEF ShapeOf, InSection
<1>1. CASE EnterSome(c)
  BY <1>1 DEF EnterSome, Enter, EnterRelease, EnterRecover, NoOp, LockedKinds
<1>2. CASE UseResult(c)
  BY <1>2 DEF UseResult, Leave, NoteRecovered, AtRest, Returned
<1>3. CASE TakeLock(c) \/ RetryLock(c) \/ GiveUpLock(c)
  BY <1>3 DEF TakeLock, RetryLock, GiveUpLock, Move
<1>4. CASE Unlock(c)
  BY <1>4 DEF Unlock
<1>5. CASE Load(c)
  <2>1. Visible(op[c].dev) \in Lease \cup {None} /\ op[c].kind \in LockedKinds \cup {"recover"}
    BY <1>5, VisibleType DEF Load, Move
  <2>2. /\ lpc'[c] = "owner" => op[c].kind = "acquire" /\ buf'[c] \in Lease
        /\ lpc'[c] = "evict" => op[c].kind = "recover" /\ buf'[c] \in Lease
        /\ lpc'[c] = "reload" => op[c].kind = "acquire"
        /\ lpc'[c] = "persist" => /\ op[c].kind \notin {"acquire", "recover"}
                                  /\ buf'[c] \in Lease /\ buf'[c].owner = op[c].sid
    BY <1>5, <2>1 DEF Load, Move, OwnedByAnother
  <2>3. lpc'[c] \in {"owner", "evict", "reload", "persist", "rmRefused"} /\ op' = op /\ lpc[c] = "load"
    BY <1>5, <2>1 DEF Load, Move
  <2> QED
    BY <2>1, <2>2, <2>3 DEF LockedKinds
<1>6. CASE CheckOwner(c) \/ Reload(c)
  BY <1>6 DEF CheckOwner, Reload, Move, LockedKinds
<1>7. CASE Evict(c) \/ Persist(c)
  BY <1>7 DEF Evict, Persist, Move
<1>8. CASE \E d \in Devices : NextStale(c, d)
  BY <1>8 DEF NextStale, Move, Op
<1>9. CASE NoMoreStale(c) \/ ReleaseLoad(c) \/ ReleaseUnlink(c)
  BY <1>9 DEF NoMoreStale, ReleaseLoad, ReleaseUnlink, Move
<1> QED
  BY <1>1, <1>2, <1>3, <1>4, <1>5, <1>6, <1>7, <1>8, <1>9 DEF LeaseStep

\* Only mkdir and rm touch a lock directory, and each that of its own call.
LEMMA StepLock ==
  ASSUME TypeOK, Shape, LockHeldByHolder, NEW c \in Calls,
         EnterSome(c) \/ LeaseStep(c) \/ UseResult(c)
  PROVE  LockHeldByHolder'
<1> USE DEF TypeOK
<1>0. \A b \in Calls \ {c} : lpc'[b] = lpc[b] /\ op'[b] = op[b]
  BY OtherCalls
<1>1. CASE UNCHANGED leaseLock /\ op'[c].dev = op[c].dev /\ (InSection(c) <=> InSection(c)')
  BY <1>0, <1>1 DEF LockHeldByHolder, InSection
<1>2. CASE UNCHANGED leaseLock /\ ~InSection(c) /\ ~InSection(c)'
  BY <1>0, <1>2 DEF LockHeldByHolder, InSection
<1>3. CASE EnterSome(c)
  <2>1. UNCHANGED leaseLock /\ ~InSection(c) /\ ~InSection(c)'
    BY <1>3 DEF EnterSome, Enter, EnterRelease, EnterRecover, AtRest, Returned, InSection
  <2> QED
    BY <2>1, <1>2
<1>4. CASE UseResult(c)
  <2>1. UNCHANGED leaseLock /\ ~InSection(c) /\ ~InSection(c)'
    BY <1>4 DEF UseResult, Leave, NoteRecovered, AtRest, Returned, InSection
  <2> QED
    BY <2>1, <1>2
<1>5. CASE RetryLock(c) \/ GiveUpLock(c)
  <2>1. UNCHANGED leaseLock /\ ~InSection(c) /\ ~InSection(c)'
    BY <1>5 DEF RetryLock, GiveUpLock, Move, InSection
  <2> QED
    BY <2>1, <1>2
<1>6. CASE TakeLock(c)
  <2>1. /\ ~InSection(c) /\ InSection(c)' /\ op' = op
        /\ op[c].dev \in Devices /\ leaseLock[op[c].dev] = Free
        /\ leaseLock' = [leaseLock EXCEPT ![op[c].dev] = c]
    BY <1>6 DEF TakeLock, Move, InSection, Shape, ShapeOf
  <2>2. \A d \in Devices : leaseLock[d] # c
    BY <2>1 DEF LockHeldByHolder
  <2> QED
    BY <1>0, <2>1, <2>2 DEF LockHeldByHolder, InSection
<1>7. CASE Unlock(c)
  <2>1. /\ InSection(c) /\ ~InSection(c)' /\ op' = op
        /\ op[c].dev \in Devices /\ leaseLock[op[c].dev] = c
        /\ leaseLock' = [leaseLock EXCEPT ![op[c].dev] = Free]
    BY <1>7 DEF Unlock, InSection, Shape, ShapeOf, LockHeldByHolder
  <2> QED
    BY <1>0, <2>1 DEF LockHeldByHolder, InSection
<1>8. CASE Load(c) \/ CheckOwner(c) \/ Evict(c) \/ Reload(c) \/ Persist(c)
  <2>1. UNCHANGED leaseLock /\ op'[c].dev = op[c].dev /\ (InSection(c) <=> InSection(c)')
    BY <1>8 DEF Load, CheckOwner, Evict, Reload, Persist, Move, InSection
  <2> QED
    BY <2>1, <1>1
<1>9. CASE \/ (\E d \in Devices : NextStale(c, d)) \/ NoMoreStale(c)
           \/ ReleaseLoad(c) \/ ReleaseUnlink(c)
  <2>1. UNCHANGED leaseLock /\ ~InSection(c) /\ ~InSection(c)'
    BY <1>9 DEF NextStale, NoMoreStale, ReleaseLoad, ReleaseUnlink, Move, InSection
  <2> QED
    BY <2>1, <1>2
<1> QED
  BY <1>3, <1>4, <1>5, <1>6, <1>7, <1>8, <1>9 DEF LeaseStep

-----------------------------------------------------------------------------
(* Judged and Own. *)

\* Under the lock of a device nobody else writes its lease file; releaseLease
\* may remove it.
LEMMA LeaseOfHolder ==
  ASSUME TypeOK, Shape, LockHeldByHolder, NEW c \in Calls, NEW b \in Calls \ {c},
         EnterSome(c) \/ LeaseStep(c) \/ UseResult(c), InSection(b)
  PROVE  lease'[op[b].dev] \in {None, lease[op[b].dev]}
<1> USE DEF TypeOK
<1>1. op[b].dev \in Devices
  BY DEF Shape, ShapeOf
<1>2. InSection(c) => op[c].dev # op[b].dev
  BY DEF LockHeldByHolder
<1>3. CASE UNCHANGED lease
  BY <1>3
<1>4. CASE Evict(c)
  BY <1>1, <1>4 DEF Evict
<1>5. CASE Persist(c)
  BY <1>1, <1>2, <1>5 DEF Persist, Move, InSection
<1>6. CASE ReleaseUnlink(c)
  BY <1>1, <1>6 DEF ReleaseUnlink
<1>7. CASE EnterSome(c) \/ UseResult(c)
  <2>1. UNCHANGED lease
    BY <1>7 DEF EnterSome, Enter, EnterRelease, EnterRecover, UseResult, Leave, NoteRecovered
  <2> QED
    BY <2>1, <1>3
<1>8. CASE TakeLock(c) \/ RetryLock(c) \/ GiveUpLock(c) \/ Unlock(c)
  <2>1. UNCHANGED lease
    BY <1>8 DEF TakeLock, RetryLock, GiveUpLock, Unlock
  <2> QED
    BY <2>1, <1>3
<1>9. CASE \/ Load(c) \/ CheckOwner(c) \/ Reload(c) \/ ReleaseLoad(c)
           \/ (\E d \in Devices : NextStale(c, d)) \/ NoMoreStale(c)
  <2>1. UNCHANGED lease
    BY <1>9 DEF Load, CheckOwner, Reload, ReleaseLoad, NextStale, NoMoreStale
  <2> QED
    BY <2>1, <1>3
<1> QED
  BY <1>4, <1>5, <1>6, <1>7, <1>8, <1>9 DEF LeaseStep

LEMMA StepJudged ==
  ASSUME TypeOK, Shape, LockHeldByHolder, Judged, NEW c \in Calls,
         EnterSome(c) \/ LeaseStep(c) \/ UseResult(c)
  PROVE  Judged'
<1> USE DEF TypeOK
<1>1. ASSUME NEW b \in Calls \ {c}
      PROVE  JudgedBy(b)'
  BY <1>1, OtherCalls, LeaseOfHolder DEF Judged, JudgedBy, InSection, Stale
<1> SUFFICES JudgedBy(c)'
  BY <1>1 DEF Judged
<1>2. CASE Load(c)
  <2>1. op[c].dev \in Devices /\ lpc[c] = "load" /\ op' = op /\ lease' = lease /\ scan' = scan
    BY <1>2 DEF Load, Move, Shape, ShapeOf, InSection
  <2>2. lease[op[c].dev] \in {None, Visible(op[c].dev)}
    BY <2>1, VisibleType
  <2>3. buf'[c] = Visible(op[c].dev)
    BY <1>2 DEF Load
  <2>4. lpc'[c] = "owner" => op[c].kind = "acquire" /\ OwnedByAnother(buf'[c], op[c].sid)
    BY <1>2, <2>3 DEF Load, Move
  <2>5. lpc'[c] = "evict" => op[c].kind = "recover" /\ Stale(buf'[c], scan[c].asOf)
    BY <1>2, <2>3 DEF Load, Move
  <2> QED
    BY <2>1, <2>2, <2>3, <2>4, <2>5 DEF JudgedBy, OwnedByAnother, Stale
<1>3. CASE CheckOwner(c)
  BY <1>3 DEF CheckOwner, Move, Judged, JudgedBy, Stale
<1>4. CASE EnterSome(c) \/ UseResult(c)
  BY <1>4 DEF EnterSome, Enter, EnterRelease, EnterRecover, UseResult, Leave, NoteRecovered,
              JudgedBy, AtRest, Returned
<1>5. CASE TakeLock(c) \/ RetryLock(c) \/ GiveUpLock(c) \/ Unlock(c)
  BY <1>5 DEF TakeLock, RetryLock, GiveUpLock, Unlock, Move, JudgedBy
<1>6. CASE Evict(c) \/ Reload(c) \/ Persist(c) \/ ReleaseLoad(c) \/ ReleaseUnlink(c)
  BY <1>6 DEF Evict, Reload, Persist, ReleaseLoad, ReleaseUnlink, Move, JudgedBy
<1>7. CASE (\E d \in Devices : NextStale(c, d)) \/ NoMoreStale(c)
  BY <1>7 DEF NextStale, NoMoreStale, Move, JudgedBy
<1> QED
  BY <1>2, <1>3, <1>4, <1>5, <1>6, <1>7 DEF LeaseStep

LEMMA StepOwn ==
  ASSUME TypeOK, Shape, LockHeldByHolder, GrantedIsOwn, NEW c \in Calls,
         EnterSome(c) \/ LeaseStep(c) \/ UseResult(c)
  PROVE  GrantedIsOwn'
<1> USE DEF TypeOK
<1>1. ASSUME NEW b \in Calls \ {c}
      PROVE  OwnBy(b)'
  BY <1>1, OtherCalls, LeaseOfHolder DEF GrantedIsOwn, OwnBy, InSection
<1> SUFFICES OwnBy(c)'
  BY <1>1 DEF GrantedIsOwn, OwnBy
<1>2. CASE Load(c) \/ Reload(c)
  <2>1. op[c].dev \in Devices /\ op' = op /\ lease' = lease
    BY <1>2 DEF Load, Reload, Move, Shape, ShapeOf, InSection
  <2>2. lease[op[c].dev] \in {None, Visible(op[c].dev)}
    BY <2>1, VisibleType
  <2>3. lpc'[c] # "rmGranted"
    BY <1>2 DEF Load, Reload, Move
  <2>4. lpc'[c] = "persist" => Visible(op[c].dev) = None \/ Visible(op[c].dev).owner = op[c].sid
    BY <1>2 DEF Load, Reload, Move, OwnedByAnother
  <2> QED
    BY <2>1, <2>2, <2>3, <2>4 DEF OwnBy
<1>3. CASE Persist(c)
  <2>1. op[c].dev \in Devices /\ lpc[c] = "persist" /\ op' = op
    BY <1>3 DEF Persist, Move, Shape, ShapeOf, InSection
  <2>2. lease'[op[c].dev] = Written(c)
    BY <1>3, <2>1 DEF Persist
  <2> QED
    BY <2>1, <2>2, WrittenType DEF OwnBy, Shape
<1>4. CASE Evict(c)
  BY <1>4 DEF Evict, Move, OwnBy, Shape, ShapeOf
<1>5. CASE EnterSome(c) \/ UseResult(c)
  BY <1>5 DEF EnterSome, Enter, EnterRelease, EnterRecover, UseResult, Leave, NoteRecovered,
              OwnBy, AtRest, Returned
<1>6. CASE TakeLock(c) \/ RetryLock(c) \/ GiveUpLock(c) \/ Unlock(c) \/ CheckOwner(c)
  <2>1. lpc'[c] \notin {"persist", "rmGranted"} \/ (UNCHANGED <<lpc, op, lease>>)
    BY <1>6 DEF TakeLock, RetryLock, GiveUpLock, Unlock, CheckOwner, Move
  <2> QED
    BY <2>1 DEF OwnBy, GrantedIsOwn
<1>7. CASE ReleaseLoad(c) \/ ReleaseUnlink(c)
  BY <1>7 DEF ReleaseLoad, ReleaseUnlink, Move, OwnBy
<1>8. CASE (\E d \in Devices : NextStale(c, d)) \/ NoMoreStale(c)
  BY <1>8 DEF NextStale, NoMoreStale, Move, OwnBy
<1> QED
  BY <1>2, <1>3, <1>4, <1>5, <1>6, <1>7, <1>8 DEF LeaseStep

-----------------------------------------------------------------------------
(* The invariant. *)

\* A dead process leaves its lock directories to nobody.
LEMMA CrashInv ==
  ASSUME Inv, NEW h \in Hosts, CrashLease(h), UNCHANGED sessionOpen
  PROVE  Inv'
<1> USE DEF Inv
<1>1. TypeOK'
  BY OutsideType
<1>2. \A b \in Calls :
        \/ HostOf[b] = h /\ lpc'[b] = "idle"
        \/ /\ HostOf[b] # h
           /\ lpc'[b] = lpc[b] /\ op'[b] = op[b] /\ buf'[b] = buf[b] /\ scan'[b] = scan[b]
  BY DEF CrashLease, Forget
<1>3. lease' = lease /\ UNCHANGED clock
  BY DEF CrashLease
<1>4. Shape'
  BY <1>2 DEF Shape, ShapeOf, InSection
<1>5. Judged' /\ GrantedIsOwn'
  BY <1>2, <1>3 DEF Judged, JudgedBy, GrantedIsOwn, Stale
<1>6. LockHeldByHolder'
  <2>1. \A d \in Devices, b \in Calls : leaseLock'[d] = b <=> leaseLock[d] = b /\ HostOf[b] # h
    BY DEF CrashLease
  <2> QED
    BY <1>2, <2>1 DEF LockHeldByHolder, InSection, Shape, ShapeOf
<1> QED
  BY <1>1, <1>4, <1>5, <1>6

LEMMA NextInv == Inv /\ [Next]_vars => Inv'
<1> SUFFICES ASSUME Inv, [Next]_vars PROVE Inv'
  OBVIOUS
<1>1. ASSUME NEW c \in Calls, EnterSome(c) \/ LeaseStep(c) \/ UseResult(c), UNCHANGED sessionOpen
      PROVE  Inv'
  BY <1>1, StepType, StepShape, StepLock, StepJudged, StepOwn DEF Inv
<1>2. ASSUME NEW s \in Sessions, SessionChange(s)
      PROVE  Inv'
  <2>1. TypeOK'
    BY <1>2 DEF SessionChange, leaseVars, Inv, TypeOK
  <2> QED
    BY <1>2, <2>1 DEF SessionChange, leaseVars, Inv, Shape, ShapeOf, LockHeldByHolder, InSection,
                      Judged, JudgedBy, Stale, GrantedIsOwn
<1>3. CASE Tick /\ UNCHANGED sessionOpen
  <2>1. TypeOK'
    BY <1>3, OutsideType DEF Inv
  <2> QED
    BY <1>3, <2>1 DEF Tick, Inv, Shape, ShapeOf, LockHeldByHolder, InSection,
                      Judged, JudgedBy, Stale, GrantedIsOwn
<1>4. ASSUME NEW h \in Hosts, CrashLease(h), UNCHANGED sessionOpen
      PROVE  Inv'
  BY <1>4, CrashInv
<1>5. CASE UNCHANGED vars
  BY <1>5 DEF vars, Inv, TypeOK, Shape, ShapeOf, LockHeldByHolder, InSection,
              Judged, JudgedBy, Stale, GrantedIsOwn
<1> QED
  BY <1>1, <1>2, <1>3, <1>4, <1>5 DEF Next

LEMMA InvHolds == Spec => []Inv
BY InitInv, NextInv, PTL DEF Spec

-----------------------------------------------------------------------------
(* Theorems. *)

\* Every variable keeps its type: the lease files hold leases, the lock
\* directories name calls, whatever the coordinator's callers do.
THEOREM TypeCorrect == Spec => []TypeOK
BY InvHolds, PTL DEF Inv

\* withDeviceLeaseLock excludes: the lock directory of a device names exactly the
\* call that is between its mkdir and its rm.
THEOREM LockCorrect == Spec => []LockHeldByHolder
BY InvHolds, PTL DEF Inv

\* acquireLease and recoverStaleLeases remove the lease they judged, or none.
THEOREM EvictionCorrect == Spec => []EvictsWhatItJudged
<1>1. Inv => EvictsWhatItJudged
  BY DEF Inv, Judged, JudgedBy, EvictsWhatItJudged
<1> QED
  BY <1>1, InvHolds, PTL

\* A granted lease is the caller's own until a releaseLease removes it.
THEOREM GrantCorrect == Spec => []GrantedIsOwn
BY InvHolds, PTL DEF Inv

\* No function writes its lease over another session's.
THEOREM HandoverCorrect == Spec => NoHandover
<1> DEFINE Keeps == \A d \in Devices : lease[d] # None /\ lease'[d] # None
                                         => lease'[d].owner = lease[d].owner
<1>1. Inv /\ [Next]_vars => Keeps
  <2> SUFFICES ASSUME Inv, [Next]_vars PROVE Keeps
    OBVIOUS
  <2> USE DEF Inv, TypeOK
  <2>1. CASE UNCHANGED lease
    BY <2>1
  <2>2. ASSUME NEW c \in Calls, Persist(c) PROVE Keeps
    <3>1. /\ lpc[c] = "persist" /\ op[c].dev \in Devices /\ op[c].kind \in LockedKinds
          /\ lease' = [lease EXCEPT ![op[c].dev] = Written(c)]
      BY <2>2 DEF Persist, Move, Shape, ShapeOf, InSection
    <3>2. Written(c).owner = op[c].sid
      BY <3>1, WrittenType DEF Shape
    <3>3. lease[op[c].dev] = None \/ lease[op[c].dev].owner = op[c].sid
      BY <3>1 DEF GrantedIsOwn, LockedKinds
    <3> QED
      BY <3>1, <3>2, <3>3
  <2>3. ASSUME NEW c \in Calls, Evict(c) \/ ReleaseUnlink(c) PROVE Keeps
    BY <2>3 DEF Evict, ReleaseUnlink
  <2>4. ASSUME NEW c \in Calls, LeaseStep(c) PROVE Keeps
    BY <2>1, <2>2, <2>3, <2>4
    DEF LeaseStep, TakeLock, RetryLock, GiveUpLock, Unlock, Load, CheckOwner, Reload,
        NextStale, NoMoreStale, ReleaseLoad
  <2>5. ASSUME NEW c \in Calls, EnterSome(c) \/ UseResult(c) PROVE Keeps
    BY <2>1, <2>5
    DEF EnterSome, Enter, EnterRelease, EnterRecover, UseResult, Leave, NoteRecovered
  <2>6. CASE \/ \E s \in Sessions : SessionChange(s)
             \/ Tick \/ (\E h \in Hosts : CrashLease(h)) \/ UNCHANGED vars
    BY <2>1, <2>6 DEF SessionChange, leaseVars, Tick, CrashLease, vars
  <2> QED
    BY <2>4, <2>5, <2>6 DEF Next
<1>2. Keeps => [\A d \in Devices : lease[d] # None /\ lease'[d] # None
                                     => lease'[d].owner = lease[d].owner]_vars
  OBVIOUS
<1> QED
  BY <1>1, <1>2, InvHolds, PTL DEF Spec, NoHandover

-----------------------------------------------------------------------------
(* The lease locks implement ExclusiveLock. *)

\* The call is inside no section that the abstract lock could see change.
LEMMA LockStutter ==
  ASSUME UNCHANGED leaseLock,
         \A b \in Calls : (InSection(b) <=> InSection(b)')
                          /\ (InSection(b) => op'[b].dev = op[b].dev)
  PROVE  UNCHANGED Lock!vars
BY DEF Lock!vars

\* mkdir, rm and a crash are Enter, Exit and Lose; all else stutters.
LEMMA LockStep ==
  ASSUME Inv, NEW c \in Calls, EnterSome(c) \/ LeaseStep(c) \/ UseResult(c)
  PROVE  Lock!Next \/ UNCHANGED Lock!vars
<1> USE DEF Inv, TypeOK
<1>0. \A b \in Calls \ {c} : lpc'[b] = lpc[b] /\ op'[b] = op[b]
  BY OtherCalls
<1>1. CASE UNCHANGED leaseLock /\ (InSection(c) <=> InSection(c)')
           /\ (InSection(c) => op'[c].dev = op[c].dev)
  BY <1>0, <1>1, LockStutter DEF InSection
<1>2. CASE TakeLock(c)
  <2>1. /\ ~InSection(c) /\ InSection(c)' /\ op' = op
        /\ op[c].dev \in Devices /\ leaseLock[op[c].dev] = Free
        /\ leaseLock' = [leaseLock EXCEPT ![op[c].dev] = c]
    BY <1>2 DEF TakeLock, Move, InSection, Shape, ShapeOf
  <2>2. ~Lock!Occupied(op[c].dev)
    BY <2>1 DEF Lock!Occupied, LockHeldByHolder
  <2>3. \A b \in Calls \ {c} : InSection(b)' <=> InSection(b)
    BY <1>0 DEF InSection
  <2>4. [b \in Calls |-> IF InSection(b)' THEN op'[b].dev ELSE None]
          = [[b \in Calls |-> IF InSection(b) THEN op[b].dev ELSE None]
               EXCEPT ![c] = op[c].dev]
    BY <2>1, <2>3 DEF InSection
  <2>5. {d \in Devices : leaseLock'[d] = Orphan} = {d \in Devices : leaseLock[d] = Orphan}
    BY <2>1
  <2>6. PICK d \in Devices : d = op[c].dev
    BY <2>1
  <2>7. Lock!Enter(c, d)
    BY <2>1, <2>2, <2>4, <2>5, <2>6 DEF Lock!Enter, Lock!Occupied
  <2> QED
    BY <2>7 DEF Lock!Next
<1>3. CASE Unlock(c)
  <2>1. /\ InSection(c) /\ ~InSection(c)' /\ op' = op
        /\ op[c].dev \in Devices /\ leaseLock[op[c].dev] = c
        /\ leaseLock' = [leaseLock EXCEPT ![op[c].dev] = Free]
    BY <1>3 DEF Unlock, InSection, Shape, ShapeOf, LockHeldByHolder
  <2>2. \A b \in Calls \ {c} : InSection(b)' <=> InSection(b)
    BY <1>0 DEF InSection
  <2>3. [b \in Calls |-> IF InSection(b)' THEN op'[b].dev ELSE None]
          = [[b \in Calls |-> IF InSection(b) THEN op[b].dev ELSE None] EXCEPT ![c] = None]
    BY <2>1, <2>2 DEF InSection
  <2>4. {d \in Devices : leaseLock'[d] = Orphan} = {d \in Devices : leaseLock[d] = Orphan}
    BY <2>1
  <2>5. op[c].dev # None
    BY <2>1
  <2>6. Lock!Exit(c)
    BY <2>1, <2>3, <2>4, <2>5 DEF Lock!Exit
  <2> QED
    BY <2>6 DEF Lock!Next
<1>4. CASE EnterSome(c) \/ UseResult(c)
  <2>1. UNCHANGED leaseLock /\ ~InSection(c) /\ ~InSection(c)'
    BY <1>4 DEF EnterSome, Enter, EnterRelease, EnterRecover, UseResult, Leave, NoteRecovered,
                AtRest, Returned, InSection
  <2> QED
    BY <2>1, <1>1
<1>5. CASE RetryLock(c) \/ GiveUpLock(c) \/ ReleaseLoad(c) \/ ReleaseUnlink(c)
           \/ (\E d \in Devices : NextStale(c, d)) \/ NoMoreStale(c)
  <2>1. UNCHANGED leaseLock /\ ~InSection(c) /\ ~InSection(c)'
    BY <1>5 DEF RetryLock, GiveUpLock, ReleaseLoad, ReleaseUnlink, NextStale, NoMoreStale,
                Move, InSection
  <2> QED
    BY <2>1, <1>1
<1>6. CASE Load(c) \/ CheckOwner(c) \/ Evict(c) \/ Reload(c) \/ Persist(c)
  <2>1. UNCHANGED <<leaseLock, op>> /\ (InSection(c) <=> InSection(c)')
    BY <1>6 DEF Load, CheckOwner, Evict, Reload, Persist, Move, InSection
  <2> QED
    BY <2>1, <1>1
<1> QED
  BY <1>2, <1>3, <1>4, <1>5, <1>6 DEF LeaseStep

LEMMA LockCrash ==
  ASSUME Inv, NEW h \in Hosts, CrashLease(h)
  PROVE  Lock!Next
<1> DEFINE U == {c \in Calls : HostOf[c] = h}
<1> USE DEF Inv, TypeOK
<1>1. \A b \in Calls : /\ b \in U => ~InSection(b)'
                       /\ b \notin U => (InSection(b)' <=> InSection(b)) /\ op'[b] = op[b]
  BY DEF CrashLease, Forget, InSection
<1>2. \A d \in Devices : leaseLock'[d] = Orphan
                           <=> leaseLock[d] = Orphan \/ \E b \in U : leaseLock[d] = b
  BY DEF CrashLease
<1>3. \A d \in Devices, b \in Calls : leaseLock[d] = b <=> InSection(b) /\ op[b].dev = d
  BY DEF LockHeldByHolder, Shape, ShapeOf
<1>4. Lock!Lose(U)
  BY <1>1, <1>2, <1>3 DEF Lock!Lose
<1> QED
  BY <1>4 DEF Lock!Next

\* The lease locks are an exclusive lock per device, for any number of calls in
\* any number of processes that may die at any time.
THEOREM LockRefinement == Spec => ImplementsLock
<1>1. Init => Lock!Init
  BY DEF Init, LeaseInit, Lock!Init, InSection
<1>2. Inv /\ [Next]_vars => [Lock!Next]_(Lock!vars)
  <2> SUFFICES ASSUME Inv, [Next]_vars PROVE Lock!Next \/ UNCHANGED Lock!vars
    OBVIOUS
  <2>1. ASSUME NEW c \in Calls, EnterSome(c) \/ LeaseStep(c) \/ UseResult(c)
        PROVE  Lock!Next \/ UNCHANGED Lock!vars
    BY <2>1, LockStep
  <2>2. ASSUME NEW h \in Hosts, CrashLease(h)
        PROVE  Lock!Next
    BY <2>2, LockCrash
  <2>3. CASE (\E s \in Sessions : SessionChange(s)) \/ Tick \/ UNCHANGED vars
    BY <2>3, LockStutter DEF SessionChange, leaseVars, Tick, vars, InSection
  <2> QED
    BY <2>1, <2>2, <2>3 DEF Next
<1> QED
  BY <1>1, <1>2, InvHolds, PTL DEF Spec, ImplementsLock, Lock!Spec

=============================================================================
