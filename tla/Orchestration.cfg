SPECIFICATION Spec
CONSTANTS
  c1 = c1  c2 = c2  c3 = c3  h1 = h1  h2 = h2  s1 = s1  s2 = s2  d1 = d1  d2 = d2
  Calls = {c1, c2}
  Hosts = {c1, c2}
  HostOf <- MCOwnHost
  Crashing = {c1, c2}
  Sessions = {s1, s2}
  Devices = {d1}
  Tools = {"start", "end", "tool"}
  WriteMayFail = TRUE
  TrackedEvents = {"session_ended"}
  LockAttempts = 1
  SessionLockAttempts = 2
  StaleAfter = 0
  MaxClock = 1
  LegacyLeases <- MCNoLegacy
  None = None
  Free = Free
  Orphan = Orphan
INVARIANTS TypeOK SessionLockHeldByHolder BusyOnlyWhileLocked ClosedIffEnded
PROPERTY ImplementsSessionLock
SYMMETRY Symmetry
