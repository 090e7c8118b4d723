SPECIFICATION RemFairSpec
CONSTANTS
  c1 = c1  c2 = c2  c3 = c3  h1 = h1  s1 = s1  d1 = d1
  Calls = {c1, c2}
  Hosts = {h1}
  HostOf <- MCOneHost
  Crashing = {h1}
  Sessions = {s1}
  Devices = {d1}
  Tools = {"start", "end", "tool"}
  WriteMayFail = TRUE
  TrackedEvents = {}
  LockAttempts = 2
  SessionLockAttempts = 2
  StaleAfter = 0
  MaxClock = 1
  LegacyLeases <- MCNoLegacy
  None = None
  Free = Free
  Orphan = Orphan
INVARIANTS RemTypeOK RecoveryStaysOutside TaskOutlivesRecovery
PROPERTIES ImplementsOrchestration ImplementsCoordinator EveryCallEnds
