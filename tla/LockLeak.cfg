SPECIFICATION Spec
CONSTANTS
  c1 = c1  c2 = c2  c3 = c3  h1 = h1  h2 = h2  s1 = s1  s2 = s2  d1 = d1  d2 = d2
  Calls = {c1, c2}
  Hosts = {h1, h2}
  HostOf <- MCTwoHosts
  Crashing = {h2}
  Sessions = {s1}
  Devices = {d1}
  Tools = {"start", "tool"}
  WriteMayFail = FALSE
  TrackedEvents = {}
  LockAttempts = 2
  SessionLockAttempts = 2
  StaleAfter = 0
  MaxClock = 0
  LegacyLeases <- MCNoLegacy
  None = None
  Free = Free
  Orphan = Orphan
PROPERTY LiveCallsUnlock
