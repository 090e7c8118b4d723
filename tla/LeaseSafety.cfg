\* Two calls, two sessions, one device, every coordinator function, crashes,
\* staleness and a legacy lease.
SPECIFICATION Spec
CONSTANTS
  c1 = c1  c2 = c2  c3 = c3  s1 = s1  s2 = s2  d1 = d1  d2 = d2
  Calls = {c1, c2}
  Hosts = {c1, c2}
  HostOf <- MCHostOf
  Sessions = {s1, s2}
  Devices = {d1}
  LockAttempts = 2
  StaleAfter = 0
  MaxClock = 1
  LegacyLeases <- MCLegacy
  None = None
  Free = Free
  Orphan = Orphan
INVARIANTS TypeOK LockHeldByHolder EvictsWhatItJudged GrantedIsOwn
PROPERTIES NoHandover ImplementsLock
