CONSTANTS
  s1 = s1
  s2 = s2
  k1 = k1
  k2 = k2
  None = None
  Scheduler = {s1, s2}
  Schedule = {k1, k2}
  Looping = {}
  Malformed = {k2}
  MaxFaults = 2
  Frequency <- MCFrequency
  RetryBackoff <- MCRetryBackoff
  LockTimeout <- MCLockTimeout
SPECIFICATION Spec
SYMMETRY Symmetry
INVARIANTS
  TypeOK
  LeaseHonoured
  ExclusiveWhileLeased
  TickTruth
  StoppedLeavesNoLock
PROPERTIES
  LiveLockKeepsOwner
  LeasesGranted
