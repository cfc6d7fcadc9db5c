CONSTANTS
  s1 = s1
  s2 = s2
  k1 = k1
  k2 = k2
  None = None
  Scheduler = {s1, s2}
  Schedule = {k1}
  Looping = {s1, s2}
  Malformed = {}
  MaxFaults = 0
  Frequency <- MCFrequency
  RetryBackoff <- MCRetryBackoff
  LockTimeout <- MCLockTimeout
SPECIFICATION Spec
INVARIANTS
  OneExecutor
