CONSTANTS
  Runner = {r1}
  LastDate = 4
  Closed = {2}
  RetryLimit = 1
  Modes = {"incremental"}
  MaxCrashes = 2
SPECIFICATION Spec
INVARIANTS
  TypeOK
  NoSilentGap
  OneDatePerCrash
CHECK_DEADLOCK FALSE
