CONSTANTS
  Runner = {r1, r2}
  LastDate = 2
  Closed = {}
  RetryLimit = 0
  Modes = {"incremental", "repair"}
  MaxCrashes = 0
SPECIFICATION Spec
SYMMETRY Symmetry
INVARIANTS
  WatermarkIsBacked
  NoDayUnseen
CHECK_DEADLOCK FALSE
