CONSTANTS
  Load = {1, 2}
  Daily = TRUE
  MaxTime = 2
SPECIFICATION Spec
INVARIANTS
  AsOfWasVisible
CHECK_DEADLOCK FALSE
