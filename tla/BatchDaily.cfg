CONSTANTS
  Load = {1, 2}
  Daily = TRUE
  MaxTime = 3
SPECIFICATION Spec
INVARIANTS
  TypeOK
  PublishedIsWhole
PROPERTIES
  PublishesOnce
  LatestNeverGoesBack
  AsOfSettles
CHECK_DEADLOCK FALSE
