CONSTANTS
  Runner = {r1}
  LastDate = 2
  Closed = {}
  RetryLimit = 1
  Modes = {"incremental", "dry_run"}
  MaxCrashes = 0
SPECIFICATION Spec
INVARIANTS
  SkipsOnlyIngested
