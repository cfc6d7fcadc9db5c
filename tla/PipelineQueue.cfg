CONSTANTS
  Runner = {r1}
  LastDate = 3
  Closed = {2}
  RetryLimit = 1
  Modes = {"incremental", "backfill", "rerun", "dry_run", "repair"}
  MaxCrashes = 0
SPECIFICATION Spec
INVARIANTS
  FailedRunIsQueued
  SuccessClosesItems
