CONSTANTS
  a = a
  b = b
  c = c
  Source = {a, b}
  NoSource = NoSource
  Requested = {b, c}
  Policy <- MCPolicy
  Sync = {y1}
  Monitor = {m1}
  Lookback = 2
  OpenTicks = 2
  MinSuccess = 50
  MaxFailure = 50
  MaxFallback = 50
  MaxEmpty = 50
SPECIFICATION FairSpec
INVARIANTS
  TypeOK
  FallbackOrder
PROPERTIES
  FailureNoted
  BlameDue
  CreditDue
  OpenUntilHonoured
  Readmitted
  Recovers
