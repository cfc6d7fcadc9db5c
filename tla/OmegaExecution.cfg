SPECIFICATION FairSpec
CONSTANTS
  Action = {a1, a2}
  NeedsApproval = {a1}
  PsiStatus = {"success"}
  Executor = {p1, p2}
  Nobody = Nobody
  MaxRetry = 1
  MaxRuns = 3
  MaxRequests = 2
INVARIANTS
  TypeOK
  AttemptsNumbered
  RetriesOnRecord
  NoEffectUnapproved
PROPERTIES
  RejectionStands
  AttemptsLogged
  RunsEnd
CHECK_DEADLOCK FALSE
