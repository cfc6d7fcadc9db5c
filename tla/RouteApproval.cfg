CONSTANTS
  c1 = c1
  c2 = c2
  s1 = s1
  s2 = s2
  batch = batch
  single = single
  k1 = k1
  Control = {c1, c2}
  Signer = {s1, s2}
  Process = {p1, p2}
  Batch = {b1}
  Nobody = Nobody
  GivenKey = {k1}
  Selector = {batch, single}
  Covers <- MCCovers
  Message <- MCMessage
  PolicyMin = 1
  MaxRequests = 2
  MaxDisturbances = 1
SPECIFICATION Spec
SYMMETRY Symmetry
INVARIANTS
  TypeOK
  DecidedByQuorum
  OneWorkerPerCommand
PROPERTIES
  DecisionStands
  CommandsRunOnce
CHECK_DEADLOCK FALSE
