SPECIFICATION Spec
CONSTANTS
  Workers = {w1, w2}
  Clients = {c1}
  Keys = {k1, k2}
  NoKey = nokey
  LeaseTTL = 2
  MaxRetries = 1
  Prompt = FALSE
  CallsMayFail = TRUE
  MaxHead = 2
  MaxRequests = 3
  MaxFaults = 2
SYMMETRY Symmetry
INVARIANTS TypeOK StatePayload
PROPERTIES CohortIsFinal LeaseRespected
CHECK_DEADLOCK FALSE
