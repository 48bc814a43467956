SPECIFICATION FairSpec
CONSTANTS
  Workers = {w1, w2}
  Clients = {c1}
  Keys = {k1}
  NoKey = nokey
  LeaseTTL = 2
  MaxRetries = 3
  Prompt = TRUE
  CallsMayFail = FALSE
  MaxHead = 2
  MaxRequests = 1
  MaxFaults = 1
INVARIANT SomeoneIsResponsible
PROPERTY Settles
CHECK_DEADLOCK FALSE
