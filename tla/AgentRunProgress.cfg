SPECIFICATION FairSpec
CONSTANTS
  Workers = {w1, w2}
  NSteps = 4
  Gated = {2, 4}
  Local = {1, 4}
  RetryOnce = {1}
  ContextMayFail = FALSE
  LeaseTTL = 1
  ApprovalTTL = 1
  MaxRetries = 1
  MaxClock = 0
  MaxContext = 0
  MaxFaults = 0
INVARIANT SomeoneIsResponsible
PROPERTY Settles
CHECK_DEADLOCK FALSE
