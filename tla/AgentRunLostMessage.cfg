SPECIFICATION Spec
CONSTANTS
  Workers = {w1, w2}
  NSteps = 2
  Gated = {}
  Local = {}
  RetryOnce = {}
  ContextMayFail = FALSE
  LeaseTTL = 1
  ApprovalTTL = 1
  MaxRetries = 1
  MaxClock = 0
  MaxContext = 0
  MaxFaults = 1
INVARIANT SomeoneIsResponsible
CHECK_DEADLOCK FALSE
