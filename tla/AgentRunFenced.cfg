SPECIFICATION Spec
CONSTANTS
  Workers = {w1, w2}
  NSteps = 2
  Gated = {2}
  Local = {1}
  RetryOnce = {1}
  ContextMayFail = FALSE
  LeaseTTL = 1
  ApprovalTTL = 1
  MaxRetries = 1
  MaxClock = 1
  MaxContext = 1
  MaxFaults = 1
INVARIANT NoHalfCommit
PROPERTIES TerminalIsFinal LeaseRespected ImplementsLifecycle
CHECK_DEADLOCK FALSE
