SPECIFICATION Spec
CONSTANTS
  Workers = {w1, w2}
  NSteps = 2
  Gated = {2}
  Local = {1}
  RetryOnce = {1}
  ContextMayFail = TRUE
  LeaseTTL = 1
  ApprovalTTL = 1
  MaxRetries = 1
  MaxClock = 0
  MaxContext = 0
  MaxFaults = 1
PROPERTY TerminalIsFinal
CHECK_DEADLOCK FALSE
