SPECIFICATION FairSpec
CONSTANTS
  Handlers = {h1, h2}
  Workers = {w1, w2}
  LeaseTTL = 2
  MaxRetries = 3
  MaxAttempts = 2
  MaxDeliveries = 2
  MaxFaults = 1
  MaxMisses = 1
INVARIANTS TypeOK AcknowledgedIsDispatched EndIsTold OneRepeatPerFault SomeoneIsResponsible
PROPERTIES TerminalIsFinal LeaseRespected Settles
CHECK_DEADLOCK FALSE
