SPECIFICATION Spec
CONSTANTS
  Runs = {cpmlp, hybrid}
  MaxEpochs = 2
  Interval = 1
  Patience = 2
  KeepRecent = 1
  Metrics = {1, 2}
  MaxCrashes = 1
  MaxSignals = 1
INVARIANTS InterruptedIsResumed
CHECK_DEADLOCK FALSE
