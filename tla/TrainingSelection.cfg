SPECIFICATION FairSpec
CONSTANTS
  Candidates <- MCCandidates
  Runs <- MCRuns
  Axes = {"early"}
  MaxEpochs = 3
  Interval = 1
  Patience = 2
  KeepRecent = 1
  Metrics = {1, 2}
  Stage1Limit = 1
  Finalists = 1
  MaxCrashes = 2
  MaxSignals = 1
INVARIANTS TypeOK PointersResolve RunAsUninterrupted SelectionIsReproducible
PROPERTIES SelectionSettles
