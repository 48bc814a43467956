SPECIFICATION FairSpec
CONSTANTS
  Workers = {w1, w2}
  MaxAttempts = 2
  MaxFaults = 1
  MaxLapses = 1
INVARIANTS TypeOK RecommendationSeesFamily SomeoneIsResponsible
PROPERTIES FamilyLifecycle FamilySettles
CHECK_DEADLOCK FALSE
