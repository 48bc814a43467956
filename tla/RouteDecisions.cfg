SPECIFICATION Spec
CONSTANTS
  Routes = {r1, r2}
  Artifacts = {a1, a2}
  None = none
  Keys = {k1, k2, k3, k4}
  Retirable = {a1}
  MaxDecisions = 4
SYMMETRY Symmetry
INVARIANTS TypeOK LedgerIsSound OneDecisionPerHead RetryIsAnswered ListedTogether
PROPERTY ImplementsRouteHead
CHECK_DEADLOCK FALSE
