------------------------- MODULE MCRouteActivation -------------------------
EXTENDS RouteActivation, TLC
Symmetry == Permutations(Keys)
=============================================================================
