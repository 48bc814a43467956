----------------------------- MODULE MCAgentRun -----------------------------
EXTENDS AgentRun, TLC
Symmetry == Permutations(Workers)
=============================================================================
