-------------------------- MODULE MCModelSelection --------------------------
EXTENDS ModelSelection
MCCandidates == 1..2
MCRuns == MCCandidates \X (Axes \cup {"stage"})
=============================================================================
