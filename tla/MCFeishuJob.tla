---------------------------- MODULE MCFeishuJob ----------------------------
EXTENDS FeishuJob, TLC
Symmetry == Permutations(Workers) \cup Permutations(Handlers)
=============================================================================
