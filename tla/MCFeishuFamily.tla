--------------------------- MODULE MCFeishuFamily ---------------------------
EXTENDS FeishuFamily, TLC
Symmetry == Permutations(Workers)
=============================================================================
