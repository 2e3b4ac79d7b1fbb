--------------------------- MODULE MCIntegration ---------------------------
EXTENDS Integration, TLC

CONSTANTS s1, s2, main, topic

MCSymmetry == Permutations(Sessions)

============================================================================
