--------------------------- MODULE MCVideoService ---------------------------
EXTENDS VideoService, TLC

ConnSymmetry == Permutations(Conns)
=============================================================================
