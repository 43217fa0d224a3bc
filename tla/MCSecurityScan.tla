--------------------------- MODULE MCSecurityScan ---------------------------
EXTENDS SecurityScan, TLC

MCSymmetry == Permutations(Callbacks)
=============================================================================
