-------------------------- MODULE MCClusterRegistry --------------------------
EXTENDS ClusterRegistry, TLC

MCKinds == AllKinds
MCSymmetry == Permutations(Requests)

=============================================================================
