--------------------------- MODULE MCClusterHealth ---------------------------
EXTENDS ClusterHealth

MCKinds == AllRequestKinds
=============================================================================
