SPECIFICATION Spec
CONSTANTS
    Ids = {i1, i2}
    Names = {n1, n2}
    Configs = {k1}
    Apps = {a1}
    Requests = {r1, r2}
    Kinds <- MCKinds
    MaxStarts = 3
    MaxRestarts = 1
INVARIANTS RegistryInv LiveClusterHasSecret LeftoversExplained
PROPERTY OrphansAreRaces
SYMMETRY MCSymmetry
CHECK_DEADLOCK FALSE
