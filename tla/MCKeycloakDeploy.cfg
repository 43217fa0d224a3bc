SPECIFICATION Spec
CONSTANTS
    k1 = k1
    k2 = k2
    u1 = u1
    u2 = u2
    c1 = c1
    c2 = c2
    Keys = {k1, k2}
    Urls = {u1, u2}
    Clusters = {c1, c2}
    Operators = {o1, o2}
    Targets <- MCTargets
    MaxRuns = 3
    MaxUpsets = 2
    None = None
SYMMETRY Symmetry
INVARIANTS
    DeployInv
    ActiveReachable
PROPERTY
    StaysActive
CHECK_DEADLOCK FALSE
