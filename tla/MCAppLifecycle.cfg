SPECIFICATION Spec
CONSTANTS
    Slugs = {s1}
    Groups = {g1}
    Paths = {p1, p2}
    Clusters = {k3s}
    DefaultCluster = aks
    Requests = {r1, r2}
    Starts <- MCStarts
    MaxApps = 2
    MaxStarts = 4
    Mixes <- MCMixes
INVARIANTS AppInv ScaffoldedProjectSound NothingLeft
PROPERTY RepositoriesKept
SYMMETRY MCSymmetry
CHECK_DEADLOCK FALSE
