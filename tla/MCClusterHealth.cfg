SPECIFICATION FairSpec
CONSTANTS
    Clusters = {c1}
    Apps = {a1}
    Requests = {r1}
    RequestKinds <- MCKinds
    LinkStates = {"up", "down", "silent", "unreadable"}
    Threshold = 2
    MaxRestarts = 2
INVARIANTS HealthInv OutageRemembered
PROPERTIES GraceRespected ReachableEndsOnline OutageEndsOffline OutageEnds
