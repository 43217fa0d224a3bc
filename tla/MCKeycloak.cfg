SPECIFICATION Spec
CONSTANTS
    Instances = {k1}
    Urls = {u1, u2}
    Legacy = Legacy
    Clusters = {c1}
    Requests = {r1, r2}
    Starts <- MCStarts
    MaxApps = 2
    MaxStarts = 3
    Mixes <- MCMixes
SYMMETRY Symmetry
INVARIANTS KeycloakInv ProvisionedUsable NoOrphanRealm
PROPERTIES ForeignRealmUntouched RefusedForOwnKeys
CHECK_DEADLOCK FALSE
