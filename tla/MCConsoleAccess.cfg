SPECIFICATION FairSpec
CONSTANTS
    Users = {u1}
    Requests = {r1}
    Worker = Worker
    Levels <- MCLevels
    Profiles <- MCProfiles
    MaxStarts = 2
    MaxUpsets = 1
INVARIANTS ConsoleInv
PROPERTIES KeptWhileMaintainer AccountsAsPromised EventuallyMirrored
CHECK_DEADLOCK FALSE
