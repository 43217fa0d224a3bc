SPECIFICATION FairSpec
CONSTANTS
    a1 = a1
    a2 = a2
    g1 = g1
    g2 = g2
    Apps = {a1, a2}
    Groups = {g1, g2}
    Owner <- MCOwner
    SystemGroups = {}
    Alike <- MCAlike
    NotRead = NotRead
    Requests = {r1, r2}
    Env <- MCEnv
    Pages <- MCPages
    Worlds <- MCWorlds
    Firsts <- MCFirsts
    Payloads <- MCPayloads
    AppPayloads <- MCAppPayloads
    PerMinute = 1
    PerDay = 2
    Budget = 2
    MAX_TOOL_ROUNDS = 1
    max_retries = 1
    MaxCalls = 1
    Day = 2
    MaxTime = 2
    MaxAsks = 3
    MaxUpsets = 1
    NoRow = NoRow
INVARIANTS
    AssistantInv
    LimitsHold
    ToldWasPermitted
CHECK_DEADLOCK FALSE
PROPERTY
    EveryQuestionEnds
