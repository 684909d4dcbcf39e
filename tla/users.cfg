SPECIFICATION MCSpec
CONSTANTS
    Jobs = {"j1", "j2"}
    Worlds <- MCWorlds
    BatchUnits = 2
    MaxBatches = 2
    RequestUnits = 3
    Parallel = 2
    DropErrors = 2
    KeptBound = 2
    AnsweredCalls = 1
    k1 = k1
    k2 = k2
    r1 = r1
    r2 = r2
    e1 = e1
    e2 = e2
    e3 = e3
    Keys = {k1, k2}
    Requests = {r1, r2}
    Ids = {e1, e2, e3}
    Limit = 1
INVARIANTS
    NothingLost
    StoresAreOwned
PROPERTIES
    SavesMoveOn
    BacklogDrains
    CloseCloses
CHECK_DEADLOCK FALSE
