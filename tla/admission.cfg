SPECIFICATION Spec
CONSTANTS
    k1 = k1
    a1 = a1
    c1 = c1
    c2 = c2
    o1 = o1
    o2 = o2
    o3 = o3
    Calls = {c1, c2}
    Ops = {o1, o2, o3}
    Keys = {k1}
    Arts = {a1}
    NoKey = NoKey
    NoArt = NoArt
    MaxReferences = 1
    MaxPending = 1
    MaxOpen = 1
    MaxFence = 1
    MaxEvents = 3
    Worlds <- MCWorlds
SYMMETRY Symmetries
INVARIANTS
    OneEventPerOperation
    LineageIsAChain
CHECK_DEADLOCK FALSE
