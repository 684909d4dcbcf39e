SPECIFICATION MCSpec
CONSTANTS
    n1 = n1
    n2 = n2
    s1 = s1
    Nodes = {n1, n2}
    Slots = {s1}
    MaxPending = 2
    MaxStaged = 1
    MaxDepth = 2
    MaxObservations = 1
    BatchSize = 1
    Worlds <- MCWorlds
    MaxDeliveries = 2
    MaxFaults = 2
    Daemons = {"d1", "d2"}
    Callers = {"c1"}
    MaxControlConnections = 2
    HasRoute = TRUE
INVARIANT
    ServedByWriter
PROPERTIES
    EventuallySettled
    ShutdownEnds
CHECK_DEADLOCK FALSE
