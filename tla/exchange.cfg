SPECIFICATION Spec
CONSTANTS
    n1 = n1
    n2 = n2
    s1 = s1
    s2 = s2
    Nodes = {n1, n2}
    Slots = {s1, s2}
    MaxPending = 1
    MaxStaged = 1
    MaxDepth = 2
    MaxObservations = 1
    BatchSize = 1
    Worlds <- MCWorlds
    MaxDeliveries = 3
SYMMETRY Symmetries
INVARIANTS
    AtMostOnce
    WorkerSurvives
PROPERTIES
    Implements
CHECK_DEADLOCK FALSE
