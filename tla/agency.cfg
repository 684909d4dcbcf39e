SPECIFICATION AgencySpec
CONSTANTS
    a1 = a1
    a2 = a2
    b1 = b1
    p1 = p1
    p2 = p2
    Principals = {p1}
    Attachments = {a1, a2}
    NoAttachment = NoAttachment
    Owner <- OnePrincipal
    CurrentOps = {x1, x2}
    Lifetime = 1
    MaxOpenHandlings = 2
    MaxObservations = 1
    MaxTime = 2
    MaxEvents = 4
    Procs = {x1, x2}
    Boundaries = {y1, y2}
    Intents = {"plain", "with"}
    Handles = {"h1", "h2"}
    Artifacts <- MCArtifacts
    NoIntent = NoIntent
    Nobody = Nobody
    MaxArtifactInputs = 1
    MaxCurrentOps = 2
    ObjectStores = {x1, x2}
    Attempts = 3
    MaxInodes = 3
    Installers = {x1, x2}
    Plan <- MCPlan
    MaxStages = 4
    Owners = {"o1", "o2"}
    Addresses = {1, 2}
    MaxKeys = 2
    Targets <- MCTargets
    MaxCommands = 2
    MaxFaults = 1
SYMMETRY Symmetries
INVARIANTS
    OccupancyIsExclusive
    EveryFenceEndsOnce
    ResolvedWithEveryReplySeen
    EffectOnce
    ObjectIsKept
    InstalledIsExact
    ConvergesForward
    CardsHold
    DoneIsDone
PROPERTIES
    LeastAttendedFirst
    ReceiptShown
CHECK_DEADLOCK FALSE
