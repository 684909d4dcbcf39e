CONSTANTS
    Procs = {p1, p2}
    Contents <- MCContents
    About <- MCAbout
    Similar <- MCSimilar
    Overlaps <- MCOverlaps
    Drafts <- MCDrafts
    LinkTypes = {"causal", "supersedes"}
    MaxInsights = 2
    PruneBatchSize = 2
    MaxOplogEntries = 3
    MaxEntityLinks = 1
    MaxProximityEdges = 1
    CausalLookback = 2
    MaxRows = 4
    Worlds <- MCWorlds
    Openers = {o1, o2}
    Names = {"default", "work"}
    FileWorlds <- MCFileWorlds
    Queries <- MCQueries
    IntentWeights <- MCIntentWeights
    AnchorTopK = 1
    BeamWidth = 2
    MaxDepth = 2
    MaxVisited = 3
    RecallLimit = 3
    Q1 = Q1
    Q2 = Q2
    RecValues = {"a"}
    RecQueries = {Q1, Q2}
    RecOverlays = {"x", "y"}
    RecKept = 2
    RecWorlds <- MCRecWorlds
SPECIFICATION MCSpec
SYMMETRY Symmetries
INVARIANTS
    EdgesMeetActive
    RelatedIsNearest
    CausesComeFirst
    OpenedIsCurrent
    AnswersAreTheRevision
    CacheKeepsUp
PROPERTY
    ImportLands
CHECK_DEADLOCK FALSE
