SPECIFICATION NodeSpec
CONSTANTS
    LastRollout = 3
    JobOf <- OneEnsemble
    Asked <- MembersAsk
    Pooled <- MembersPooled
    Steps = 4
    PoolSize = 2
    MaxInflight = 1
    Retain = 2
    Dirs = {"a", "out"}
    DefaultDir = "out"
    MaxFailures = 2
    NoDir = NoDir
    NoFile = NoFile
    Torn = Torn
    analysis = analysis
    day = day
    e = e
    pid1 = pid1
    pid2 = pid2
    c1 = c1
    c2 = c2
    r1 = r1
    r2 = r2
    Procs = {pid1, pid2}
    IngestRequests = {analysis}
    Keys = {day}
    KeyOf <- TheDay
    Files = {e}
    FileOf <- TheEntry
    Contents = {"old", "new"}
    FirstInput <- OldInputs
    MaxChanges = 1
    None = None
    Error = Error
    Plans <- AllShapes
    RolloutSteps = 2
    Settings <- UsualSettings
    LoraSteps = 3
    WarmupIters = 1
    MoreIters = {2}
    Lengths = {4}
    Generators = {"s", "t"}
    MaxLoads = 2
    Resolutions <- SmallImages
    Window <- SmallWindow
    Layers = 3
    Stochastic = {TRUE, FALSE}
    Children = {pid1, pid2}
    Clients = {c1, c2}
    Requests = {r1, r2}
    MaxProgress = 1
    MaxExtra = 1
    MaxParties = 3
INVARIANTS
    NodeTypeOK
    CompletedIsOnDisk
    AWholeStepSurvives
    UnifiedExportsItsSteps
    OnlyTheEastHalfRaces
    FlagsAreTrue
    AppliesItsLayer
    LayersMeet
    LayoutsAgree
    MaskFollowsTheGlobe
    StoppedAreDown
    ForecastIsComplete
PROPERTIES
    UnspoiltReplaysExactBatch
CHECK_DEADLOCK FALSE
