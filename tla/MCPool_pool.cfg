SPECIFICATION PoolSpec
CONSTANTS
    A = A
    B = B
    r1 = r1
    r2 = r2
    r3 = r3
    k1 = k1
    NoWorker = NoWorker
    NoKey = NoKey
    NoPreset = NoPreset
    Presets = {A, B}
    Keys = {k1}
    PresetOf <- OnlyA
    KeyOf <- AllShareKey
    ConfigPreset <- StartWithA
    ConfigCapacity <- TwoSlotsOnFirst
    RealCapacity <- TwoSlotsOnFirst
    AcceptedPresets <- PoolAccepts
    StickySessions = TRUE
    Preloads = {}
    CanCrash = {1}
    MaxStarts = 1
    MaxPauses = 1
    MaxEvents = 1
    ClientShutsDown = FALSE
    Requests = {r1, r2, r3}
    Workers = {1, 2}
INVARIANTS
    TypeOK
    CapacityRespected
    OneOwner
    NoJobForgotten
    AnnouncedForAll
    SecondAnswerOnlyAfterLoss
PROPERTIES
    NoOvertaking
    StickySessionsStay
    ImplementsJobService
SYMMETRY AllAlike
CHECK_DEADLOCK FALSE
