SPECIFICATION Spec
CONSTANTS
    A = A
    B = B
    r1 = r1
    r2 = r2
    r3 = r3
    k1 = k1
    NoWorker = NoWorker
    NoKey = NoKey
    NoPreset = NoPreset
    Presets = {A, B}
    Keys = {k1}
    PresetOf <- LastWantsB
    KeyOf <- FirstTwoShareKey
    ConfigPreset <- StartWithA
    ConfigCapacity <- OneSlotEach
    RealCapacity <- OneSlotEach
    AcceptedPresets <- PoolAccepts
    StickySessions = TRUE
    Preloads = {1}
    CanCrash = {1}
    MaxStarts = 1
    MaxPauses = 1
    MaxEvents = 1
    ClientShutsDown = FALSE
    Requests = {r1, r2, r3}
    Workers = {1, 2}
INVARIANTS
    FillsIdleWorkers
SYMMETRY Alike
