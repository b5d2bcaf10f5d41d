SPECIFICATION SettingsSpec
CONSTANTS
    A = A
    B = B
    r1 = r1
    r2 = r2
    r3 = r3
    NoPreset = NoPreset
    NoJob = NoJob
    Stop = Stop
    Presets = {A, B}
    FirstPreset = A
    PresetOf <- SecondWantsB
    Requests = {r1, r2, r3}
    Invalid = {r3}
    Preload = TRUE
    Steps = 1
    MaxQueued = 3
    PipeMayBlock = FALSE
    JobsFail = TRUE
    RunsOutOfVram = FALSE
    MaySignal = FALSE
    JoinMayTimeOut = TRUE
    MaxProbes = 1
INVARIANTS
    TypeOK
    JobsAreAnswered
    EventsInOrder
    HealthIsTrue
    RunsOnItsModel
PROPERTIES
    JobsReceivedAreAnswered
    StopCompletes
CHECK_DEADLOCK FALSE
