SPECIFICATION Spec
CONSTANTS
    A = A
    B = B
    r1 = r1
    r2 = r2
    r3 = r3
    NoPreset = NoPreset
    NoJob = NoJob
    Stop = Stop
    Presets = {A, B}
    FirstPreset = A
    PresetOf <- SecondWantsB
    Requests = {r1, r2, r3}
    Invalid = {}
    Preload = FALSE
    Steps = 2
    MaxQueued = 3
    PipeMayBlock = FALSE
    JobsFail = TRUE
    RunsOutOfVram = TRUE
    MaySignal = FALSE
    JoinMayTimeOut = FALSE
    MaxProbes = 0
INVARIANTS
    AcceptedIsAnswered
CHECK_DEADLOCK FALSE
