SPECIFICATION MCSpec
CONSTANTS
    worker = worker
    other = other
    manual = manual
    Proc <- MCProc
    Worker <- MCWorker
    PinOpenFiles = TRUE
    None = None
    MaxFaults = 3
    Operator = {first, second, third}
    MaxCrashes = 2
INVARIANTS
    MutualExclusion
    CommitPoint
    SupersededOnce
PROPERTIES
    RunsGoOn
    WriteOnce
    SupersessionRecorded
