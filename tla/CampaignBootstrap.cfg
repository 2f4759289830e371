\* Nobody dies: one rollover, and engine runs after it.
SPECIFICATION MCSpec
CONSTANTS
    worker = worker
    other = other
    manual = manual
    Proc <- MCProc
    Worker <- MCWorker
    PinOpenFiles = TRUE
    None = None
    MaxFaults = 0
    Operator = {first, second, third}
    MaxCrashes = 0
INVARIANT BootstrapHolds
