\* One run may die between its appends and its save.
SPECIFICATION MCSpec
CONSTANTS
    BarLen = 2
    Holding = 3
    Cooldown = 6
    MaxDelay = 1
    MaxAge = 0
    None = None
    MaxTime = 9
    MaxQuotes = 4
    MaxCrashes = 1
INVARIANT OnePositionAtMost
CHECK_DEADLOCK FALSE
