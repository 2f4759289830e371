\* No run dies; a cooldown shorter than the holding time, so that signals
\* come while a position is open.
SPECIFICATION MCSpec
CONSTANTS
    BarLen = 2
    Holding = 4
    Cooldown = 2
    MaxDelay = 1
    MaxAge = 1
    None = None
    MaxTime = 9
    MaxQuotes = 5
    MaxCrashes = 0
INVARIANTS
    IgnoredExactlyWhileOpen
PROPERTY AccountSpec
CHECK_DEADLOCK FALSE
