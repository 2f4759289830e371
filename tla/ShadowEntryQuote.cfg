\* Quotes may be one unit old; nobody dies.
SPECIFICATION MCSpec
CONSTANTS
    BarLen = 2
    Holding = 3
    Cooldown = 6
    MaxDelay = 1
    MaxAge = 1
    None = None
    MaxTime = 6
    MaxQuotes = 4
    MaxCrashes = 0
INVARIANT EntryAtFirstQuote
CHECK_DEADLOCK FALSE
