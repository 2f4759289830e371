\* The timing of the frozen protocol in small; one run may die at any step.
SPECIFICATION MCFairSpec
CONSTANTS
    BarLen = 2
    Holding = 3
    Cooldown = 6
    MaxDelay = 1
    MaxAge = 0
    None = None
    MaxTime = 8
    MaxQuotes = 4
    MaxCrashes = 1
INVARIANTS
    SafetyInvariant
    ExitAtFirstQuote
    DecisionsReplay
    NeverIgnored
PROPERTY PositionsClose
CHECK_DEADLOCK FALSE
