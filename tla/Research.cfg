SPECIFICATION MCSpec
CONSTANTS
    Second = 2
    Hour = 2
    Day = 8
    SessionStarts = {0, 2}
    ReturnHorizons = {1, 3}
    VolatilityWindow = 2
    SpreadWindow = 2
    MaximumCarry = 2
    LevelWindows = {2, 4}
    BreakoutWindow = 2
    MinimumBreakout = 2
    RangeWindows <- MCRangeWindows
    DecisionBar = 2
    MaximumSilence = 2
    HourWindows = {2, 4}
    Latency = 1
    EntryDelay = 2
    ExitDelay = 2
    ContinuityGap = 3
    Horizon = 2
    HourHorizon = 6
    MaximumSpread = 1
    WeekDays = 2
    OpenWindows <- MCOpenWindows
    Closures <- MCClosures
    Offset = 1
    EffectiveFrom = 0
    EffectiveTo = 2
    StaleQuote = 1
    ShortInterruption = 2
    Bursts = {}
    MaxTicks = 23
    MaxTime = 156
    TrainDays = 1
    ValidationDays = 1
    TestDays = 2
    StepDays = 2
    Purge = 14
    Embargo = 14
    HoldoutDays = 0
    Holds = {1}
    RetestWindow = 2
    SweepWindow = 1
    HoldDelay = 1
    Confirmation = 2
    Tolerance = 1
    LabSpread = 1
    MaximumShock = 2
    MinimumActivity = 1
    TrailingActivation = 3
    TrailingDistance = 2
    Slippage = 1
    DecisionInterval = 4
    EpisodeSpacing = 16
    ExitHorizons = {4}
    Pressures = {2, 6}
    SpreadCaps = {1}
    LimitWait = 2
    MinimumTrain = 1
    MinimumValidation = 1
    MinimumTest = 1
    Waits = {0, 2}
    Pullbacks = {0, 1}
    HoldingTimes = {2}
    Stops = {3}
    Targets = {3}
    QuoteDelay = 2
    PathMargin = 4
    MinimumEpisodes = 1
    MinimumTestEpisodes = 1
    Stages <- MCStages
    QuickFailure = 2
    QuickFailureAfter = 3
    PartialTarget = 2
    RunnerTrailing = 2
    BasketStop = 6
    FixedHolding = 3
    RunnerHolding = 4
    ConfirmationDelay = 1
    MinimumDistance = 3
    MaximumCompression = 100
    M15Time = 4
    H1Time = 4
    H4Time = 8
    FastBars = 2
    SlowBars = 3
    AtrBars = 2
    ZoneExpiry = 2
    ZoneDisplacement = 50
    ShortWindow = 2
    LongWindow = 4
    LevelWindow = 4
    GoldEfficiency = 35
    GoldExpansion = 110
    GoldDisplacement = 80
    GoldCooldown = 5
    Month = 8
    WarmupMonths = 1
    SealedMonths = 1
    TickLatency = {0, 1}
    TickDelay = 0
    MaxGoldBars = 15
CHECK_DEADLOCK FALSE
INVARIANTS
    StreamsHold
    OutcomesHold
    EpisodesOnce
    AuditHolds
    TradesHold
    ChosenBlind
    PathsHold
    GoldHolds
