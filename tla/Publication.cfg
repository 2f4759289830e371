SPECIFICATION MCSpec
CONSTANTS
    Callers = {c1, c2}
    MaxCalls = 3
    MaxDeaths = 1
    Zone = 1
    DayLength = 2
    BatchSize = 2
    GapThreshold = 1
    Ingesters = {c1, c2}
    MaxIngests = 3
    MaxNewsDeaths = 1
    Articles <- Responses
    Latency = 1
    Slip = 1
    Commission = 1
    Quantity = 1
    MaxTicks = 5
    MaxReplays = 2
    Intents <- MCIntents
    TickQuotes <- MCTickQuotes
    Datasets <- MCDatasets
    Labs = {stored, rewritten}
    WriteOnce = {stored}
    Researchers = {c1, c2}
    MaxRuns = 4
    MaxRunDeaths = 1
    Writers = {c1, c2}
    MaxWrites = 2
    FeatureConfigs = {"fine", "coarse"}
CHECK_DEADLOCK FALSE
INVARIANTS
    OneManifest
    PublishedIsWhole
    RefusedOnlyAfterTrouble
    RegistryHolds
    LineageHolds
    ReplayHolds
    BacktestHolds
PROPERTIES
    FirstSeenStays
