SPECIFICATION MCSpec
CONSTANTS
    Editors = {"ann", "bob"}
    Evaluators = {"eve", "joe"}
    Signals = 2
    Returns <- MCExits
    MaxDeaths = 1
    MaxWeekly = 2
    MaxFills = 2
    Now = 7
    DayLength = 1
    MinWeeks = 1
    MinTrades = 2
    MinDays = 2
    MinProfitFactor = 110
    MinCoverage = 98
    MaxBestDay = 60
    MaxTopFive = 100
CHECK_DEADLOCK FALSE
INVARIANTS
    InvalidatedNeverCounts
    AloneItHolds
    WeeklyOnce
    DrawdownIsWorstStretch
