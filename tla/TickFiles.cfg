SPECIFICATION MCSpec
CONSTANTS
    Days = 2
    MaxHalves = 6
    MaxDeaths = 1
    Clock <- MCClock
    Heartbeats <- MCHeartbeats
    Snapshots <- MCSnapshots
    Checkpoint = 1
    Review = 2
CHECK_DEADLOCK FALSE
INVARIANTS
    ArchiveComplete
    DatasetExact
    ReadyCountsOnce
    NothingUnseen
PROPERTIES
    ArchivedStays
    RereadOnlyAhead
    LinesArchived
