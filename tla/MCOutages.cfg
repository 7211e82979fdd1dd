SPECIFICATION FairSpec
CONSTANTS
    PerDay = 1
    PerStep = 2
    FirstDay = 2
    LastDay = 4
    HistoryDays = 1
    MarginDays = 0
    AheadDays = 2
    MaxAge = 1
    MaxVersions = 2
    MaxFaults = 1
    Contents <- OutageContents
CHECK_DEADLOCK FALSE
INVARIANTS TypeOK NoneIsMissed OnlyMovedOrPrunedOutlive WindowIsEnough
PROPERTY ArriveInTheEnd
