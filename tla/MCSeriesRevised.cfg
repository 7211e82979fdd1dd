SPECIFICATION FairSpec
CONSTANTS
    LastPoint = 0
    PerDay = 1
    MaxDays = 1
    Back = 1
    Margin = 0
    LastRev = 3
    Revised = TRUE
    Limited = FALSE
    Shift = 0
    RecentDays = 1
    RecentWait = 1
    HistoryWait = 2
    Updates = {"u1", "u2"}
    MaxFaults = 1
PROPERTY RevisedInTheEnd
