SPECIFICATION Spec
CONSTANTS
    LastPoint = 1
    PerDay = 1
    MaxDays = 1
    Back = 0
    Margin = 0
    LastRev = 2
    Revised = TRUE
    Limited = FALSE
    Shift = 0
    RecentDays = 1
    RecentWait = 1
    HistoryWait = 1
    Updates = {"u1", "u2"}
    MaxFaults = 1
INVARIANT TypeOK
PROPERTY MirrorSpec
PROPERTY OnlyLackingIsPutOff
