SPECIFICATION FairSpec
CHECK_DEADLOCK FALSE
CONSTANTS
    Sources = {"sensors", "dayahead"}
    SlotsPerDay = 3
    CheckStart = 1
    CheckCutoff = 2
    ForecastSlots = {0}
    LastSlot = 3
    MaxEntries = 2
    MaxFailures = 1
INVARIANTS
    TypeOK
    OneCheck
    OnlyWorkUnderWaySurvives
    OnlyAFailedReadMislearns
    TomorrowIsTomorrows
PROPERTIES
    ArrivesOnce
    ArrivalIsForecast
