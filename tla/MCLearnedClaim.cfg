SPECIFICATION Spec
CHECK_DEADLOCK FALSE
CONSTANTS
    Sources = {"dayahead"}
    SlotsPerDay = 3
    CheckStart = 1
    CheckCutoff = 2
    ForecastSlots = {0}
    LastSlot = 3
    MaxEntries = 1
    MaxFailures = 0
INVARIANT LearnedIsTheSlots
