SPECIFICATION Spec
CHECK_DEADLOCK FALSE
CONSTANTS
    Ticks = 2
    SlotsPerHour = 2
    MaxFill = 2
    Surcharge = 1
    Vat = 125
    Targets = {4, 8, 16}
    DayAheadLead = 8
    KeepTicks = 20
    AheadTicks = 16
    MinSamples = 2
    AccuracyDays = 2
    WindowTicks = 24
    PageSize = 1
    MaxPages = 2
    MinWindow = 2
    NearTermDays = 1
    GasLookback = 2
    GasBandDays = 2
    GasMaxBands = 3
    MinRows = 3
    Folds = 2
    DaySlots = 6
    WeekDays = 2
    FirstAnchor = 1
    LastAnchor = 4
    Lookback = 2
    Sources = {"a", "b"}
CONSTANT Wall <- WallDays
CONSTANT BucketEnds <- Ends
CONSTANT BiasWindow <- Windows
INVARIANTS
    PricesKeepTheirSlots
    
    ForecastsAreScored
    
    AnswersAreFollowed
