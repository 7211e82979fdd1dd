SPECIFICATION BSpec
CONSTANTS
    LastDay = 3
    FirstDay = 1
    MaxDays = 2
    Margin = 1
    Revisions = {1}
    Forecasts = {f1}
    Backfills = {b1}
    NoPrice = NoPrice
    f1 = f1
    b1 = b1
INVARIANTS
    TypeOK
    
    NoDayIsSkipped
PROPERTIES
    TrimKeepsNewest
    OnlyLateForecastsMisdate
    BackfillFillsGaps
