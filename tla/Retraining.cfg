SPECIFICATION FairSpec
CONSTANTS
    Series = {s1}
    PriceDays = {d1}
    Backfills = {b1, b2}
    MaxChanges = 2
    MaxFaults = 1
    s1 = s1
    d1 = d1
    b1 = b1
    b2 = b2
INVARIANTS
    TypeOK
    FreshOrFlagged
    ReadOrFlagged

    
