SPECIFICATION FairSpec
CHECK_DEADLOCK FALSE
CONSTANTS
    Releases = {0, 1, 2, 3, 4, 5, 6, 7, 8, 9, 10}
    MaxStops = 2
INVARIANTS
    TypeOK
    OpenIsCurrent
PROPERTIES
    OnlyAResetForgets
    OpensInTheEnd
