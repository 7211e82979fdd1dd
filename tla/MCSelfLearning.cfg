SPECIFICATION Spec
CONSTANTS
    LastSlot = 1
    Runs = {r1, r2}
    Handlers = {h1, h2}
    Keep = 0
    PendingOver = 0
    LearnedUnder = 2
    MaxFaults = 1
    r1 = r1
    r2 = r2
    h1 = h1
    h2 = h2
SYMMETRY Symmetry
INVARIANTS
    TypeOK
    ScoredIsRemoved
    RemovedIsLearned
    QuietIsSaved
