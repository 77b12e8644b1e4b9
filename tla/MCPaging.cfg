SPECIFICATION FairSpec
CONSTANTS
    Rows = {1, 2, 3, 4}
    New = 9
    Ledgers <- MCLedgers
    Starts = {0, 2}
    Counts = {0, 1, 3, 9}
    DefaultCount = 2
    MaxCount = 5
    MaxRows = 6
INVARIANTS
    TypeOK
    WalkIsComplete
    CalmWalkIsExact
PROPERTIES
    WalkEnds
