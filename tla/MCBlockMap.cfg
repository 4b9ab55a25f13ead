SPECIFICATION Spec
CONSTANTS
    GroupSize = 3
    Sizes = {1, 2, 3, 4, 5, 6, 7, 8, 9, 10}
    Offsets <- MCOffsets
    MaxDrift = 1
INVARIANTS
    TypeOK
    Ordered
    HoldsEntries
    Tidy
    FitIsBest
    ReportedIsLast
    DeeperOnlyWhenFull
