SPECIFICATION Spec
CONSTANTS
    Tasks = {t1, t2}
    Addresses = {p1, p2, p3}
    Null = Null
    Buffers = {"two", "one"}
    Length <- TwoLengths
    MaxAllocations = 3
    ReallocFails = TRUE
SYMMETRY Symmetry
VIEW InUse
INVARIANTS
    TypeOK
    RecordersInside
    LeaksAreLive
    LeaksKept
    FreesMatch
    OverflowTold
