SPECIFICATION Spec
CONSTANTS
    Tasks = {t1}
    Addresses = {p1, p2}
    Null = Null
    Buffers = {"two", "one"}
    Length <- TwoLengths
    MaxAllocations = 3
    ReallocFails = FALSE
SYMMETRY Symmetry
VIEW InUse
INVARIANT
    CountInBuffer
