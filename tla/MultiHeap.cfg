SPECIFICATION FairSpec
CONSTANTS
    HeapStart = 4
    TotalSize = 76
    Reserve = 12
    MaxOffsets = 2
    GroupSize = 1
    Requests = {1, 5}
    MaxChurn = 2
    MaxGroups = 2
INVARIANTS
    TypeOK
    Tiling
    Ownership
    FreeSpaceKept
    CountersExact
    BytesExact
PROPERTIES
    LockReleased
    ImplementsAllocator
