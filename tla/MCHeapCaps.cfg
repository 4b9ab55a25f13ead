SPECIFICATION Spec
CONSTANTS
    Tasks = {t1, t2}
    Region <- Nesting
    BootList <- NestingList
    StackHeaps = {"stack"}
    Diram = {"diram"}
    MirrorBase = 50
    NoHeap = NoHeap
    Junk = Junk
    Adders = {t1}
    Requests = {1, 2}
    Attempts <- TwoAttempts
    MaxHeld = 1
INVARIANTS
    TypeOK
    NothingLost
    CapsKept
    Findable
    DataKept
    AskedInOrder
