SPECIFICATION Spec
CONSTANTS
    Tasks = {t1, t2}
    Region <- Adding
    BootList <- AddingList
    StackHeaps = {}
    Diram = {}
    MirrorBase = 50
    NoHeap = NoHeap
    Junk = Junk
    Adders = {t1, t2}
    Requests = {1, 2}
    Attempts <- Internal
    MaxHeld = 1
INVARIANT
    RegionsApart
