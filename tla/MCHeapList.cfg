SPECIFICATION Spec
CONSTANTS
    Tasks = {t1, t2, t3}
    BootHeaps <- Booted
    StackHeaps = {"stack"}
    Regions = {r1, r2}
    Null = Null
SYMMETRY Symmetry
INVARIANTS
    Reachable
    OthersExclusive
PROPERTY
    GrowsAtHead
