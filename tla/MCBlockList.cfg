SPECIFICATION Spec
CONSTANTS
    Groups = {1, 2, 3, 4, 5, 6, 7, 8, 9}
    Shapes <- BroadAndHigh
INVARIANTS
    TypeOK
    HoldsEntries
    Sorted
    GroupsOwned
    Tidy
    CountClose
VIEW Renumbered
