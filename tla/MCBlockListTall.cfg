SPECIFICATION Spec
CONSTANTS
    Groups = {1, 2, 3, 4, 5, 6, 7, 8}
    Shapes <- OnlyTall
INVARIANT
    OffsetsAreFree
VIEW Renumbered
