SPECIFICATION Spec
CONSTANTS
    GroupSize = 3
    Sizes = {1, 2, 3, 4, 5, 6, 7}
    Offsets <- MCOffsets
    MaxDrift = 1
INVARIANT
    LargestReported
