CONSTANTS
    Width = 512
    Header = 16
    Entry = 12
    Tags = 8
    Reserve = 16
    SizeMax = 256
    Types = {"dram", "iram", "diram", "spiram", "stack"}
    StartupStack = {"stack"}
    Internal = {"dram", "diram", "stack"}
    Merged = merged
    Layouts <- MCLayouts
    Memory <- MCMemory
    Additions <- MCTooSmall
    Sizes = {0, 7, 40, 300, 510}
    MaxBlocks = 4

SPECIFICATION Spec


INVARIANT TooSmallRefused

CHECK_DEADLOCK FALSE
