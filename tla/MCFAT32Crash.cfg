SPECIFICATION DiskSpec
CONSTANTS
    CLUSTER_MAP_SIZE = 6
    DIRECTORY_SLOTS = 4
    Names = {a, b}
    Exts = {x}
    Values = {v}
    Sizes = {1, 2}
    EOF = 268435455
    CLUSTER_0_VALUE = 268435440
    NoEntry = NoEntry
    FullDisk = FALSE
    MaxCuts = 1
    ENTRIES_PER_BLOCK = 2
    SLOTS_PER_BLOCK = 3
INVARIANTS
    DiskInSync
    CrashSparesOthers
    OwnersApart
SYMMETRY KeySymmetry
CHECK_DEADLOCK FALSE
