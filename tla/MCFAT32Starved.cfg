SPECIFICATION Spec
CONSTANTS
    CLUSTER_MAP_SIZE = 5
    DIRECTORY_SLOTS = 4
    Names = {a, b}
    Exts = {x}
    Values = {v}
    Sizes = {2}
    EOF = 268435455
    CLUSTER_0_VALUE = 268435440
    NoEntry = NoEntry
    FullDisk = TRUE
INVARIANTS
    NoSharedCluster
    NoLostCluster
