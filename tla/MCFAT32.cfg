SPECIFICATION Spec
CONSTANTS
    CLUSTER_MAP_SIZE = 6
    DIRECTORY_SLOTS = 4
    Names = {a}
    Exts = {x, y}
    Values = {v, w}
    Sizes = {1, 2}
    EOF = 268435455
    CLUSTER_0_VALUE = 268435440
    NoEntry = NoEntry
    FullDisk = FALSE
INVARIANTS
    TypeOK
    NoSharedCluster
    NoLostCluster
    FilesWhole
    
PROPERTIES
    ImplementsFileStore
SYMMETRY KeySymmetry
