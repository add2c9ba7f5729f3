SPECIFICATION ShellSpec
CONSTANTS
    CLUSTER_MAP_SIZE = 7
    DIRECTORY_SLOTS = 4
    Names = {a, b}
    Exts = {NoExt}
    Values = {v}
    Sizes = {1}
    EOF = 268435455
    CLUSTER_0_VALUE = 268435440
    NoEntry = NoEntry
    FullDisk = FALSE
    Shells = {s1}
    Commands = {"cd", "mkdir", "rm", "mv"}
    NoExt = NoExt
    DotDot = DotDot
    Home = Home
    MaxDirs = 1
    StaleWorkDir = TRUE
INVARIANTS
    InvalidParentRefused
CHECK_DEADLOCK FALSE
SYMMETRY NameSymmetry
