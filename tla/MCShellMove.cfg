SPECIFICATION ShellSpec
CONSTANTS
    CLUSTER_MAP_SIZE = 6
    DIRECTORY_SLOTS = 4
    Names = {a, b}
    Exts = {NoExt}
    Values = {v}
    Sizes = {1}
    EOF = 268435455
    CLUSTER_0_VALUE = 268435440
    NoEntry = NoEntry
    FullDisk = FALSE
    Shells = {s1}
    Commands = {"cd", "mkdir", "rm", "rm_rec", "cat", "cp", "cp_rec", "mv"}
    NoExt = NoExt
    DotDot = DotDot
    Home = Home
    MaxDirs = 1
    StaleWorkDir = FALSE
PROPERTIES
    MoveReachesDestination
CHECK_DEADLOCK FALSE
SYMMETRY NameSymmetry
