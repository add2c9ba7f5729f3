SPECIFICATION ShellSpec
CONSTANTS
    CLUSTER_MAP_SIZE = 8
    DIRECTORY_SLOTS = 4
    Names = {a, b}
    Exts = {NoExt}
    Values = {v}
    Sizes = {1}
    EOF = 268435455
    CLUSTER_0_VALUE = 268435440
    NoEntry = NoEntry
    FullDisk = FALSE
    Shells = {s1}
    Commands = {"mkdir", "rm", "rm_rec", "cp", "cp_rec", "mv"}
    NoExt = NoExt
    DotDot = DotDot
    Home = Home
    MaxDirs = 0
    StaleWorkDir = FALSE
PROPERTIES
    CopyArrives
    MoveNeverLoses
CHECK_DEADLOCK FALSE
SYMMETRY NameSymmetry
