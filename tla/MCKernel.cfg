SPECIFICATION FairSpec
CONSTANTS
    PAGE_FRAME_MAX_COUNT = 4
    PAGING_DIRECTORY_TABLE_MAX_COUNT = 4
    PROCESS_PAGE_FRAME_COUNT_MAX = 2
    PROCESS_COUNT_MAX = 3
    EipCount = 2
    RequestFrames <- MCRequestFrames
    ProgramsExit = TRUE
    NoFrame = NoFrame
    NULL = NULL
    KernelDir = KernelDir
INVARIANTS
    TypeOK
    ProcessTable
    RunningOwnsCPU
    ContextIntegrity
    FrameIsolation
    FrameAccounting
    BlankWhenUnused
PROPERTIES
    ImplementsPaging
    AddressSpaceStable
    ImplementsAddressSpaces
    NoStarvation
    StopsOnlyWithCause
CHECK_DEADLOCK FALSE
