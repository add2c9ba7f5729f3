SPECIFICATION Spec
CONSTANTS
    PAGE_FRAME_MAX_COUNT = 4
    PAGING_DIRECTORY_TABLE_MAX_COUNT = 3
    PROCESS_PAGE_FRAME_COUNT_MAX = 2
    PROCESS_COUNT_MAX = 3
    EipCount = 1
    RequestFrames <- MCRequestFrames
    ProgramsExit = TRUE
    NoFrame = NoFrame
    NULL = NULL
    KernelDir = KernelDir
INVARIANTS
    UsedFramesHaveAProcess
CHECK_DEADLOCK FALSE
