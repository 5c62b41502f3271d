SPECIFICATION Spec
CONSTANTS
    MAX_TASKS = 16
    MEM_NMCBS = 128
    Creators = {c1}
    Types <- MCBigTypes
    PageSize = 4
    StackSize = 2
    BufSize = 1
    FreeAddr = 14
    FreeSize = 114
    IOAddr = 124
    IOSize = 4
    WORD = 2048
    minspid = 1
    maxspid = 63
    minupid = 64
    maxupid = 511
CHECK_DEADLOCK FALSE
INVARIANT ScanEnds
