SPECIFICATION Spec
CONSTANTS
    MAX_TASKS = 4
    MEM_NMCBS = 14
    Creators = {c1}
    Types <- MCAllTypes
    PageSize = 4
    StackSize = 2
    BufSize = 1
    FreeAddr = 14
    FreeSize = 26
    IOAddr = 36
    IOSize = 4
    WORD = 2048
    minspid = 1
    maxspid = 3
    minupid = 4
    maxupid = 6
CHECK_DEADLOCK FALSE
INVARIANTS
    TypeOK
    ChunksDisjoint
    MemoryConserved
    ReadyTasksComplete
    PidsUnique
    RefusedOwnNothing
