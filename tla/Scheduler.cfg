SPECIFICATION LiveSpec
CONSTANTS
    MAX_TASKS = 4
    NULL = NULL
    CLK_QUANTUM = 2
    Handlers = {1}
    OperPrv = {0}
    OthersToo = TRUE
CHECK_DEADLOCK FALSE
INVARIANTS
    TypeOK
    ReadyQueueSound
    SuspQueueSound
    KernelSurvives
PROPERTIES
    SuspendedForever
    ImplementsFIFO
    NoStarvation
    NewTaskRuns
