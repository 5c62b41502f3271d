SPECIFICATION Spec
CONSTANTS
    MAX_TASKS = 4
    NULL = NULL
    CLK_QUANTUM = 2
    Handlers = {1}
    OperPrv = {0}
    OthersToo = FALSE
CHECK_DEADLOCK FALSE
INVARIANT AlwaysATask
