SPECIFICATION CSpec
CONSTANTS
    MAX_TASKS = 3
    NULL = NULL
    CLK_QUANTUM = 1
    Handlers = {1}
    OperPrv = {0}
    OthersToo = TRUE
CHECK_DEADLOCK FALSE
INVARIANTS
    StackBounded
PROPERTIES
    ContextPreserved
    ServiceReturns
