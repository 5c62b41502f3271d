SPECIFICATION Spec
CONSTANTS
    Tasks = {t1, t2}
    InitTask = t1
    OperPrv = {t1}
    Pages = {2, 3, 7}
    Prots = {2, 4}
    OthersToo = TRUE
CHECK_DEADLOCK FALSE
INVARIANTS
    TypeOK
    RunsOnOwnMap
    AccessAsAsked
    KernelMapped
