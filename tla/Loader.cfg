SPECIFICATION LSpec
CONSTANTS
    Tasks = {t1, t2}
    Drivers = {d1}
    Shareable = {}
    OperPrv = {}
    UserLocks = {}
    IOT_SENTRIES = 2
    IOT_TENTRIES = 1
    NULL = NULL
    PT = d1
    Space <- MCSpace
    Tapes <- MCTapes
CHECK_DEADLOCK FALSE
INVARIANTS
    
    LoadedWhole
    NameIntact
    TapeReleased
PROPERTIES
    MutexReleased
    LoadEnds
