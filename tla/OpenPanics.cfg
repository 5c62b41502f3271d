SPECIFICATION Spec
CONSTANTS
    Tasks = {t1, t2}
    Drivers = {d1}
    Shareable = {}
    OperPrv = {t1}
    UserLocks = {}
    IOT_SENTRIES = 1
    IOT_TENTRIES = 1
    NULL = NULL
CHECK_DEADLOCK FALSE
INVARIANT OpenSurvives
