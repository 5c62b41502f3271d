SPECIFICATION Spec
CONSTANTS
    Tasks = {t1, t2}
    Drivers = {d1}
    Shareable = {}
    OperPrv = {t1}
    UserLocks = {"DRV", "CHAN"}
    IOT_SENTRIES = 2
    IOT_TENTRIES = 2
    NULL = NULL
CHECK_DEADLOCK FALSE
INVARIANTS
    TypeOK
    MutualExclusion
    OwnerMatchesFlag
    EntriesDistinct
    DescriptorsOpen
    ExclusiveDevice
    PanicsOnlyWhenLocked
