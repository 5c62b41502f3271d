SPECIFICATION Spec
CONSTANTS
    PAGESIZE = 3
    MaxSize = 4
CHECK_DEADLOCK FALSE
INVARIANTS
    CopyExact
    MapRestored
    HaltsOnlyCrossing
