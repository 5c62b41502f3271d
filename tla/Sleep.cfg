SPECIFICATION Spec
CONSTANTS
    W = 6
    CLK_FREQ = 2
    MaxGap = 2
CHECK_DEADLOCK FALSE
INVARIANTS
    SleptEnough
PROPERTIES
    WakesInTime
    SleepEnds
