SPECIFICATION Spec
CONSTANTS
    c1 = c1
    c2 = c2
    Convs = {c1}
    EveryMessageIds = {}
    FlushConvs = {c1}
    RowsPerSecond = 1
    MaxClock = 9
    MaxReplies = 2
    Budget <- StopBudget
INVARIANTS CountedOnce StoppedStretchUnrecorded
PROPERTIES WatermarkAdvances
CHECK_DEADLOCK FALSE
