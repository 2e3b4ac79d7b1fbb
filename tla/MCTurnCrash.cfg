SPECIFICATION Spec
CONSTANTS
    c1 = c1
    c2 = c2
    Convs = {c1}
    EveryMessageIds = {c1}
    FlushConvs = {c1}
    RowsPerSecond = 1
    MaxClock = 9
    MaxReplies = 2
    Budget <- CrashBudget
INVARIANTS AnsweredTurnKept
CHECK_DEADLOCK FALSE
