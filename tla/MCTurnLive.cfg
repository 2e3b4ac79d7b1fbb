SPECIFICATION FairSpec
CONSTANTS
    c1 = c1
    c2 = c2
    Convs = {c1, c2}
    EveryMessageIds = {}
    FlushConvs = {}
    RowsPerSecond = 1
    MaxClock = 7
    MaxReplies = 2
    Budget <- HelperBudget
PROPERTIES EveryAnswerRecorded
CHECK_DEADLOCK FALSE
