CONSTANTS
    c1 = c1
    c2 = c2
    None = None
    Cmds <- MCCmds
    Trackers <- MCTrackers
    MaxUpdates = 1
    MaxCrashes = 1
SPECIFICATION MCSpec
CHECK_DEADLOCK FALSE
INVARIANTS
    WriterHoldsLock
    AnswerMeansServed
    ReplacementKeepsTurn
PROPERTIES
    AnsweredNotServedAgain
    TeardownSparesSuccessor
    StopEndsTracker
