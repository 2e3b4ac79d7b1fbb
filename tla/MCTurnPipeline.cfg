SPECIFICATION FairSpec
CONSTANTS
    MaxTurns = 2
    Extras = 1
INVARIANTS SubmitsApart RecordedOnce MergedStands SummaryOnItsCommit
PROPERTIES HeldIsForwarded CommitsLand
CHECK_DEADLOCK FALSE
