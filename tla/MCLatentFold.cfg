SPECIFICATION Spec
CONSTANTS
    s1 = s1
    s2 = s2
    Sessions = {s1, s2}
    FirstSession = s1
    MaxTurns = 2
    Budget <- FoldBudget
CHECK_DEADLOCK FALSE
INVARIANT OnlyTheHookLosesTurns
INVARIANT FoldedOnce
INVARIANT TrailerCurrent
