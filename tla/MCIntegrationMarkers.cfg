CONSTANTS
    s1 = s1
    s2 = s2
    main = main
    topic = topic
    None = None
    Sessions = {s1, s2}
    UserBranches = {main, topic}
    First = main
    Drift = TRUE
    WhileMerging = TRUE
    MaxTurn = 1
    MaxCommits = 2
    MaxRuns = 2
SPECIFICATION Spec
SYMMETRY MCSymmetry
CHECK_DEADLOCK FALSE
INVARIANT MarkersStayOut
