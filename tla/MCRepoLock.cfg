CONSTANTS
    p1 = p1
    p2 = p2
    p3 = p3
    None = None
    Procs <- MCProcs
    Trackers <- MCTrackers
    Files <- MCFiles
SPECIFICATION LockSpec
INVARIANTS
    OneReachableWriter
    RecordNeverLies
PROPERTIES
    ReleaseSparesSuccessor
    OrphanStandsDown
    ImplementsSingleWriter
