CONSTANTS
    tui = tui
    dash = dash
    main = main
    worker = worker
    hub = hub
    a = a
    b = b
    Absent = Absent
    Instances <- MCInstances
    Threads <- MCThreads
    Home <- MCHome
    Keys = {"id", "name"}
    Values = {a, b}
    Defaults <- MCDefaults
    Initially <- MCInitially
    MaxChanges = 2
    MaxOutside = 1
SPECIFICATION Spec
INVARIANTS ChangesKept SetterWrites
