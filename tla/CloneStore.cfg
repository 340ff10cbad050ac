SPECIFICATION Spec
CONSTANTS
    t1 = t1
    t2 = t2
    p1 = p1
    None = None
    Threads <- MCThreads
    Projects <- MCProjects
    DotFiles <- MCDotFiles
    Sources <- MCSources
    Resources <- MCResources
    Retention = 1
    MaxTime = 2
    MaxRequests = 3
    MaxFailures = 1
INVARIANTS TouchProtects PartialExplained
PROPERTY ExpiredGoes
CHECK_DEADLOCK FALSE
