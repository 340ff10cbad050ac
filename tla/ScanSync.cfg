SPECIFICATION Spec
CONSTANTS
    s1 = s1
    s2 = s2
    p1 = p1
    p2 = p2
    i1 = i1
    i2 = i2
    None = None
    Scans <- MCScans
    Projects <- MCProjects
    ScanIds <- MCScanIds
    Items <- MCItems
    Edges <- MCEdges
SYMMETRY Symmetric
INVARIANTS SoloExact GraphFollowsVectors
PROPERTY NoGap
CHECK_DEADLOCK FALSE
