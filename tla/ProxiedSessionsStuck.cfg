SPECIFICATION Spec
CONSTANTS
    s1 = s1
    s2 = s2
    t1 = t1
    t2 = t2
    d1 = d1
    d2 = d2
    None = None
    Sessions <- MCOneSession
    Threads <- MCThreads
    Datasources <- MCOneDatasource
    ReaperOn = TRUE
    MaxStates = 2
CHECK_DEADLOCK FALSE
PROPERTY IdleSessionsReaped
