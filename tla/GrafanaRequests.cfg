SPECIFICATION FairSpec
CONSTANTS
    u = u
    v = v
    Threads = {u, v}
    Unset = Unset
    MaxFaults = 1
    MaxCalls = 1
    Environments <- MCEnvironments
    Tokens <- MCTokens
    Extras <- MCExtras
    CallsOf <- MCCallsOf
    Serves <- MCServes
    Refuses <- MCRefuses
INVARIANTS  QueriesWhole TriedServedPath
PROPERTY TimedCallEnds
CHECK_DEADLOCK FALSE
