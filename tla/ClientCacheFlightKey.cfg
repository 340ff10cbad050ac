SPECIFICATION Spec
CONSTANTS
    t1 = t1
    t2 = t2
    t3 = t3
    u1 = u1
    a1 = a1
    a2 = a2
    l1 = l1
    o1 = o1
    s1 = s1
    None = None
    Threads <- MCTwoThreads
    Urls <- MCUrls
    ApiKeys <- MCApiKeys
    Logins <- MCLogins
    Orgs <- MCOrgs
    Stamps <- MCStamps
    Requests <- MCTokens
    MaxRequests = 2
    MaxCloses = 0
INVARIANT ReturnedForKey
CHECK_DEADLOCK FALSE
