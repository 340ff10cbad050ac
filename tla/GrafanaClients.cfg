SPECIFICATION GCSpec
CONSTANTS
    t1 = t1
    t2 = t2
    u1 = u1
    a1 = a1
    o1 = o1
    p1 = p1
    p2 = p2
    None = None
    Empty = Empty
    Threads <- MCThreads
    Urls <- MCUrls
    ApiKeys <- MCApiKeys
    Logins = {}
    Orgs <- MCOrgs
    Stamps <- MCStamps
    Requests <- MCRequests
    AppUrls <- MCAppUrls
    MaxRequests = 2
    MaxCloses = 1
    MaxCalls = 4
CHECK_DEADLOCK FALSE
INVARIANTS StampsAgree FreshClientKnowsUrl
PROPERTIES LookupEnds UrlKept
