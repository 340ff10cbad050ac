SPECIFICATION Spec
CONSTANTS
    t1 = t1
    t2 = t2
    t3 = t3
    u1 = u1
    a1 = a1
    a2 = a2
    l1 = l1
    o1 = o1
    s1 = s1
    None = None
    Threads <- MCThreads
    Urls <- MCUrls
    ApiKeys <- MCApiKeys
    Logins <- MCLogins
    Orgs <- MCOrgs
    Stamps <- MCStamps
    Requests <- MCRequests
    MaxRequests = 3
    MaxCloses = 1
SYMMETRY Symmetry
INVARIANTS TypeOK ReturnedForTarget OneClientPerKey GaugeMatchesMap
PROPERTY EntryNeverReplaced
CHECK_DEADLOCK FALSE
