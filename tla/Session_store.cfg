SPECIFICATION FairSpec
CONSTANTS
    Threads = {t1, t2}
    Ids = {s1, s2}
    NoId = NoId
    Ttl = 2
    MaxTime = 3
INVARIANTS
    RefreshingIsStored
PROPERTIES
    ExpiredIsSwept
    ShutdownReturns
