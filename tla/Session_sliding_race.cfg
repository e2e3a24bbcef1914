SPECIFICATION Spec
CONSTANTS
    Threads = {t1, t2}
    Ids = {s1, s2, s3}
    NoId = NoId
    Ttl = 2
    MaxTime = 3
SYMMETRY Symmetry
INVARIANT
    LiveIsStored
