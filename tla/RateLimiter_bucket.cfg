SPECIFICATION Spec
CONSTANTS
    Threads = {t1, t2}
    Ips = {i1, i2}
    NoIp = NoIp
    Max = 2
    Period = 3
    MaxTime = 5
SYMMETRY Symmetry
INVARIANTS
    BurstPlusRefill
    RefusedOnlyOverLimit
