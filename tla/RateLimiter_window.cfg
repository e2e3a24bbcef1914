SPECIFICATION Spec
CONSTANTS
    Threads = {t1}
    Ips = {i1}
    NoIp = NoIp
    Max = 2
    Period = 3
    MaxTime = 3
INVARIANT WithinLimit
