SPECIFICATION Spec
CONSTANTS
    Conns = {c1, c2, c3}
    Fds = {f1, f2}
    Workers = {w1, w2}
    Requests = {"keep", "ws"}
    UseTls = TRUE
    NoConn = NoConn
    NoFd = NoFd
    NoTask = NoTask
    Listener = Listener
    MaxRequests = 1
SYMMETRY Symmetry
INVARIANTS
    ExclusiveService
    ServedIsOpen
    NoneStranded

