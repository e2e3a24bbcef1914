SPECIFICATION FairSpec
CONSTANTS
    Conns = {c1, c2}
    Fds = {f1, f2}
    Workers = {w1}
    Requests = {"keep", "close"}
    UseTls = FALSE
    NoConn = NoConn
    NoFd = NoFd
    NoTask = NoTask
    Listener = Listener
    MaxRequests = 2
PROPERTIES
    EveryRequestIsRead
    FinishedIsClosed
    KeepAliveHonoured
