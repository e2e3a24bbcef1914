SPECIFICATION LSpec
CONSTANTS
    Workers = {w1, w2}
    Tasks = {t1, t2}
    Lasting = {t2}
    NoTask = NoTask
    MaxSubmits = 3
    Kilo = 16
    SizeMod = 1048576
    Edited <- MCEdited
    Absent = Absent
INVARIANTS
    FifoExactlyOnce
    WorkConserving
    DrainedOnDestroy
    UneditedIsDefault
    TasksSeeTheServer
PROPERTIES
    ImplementsExecutor
    EverySubmittedTaskStarts
    ShutdownCompletes
