SPECIFICATION LSpec
CONSTANTS
    Workers = {w1, w2}
    Tasks = {t1, t2}
    Lasting = {t2}
    NoTask = NoTask
    MaxSubmits = 1
    Kilo = 16
    SizeMod = 1048576
    Edited <- MCEdited
    Absent = Absent
INVARIANT FirstRunAsDocumented
