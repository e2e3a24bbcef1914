SPECIFICATION XSpec
CONSTANTS
    HeaderLens = {5}
    BodyLens = {6}
    ResponseLens = {3}
    Buf = 3
    Slack = 2
    MaxHeader = 5
    MaxBody = 6
    MaxUpload = 8
    SockBuf = 3
    Frames <- MCFrames
    MaxFrames = 2
    Threads = {t1}
    u1 = u1
    u2 = u2
    u3 = u3
    Uploads = {u1, u2, u3}
    Theirs = {u3}
    Handler = t1
    Names = {n1}
    Dotless = {}
    NoUpload = NoUpload
    MaxCount = 3
    Forms = {}
    Pads = {}
    UpgradeLen = 5
    FormLen = 6
    AnswerLen = 3
INVARIANT BodyIsWhole
