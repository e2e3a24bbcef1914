SPECIFICATION GSpec
CONSTANTS
    Threads = {t1, t2}
    Ips = {i1, i2}
    Paths <- MCPaths
    NoIp = NoIp
    NoPath = NoPath
    Asks <- MCAsks
    Routes <- MCRoutes
    MaxRoutes = 2
    WsPaths <- MCWsPaths
    ExactPaths <- MCExactPaths
    PrefixPaths <- MCPrefixPaths
    BlockedExts <- MCBlockedExts
SYMMETRY Symmetry
INVARIANTS
    RefusedStaysOut
    OnlyOffendersRefused
    NoSpellingGetsThrough
    HandlerFitsPath
    FieldsArrive
