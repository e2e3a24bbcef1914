SPECIFICATION GSpec
CONSTANTS
    Threads = {t1}
    Ips = {i1}
    Paths <- MCPaths
    NoIp = NoIp
    NoPath = NoPath
    Asks <- MCAsks
    Routes <- MCRoutes
    MaxRoutes = 0
    WsPaths <- MCWsPaths
    ExactPaths <- MCExactPaths
    PrefixPaths <- MCPrefixPaths
    BlockedExts <- MCBlockedExts
INVARIANT BlockedOnAllRequests
