CONSTANTS
    c1 = c1
    c2 = c2
    c3 = c3
    r1 = r1
    r2 = r2
    None = None
    Conns <- MCConns
    Runtimes <- MCRuntimes
    MaxTokens = 1
    SlowClients <- MCSlow
SPECIFICATION Spec
INVARIANT StopSticks
CHECK_DEADLOCK FALSE
