CONSTANTS
    c1 = c1
    c2 = c2
    c3 = c3
    r1 = r1
    r2 = r2
    None = None
    Conns <- MCConns
    Runtimes <- MCRuntimes
    MaxTokens = 2
    SlowClients <- MCSlow
SPECIFICATION Spec
PROPERTIES ImplementsModelSession Answered
CHECK_DEADLOCK FALSE
