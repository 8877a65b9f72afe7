CONSTANTS
    c1 = c1
    c2 = c2
    c3 = c3
    c4 = c4
    r1 = r1
    r2 = r2
    None = None
    Conns <- MCConns
    Runtimes <- MCRuntimes
    MaxTokens = 2
    SlowClients = {}
SPECIFICATION SafeSpec
SYMMETRY MCSymmetry
INVARIANTS TypeOK GenerationOwnsLiveRuntime ExclusiveGeneration NoLeak
    CounterIsOwn LateTokens TruncationReported NoSpuriousStop
PROPERTY EachImplementsGeneration
CHECK_DEADLOCK FALSE
