CONSTANTS
    w1 = w1
    w2 = w2
    w3 = w3
    Workers <- MCWorkers
    JobCounts <- MCJobCounts
    MaxCalls = 2
SPECIFICATION Spec
INVARIANTS ClosureAlive ExactlyOnce NoMissedGeneration
PROPERTIES ImplementsParallelFor DestroyTerminates
CHECK_DEADLOCK FALSE
