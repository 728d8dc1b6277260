SPECIFICATION FairSpec
CONSTANTS
    Conns = {1, 3}
    Stoppers = {p1}
    PoolSize = 2
    MaxTaskLen = 1
    MaxRequests = 2
    MaxStarts = 2
INVARIANTS TypeOK PerConnOrder ExactlyOnce
PROPERTY QueuedRuns
CHECK_DEADLOCK FALSE
