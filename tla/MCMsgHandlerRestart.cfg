SPECIFICATION Spec
CONSTANTS
    Conns = {1}
    Stoppers = {p1}
    PoolSize = 1
    MaxTaskLen = 1
    MaxRequests = 2
    MaxStarts = 2
PROPERTY AlwaysPooled
CHECK_DEADLOCK FALSE
