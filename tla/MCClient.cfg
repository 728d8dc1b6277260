SPECIFICATION FairSpec
CONSTANTS
    Users = {u1, u2}
    TLS = "yes"
    MaxSessions = 2
    MaxConns = 2
INVARIANTS TypeOK CancelSet DisconnectedAfterStop
PROPERTY LoopEnds
CHECK_DEADLOCK FALSE
