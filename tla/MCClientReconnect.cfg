SPECIFICATION FairSpec
CONSTANTS
    Users = {u1}
    TLS = "no"
    MaxSessions = 1
    MaxConns = 3
PROPERTY Reconnects
CHECK_DEADLOCK FALSE
