SPECIFICATION McpSpec
CONSTANTS
    Clients = {c1, c2}
    MaxConn = 0
    Runners = {r1}
    Shutters = {t1}
    Attachers = {}
    Calls = {t1}
INVARIANTS BroadcastReaches LoadPrecedence
PROPERTY CallsReturn
CHECK_DEADLOCK FALSE
