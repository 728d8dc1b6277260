SPECIFICATION FairSpec
CONSTANTS
    Clients = {c1, c2}
    MaxConn = 1
    Runners = {r1}
    Shutters = {x1}
    Attachers = {a1, a2}
INVARIANTS TypeOK NoOrphan MetricsAgree OnlyLateOpen MetricsOwned
PROPERTY RunReturns
CHECK_DEADLOCK FALSE
