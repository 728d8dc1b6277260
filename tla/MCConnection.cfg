SPECIFICATION Spec
CONSTANTS
    Starters = {s1}
    Stoppers = {p1}
    Senders = {m1, m2, m3}
    Beat = Beat
    QueueSize = 2
    WriteTimeout = 1
    MaxBatch = 1
INVARIANTS
    TypeOK
    NoHeartbeatLeak
    StopIsFinal
    WireOrder
SYMMETRY Symmetry
CHECK_DEADLOCK FALSE
