SPECIFICATION FairSpec
CONSTANTS
    Starters = {s1}
    Stoppers = {p1}
    Senders = {m1}
    Beat = Beat
    QueueSize = 1
    WriteTimeout = 1
    MaxBatch = 1
PROPERTIES
    StopReturns
    AcceptedWritten
    TornDown
    DeadPeerClosed
CHECK_DEADLOCK FALSE
