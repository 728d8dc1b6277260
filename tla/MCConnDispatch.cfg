SPECIFICATION FairDispatchSpec
CONSTANTS
    p1 = p1
    Starters = {s1}
    Stoppers <- MCStoppers
    Senders = {0}
    Beat = Beat
    QueueSize = 1
    WriteTimeout = 0
    MaxBatch = 2
    ConnID = 1
    PoolSize = 1
    MaxTaskLen = 1
    MaxFrames = 3
INVARIANT FramesInOrder
PROPERTIES QuietAfterStop HandlerStopsOrBlocks SendReturns
CHECK_DEADLOCK FALSE
