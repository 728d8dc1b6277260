SPECIFICATION PartsSpec
CONSTANTS
    Base = 2
    Order = "big"
    MaxPacketSize = 2
    MsgIDs = {1, 2}
    MaxData = 3
    MaxMsgs = 2
    MaxChunk = 12
    Cap = 3
    Payloads <- MCPayloads
    MaxMsgID = 2
    Spare = 1
    MaxHandlers = 4
    MaxGroups = 2
    MaxRequests = 1
    u1 = u1
    u2 = u2
    c1 = c1
    c2 = c2
    Host = host
    Setters = {u1, u2}
    Conns = {c1, c2}
    Fetchers <- MCFetchers
    Arguments <- MCArguments
    MaxMisses = 2
SYMMETRY Symmetry
INVARIANTS FramesIntact NothingHeldBack OnlyOversizeCloses
INVARIANTS EachOnce RouteGuarded OnlyScoped
INVARIANTS LinesAreTail NothingLost ClonesWhole BeatsRouted
PROPERTY KeepsTail
CHECK_DEADLOCK FALSE
