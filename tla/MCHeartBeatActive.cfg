SPECIFICATION Spec
CONSTANTS
    u1 = u1
    u2 = u2
    c1 = c1
    c2 = c2
    Host = host
    Setters = {u1, u2}
    Conns = {c1, c2}
    Fetchers <- MCFetchers
    Arguments <- MCArguments
    MaxMisses = 2
SYMMETRY Symmetry
INVARIANT ActiveConnections
CHECK_DEADLOCK FALSE
