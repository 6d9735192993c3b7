SPECIFICATION Spec
CONSTANTS
    c1 = c1
    s1 = s1
    Conns = {c1}
    Stoppers = {s1}
    Acceptor = Acceptor
    Nobody = Nobody
    maxConnections = 1
    kAcceptMaxConsecutiveErrors = 1
    kMaxProbeAttempts = 1
    TunnelFallback = TRUE
    StopsEarly = TRUE
INVARIANTS
    DrainedAfterStop
CHECK_DEADLOCK FALSE
