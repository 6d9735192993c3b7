SPECIFICATION AloneSpec
CONSTANTS
    c1 = c1
    c2 = c2
    s1 = s1
    Conns = {c1, c2}
    Stoppers = {s1}
    Acceptor = Acceptor
    Nobody = Nobody
    maxConnections = 2
    kAcceptMaxConsecutiveErrors = 1
    kMaxProbeAttempts = 2
    TunnelFallback = TRUE
    StopsEarly = FALSE
    Callers = {c1, c2}
    Networks = {home, cafe}
    ttl = 2
    MaxCallMs = 3
    Nothing = Nothing
    Addresses = 4
    kMaxParallelAttempts = 2
    attemptDelay = 2
    totalTimeout = 6
    MaxBytes = 2
    kPumpBufferSize = 2
INVARIANTS
    ReachableIsAlive
    NothingIsLeftBehind
    CancelReaches
    FreshIdentityIsRecent
    ConnectIsThorough
PROPERTIES
    PumpIsAPipe
    StopReturns
CHECK_DEADLOCK FALSE
