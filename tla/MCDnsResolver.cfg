SPECIFICATION Spec
CONSTANTS
    t1 = t1
    t2 = t2
    t3 = t3
    k1 = k1
    k2 = k2
    q1 = q1
    worker = worker
    NoKey = NoKey
    workerHost = worker
    Lifetime <- Lifetimes
    kBootstrapTtlMs = 2
    kBootstrapRetryMs = 1
    kNeverExpires = 9
    kMaxWireCacheEntries = 1
    Callers = {t1, t2, t3}
    Keys = {k1, k2}
    WireKeys = {q1}
    kMaxCacheEntries = 1
    MayClear = TRUE
    MaxMs = 2
SYMMETRY Symmetry
INVARIANTS
    SingleFlight
    WaitersAreWoken
PROPERTIES
    BootstrapKept
