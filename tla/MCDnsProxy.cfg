SPECIFICATION MCSpec
CONSTANTS
    w1 = w1
    w2 = w2
    k1 = k1
    q1 = q1
    receiver = receiver
    workerName = workerName
    Nobody = Nobody
    NoKey = NoKey
    workerHost = workerName
    Workers = {w1, w2}
    Callers = {w1, w2, receiver}
    Lifetime <- Lifetimes
    kMaxCacheEntries = 2
    kMaxWireCacheEntries = 1
    kBootstrapTtlMs = 2
    kBootstrapRetryMs = 2
    kNeverExpires = 9
    kMaxQueueAgeMs = 0
    MayRestart = TRUE
    MayClear = FALSE
    Keys = {k1}
    WireKeys = {q1}
    kMaxQueuedQueries = 1
    MaxMs = 1
PROPERTIES
    QuestionsAreAnswered
    StopReturns
