SPECIFICATION AloneSpec
CONSTANTS
    MaxClientBytes = 2
    MaxTargetBytes = 1
    TUNNEL_MAX_BYTES = 2
    TUNNEL_MAX_PENDING_BYTES = 1
    Threads = {t1, t2}
    Word = 16
    kWorkerFailureThreshold = 3
    kWorkerFailureGapMs = 1
    kWorkerMinStreakMs = 2
    kRateLimitDefaultBackoffMs = 1
    kRateLimitMaxBackoffMs = 2
    RetryAfters = {0, 5}
    MaxMs = 3
    MaxStreak = 4
INVARIANTS
    LatchNeedsSustainedFailures
PROPERTIES
    TunnelIsAPipe
    TunnelEnds
CHECK_DEADLOCK FALSE
