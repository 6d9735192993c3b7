SPECIFICATION Spec
CONSTANTS
    None = None
    n1 = n1
    h1 = h1
    h2 = h2
    p1 = p1
    Networks = {n1}
    kReverifyIntervalSeconds = 1
    kReverifyHoldSeconds = 1
    kConfirmMinGapSeconds = 1
    Hosts = {h1, h2}
    Profiles = {p1}
    Kinds <- Differentials
    EarlierFiles <- NoFiles
    kMaxRememberedHosts = 1
    kMaxCandidates = 2
    kMaxHealthyHosts = 1
    kLearningTtlSeconds = 2
    kBaselineHealthyWindowSeconds = 1
    kCandidateTtlSeconds = 3
    kClockSkewSeconds = 0
    WallSteps = {}
    HasPath = TRUE
    MaxThreads = 2
    MaxClock = 3
    MaxSeq = 3
    MaxCrashes = 1
INVARIANTS
    SuccessfulSaveRestoresFile
CHECK_DEADLOCK FALSE
