SPECIFICATION Spec
CONSTANTS
    None = None
    n1 = n1
    h1 = h1
    h2 = h2
    p1 = p1
    Networks = {n1}
    kReverifyIntervalSeconds = 1
    kReverifyHoldSeconds = 1
    kConfirmMinGapSeconds = 1
    Hosts = {h1, h2}
    Profiles = {p1}
    Kinds <- AllKinds
    EarlierFiles <- SomeFiles
    kMaxRememberedHosts = 1
    kMaxCandidates = 1
    kMaxHealthyHosts = 1
    kLearningTtlSeconds = 2
    kBaselineHealthyWindowSeconds = 1
    kCandidateTtlSeconds = 2
    kClockSkewSeconds = 0
    WallSteps = {1}
    HasPath = TRUE
    MaxThreads = 2
    MaxClock = 3
    MaxSeq = 2
    MaxCrashes = 1
INVARIANTS
    NoWinnerOutlivesItsProof
    FileMatchesMemory
PROPERTIES
    LearnedNeedsTwoStrikes
SYMMETRY HostSymmetry
CHECK_DEADLOCK FALSE
