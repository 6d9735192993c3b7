SPECIFICATION FairRelaySpec
CONSTANTS
    None = None
    n1 = n1
    h1 = h1
    p1 = p1
    p2 = p2
    c1 = c1
    c2 = c2
    Networks = {n1}
    Hosts = {h1}
    Profiles = {p1, p2}
    Kinds <- AllKinds
    EarlierFiles <- Learned
    HasPath = TRUE
    kMaxRememberedHosts = 1
    kMaxCandidates = 1
    kMaxHealthyHosts = 1
    kLearningTtlSeconds = 5
    kReverifyIntervalSeconds = 1
    kReverifyHoldSeconds = 1
    kBaselineHealthyWindowSeconds = 1
    kConfirmMinGapSeconds = 1
    kCandidateTtlSeconds = 3
    kClockSkewSeconds = 0
    WallSteps = {}
    MaxThreads = 1
    MaxClock = 2
    MaxSeq = 6
    MaxCrashes = 0
    Connections = {c1, c2}
    Table <- TwoProfiles
    PacketProfiles = {p2}
    Hellos = {{p1, p2}}
    ForcedProfiles <- AnyPin
    Paths <- AnyPath
    Failures = {"Timeout"}
    kMaxProbeAttempts = 3
    kAttemptSeconds = 1
    MaxConnections = 2
PROPERTIES
    LearnedNeedsTwoConnections
    EvictionNeedsTwoConnections
    DeliverHelloEnds
CHECK_DEADLOCK FALSE
