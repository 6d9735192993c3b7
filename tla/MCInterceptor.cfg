SPECIFICATION AloneSpec
CONSTANTS
    c1 = c1
    c2 = c2
    c3 = c3
    u1 = u1
    Client = {d1, d2}
    Upstream = {u1}
    kPendingFlowTtl = 3
    kMaxPendingFlows = 2
    kPruneInterval = 1
    kTcpFlowIdle = 3
    kTcpFlowClosing = 1
    kMaxTcpFlows = 2
    kEvictShare = 16
    t1 = t1
    d1 = d1
    d2 = d2
    p1 = p1
    p2 = p2
    TcpEndpoints = {t1}
    UdpEndpoints = {d1, d2}
    Pids = {p1, p2}
    kMaximumCachedEndpoints = 2
    kMaximumCachedNames = 1
    kTcpCacheTtlMs = 2
    kUdpCacheTtlMs = 1
    kUnknownCacheTtlMs = 1
    kProcessNameTtlMs = 1
    kFilterSweepMs = 1
    RuleLists <- MCRuleLists
    ImagePaths <- MCImagePaths
    kMaximumRules = 1
    kMaximumRuleLength = 3
    Servers = {d1, d2}
    LocalPorts = {d1, d2}
    responseTimeoutMs = 2
    fallbackMs = 3
    kQuicPurgeMs = 1
    Askers = {c1, c2, c3}
    kDatagramTtl = 2
    kMaxDatagramTuples = 2
    kDatagramPrune = 1
    kMaxPendingDatagramsPerTuple = 2
    MaxPayload = 20
    HeaderLengths = {20, 24}
    Overlaps = {1, 8}
SYMMETRY Alike
INVARIANTS
    RulesDecide
    SkippedCallsChangeNoVerdict
    DatagramGrantsAreBacked
    CutsAreSound
PROPERTIES
    
    ClaimsAreExact
    InterceptionIsOwned
    BlocksAreExplained
