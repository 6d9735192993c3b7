SPECIFICATION FairSpec
CONSTANTS
    None = None
    NConns = 2
    Ports = {"p"}
    Attempts <- MCAttempts
    OverIPv6 = TRUE
    PathHops = {0, 3}
    kPolicyTtlMs = 1
    kAppliedTtlMs = 2
    kPruneIntervalMs = 1
    kMaxEntries = 1
    kBatchSize = 2
    kMaxWinDivertReadRetries = 1
    kFatalSendFailures = 2
    kFatalSendWindowMs = 1
    kSendStreakGapMs = 1
    MaxResends = 1
    MaxLoad = 6
    ConnLoad = 3
INVARIANTS
    LearnedWasTransformed
    EveryPacketIsSent
PROPERTIES
    ProbesStayTreated
    FailsOpen
CHECK_DEADLOCK FALSE
