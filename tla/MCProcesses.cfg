SPECIFICATION AloneSpec
CONSTANTS
    f1 = f1
    f2 = f2
    LiveFlows = {f1, f2}
    kMaxProfiles = 2
    kEngineTransitionTimeout = 1
    kRestartWindow = 2
    kMaxAutomaticRestarts = 1
    kRestartDelay = 1
    kMaxRestartDelay = 1
    MaxRecords = 3
    maxQueued = 2
    kWriteBatchSize = 2
    kPruneEveryRecords = 2
INVARIANTS
    Supervision
    StopWins
    ListenersOutliveInterception
    LiveFiguresAreTrue
PROPERTIES
    WishesComeTrue
    EngineFailsOpen
    StopSettles
CHECK_DEADLOCK FALSE
