CONSTANTS
    a = a
    b = b
    c = c
    d = d
    Shards <- MCShards
    NTiers = 2
    TierOf <- MCTierOf
    Start <- MCStart
    End <- MCEnd
    NWindows = 4
    WStart <- MCWStart
    WEnd <- MCWEnd
    Workers = 3
    MaxInflight = 3
    Burst = 2
    CloseWorkers = 2
    Mode = "resume"
    Hashed = FALSE
    MaxFaults = 2
    MaxCrashes = 1
    MaxAttempts = 3
SPECIFICATION Spec
INVARIANTS
    TypeOK
    NoLateAppend
    NoLeftover
    ObjectsComplete
    SuccessMeansRegistered
PROPERTIES
    RegistrationOrder
    ImplementsShardBuild
\* Closes can block for ever behind a failed one: see WindowExecutorHang.cfg.
CHECK_DEADLOCK FALSE
