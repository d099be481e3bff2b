CONSTANTS
    a = a
    b = b
    c = c
    d = d
    Shards <- MCShards
    NTiers = 2
    TierOf <- MCTierOf
    Start <- MCStart
    End <- MCEnd
    NWindows = 4
    WStart <- MCWStart
    WEnd <- MCWEnd
    Workers = 2
    MaxInflight = 3
    Burst = 2
    CloseWorkers = 2
    Mode = "resume"
    Hashed = FALSE
    MaxFaults = 1
    MaxCrashes = 0
    MaxAttempts = 1
SPECIFICATION FairSpec
PROPERTIES
    BuildEnds
CHECK_DEADLOCK FALSE
