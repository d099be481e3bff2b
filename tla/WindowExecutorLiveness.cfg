CONSTANTS
    a = a
    b = b
    c = c
    d = d
    Shards <- MCShards
    NTiers = 2
    TierOf <- MCTierOf
    Start <- MCStart
    End <- MCEnd
    NWindows = 4
    WStart <- MCWStart
    WEnd <- MCWEnd
    Workers = 2
    MaxInflight = 3
    Burst = 2
    CloseWorkers = 1
    Mode = "fill"
    Hashed = FALSE
    MaxFaults = 1
    MaxCrashes = 1
    MaxAttempts = 3
SPECIFICATION FairSpec
INVARIANTS
    NoDeadSeq
    SuccessMeansWritten
PROPERTIES
    BuildEnds
    EventuallyDone
