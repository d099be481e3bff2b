\* Two invocations that overlap, with one fault or single gap.
CONSTANTS
    Rungs <- TwoRungs
    Workers = {w1, w2}
    Grace = 1
    MaxDeletes = 1
    Chunk = 1
    MidPeriod = FALSE
    MaxNow = 3
    MaxExtras = 1
    w1 = w1
    w2 = w2
SPECIFICATION FairSpec
INVARIANTS
    TypeOK
    DanglingCovered
PROPERTIES
    NoCoverageLost
    Settled
