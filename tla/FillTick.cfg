CONSTANTS
    Rungs <- TwoRungs
    Horizon = 2
    Ranges <- From1To2
    Intervals <- EachUnit
    Outage = {1}
    Producers = {1, 2}
    CasAttempts = 2
    MaxEvents = 2
SPECIFICATION FairSpec
PROPERTIES
    PrunedMeansRepaired
    JournalDrains
    Repaired
    Filled
    NoDroppedAppend
