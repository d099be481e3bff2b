CONSTANTS
    Rungs <- OneTier
    Horizon = 2
    Ranges <- From1To2
    Intervals <- First
    Outage = {}
    Producers = {1}
    CasAttempts = 2
    MaxEvents = 1
SPECIFICATION Spec
PROPERTIES
    ReadMeansRepaired
