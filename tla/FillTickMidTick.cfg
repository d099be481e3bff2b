CONSTANTS
    Rungs <- PairLadder
    Horizon = 2
    Ranges <- WholeOf2
    Intervals <- First
    Outage = {}
    Producers = {1}
    CasAttempts = 2
    MaxEvents = 1
SPECIFICATION Spec
PROPERTIES
    SpentMeansRepaired
