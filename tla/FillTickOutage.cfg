CONSTANTS
    Rungs <- PairLadder
    Horizon = 2
    Ranges <- WholeOf2
    Intervals <- First
    Outage = {0}
    Producers = {1}
    CasAttempts = 2
    MaxEvents = 0
SPECIFICATION FairSpec
PROPERTIES
    OutageFinal
