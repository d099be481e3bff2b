\* A single gap of a period that is not over, and one fault.
CONSTANTS
    Rungs <- ThreeRungs
    Workers = {w1}
    Grace = 1
    MaxDeletes = 2
    Chunk = 2
    MidPeriod = TRUE
    MaxNow = 4
    MaxExtras = 2
    w1 = w1
SPECIFICATION Spec
PROPERTIES
    SweepKeepsServed
CHECK_DEADLOCK FALSE
