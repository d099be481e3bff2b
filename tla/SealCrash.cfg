\* Three scans in powers of two; one seal dies.
CONSTANTS
    SealPolicies <- Exponential
    GroupSize = 2
    Base = 2
    MaxLabels = 3
    MaxSealFaults = 1
SPECIFICATION SpecSeal
INVARIANT CrashSafe
CHECK_DEADLOCK FALSE
