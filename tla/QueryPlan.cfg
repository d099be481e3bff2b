SPECIFICATION Spec
CONSTANTS
    Horizon = 12
    Grid <- MCGrid
    RungGrid <- MCRungGrid
    Width <- MCWidth
    Calendar = {4}
    Day <- Days
    Targets <- MCTargets
    Ranges <- MCRanges
    Asked <- MCAsked
    Smoothings <- MCSmoothings
    Declared <- MCDeclared
    Trusted <- MCTrusted
    Inventories <- MCInventories
    Gates <- MCGates
    MaxAtoms = 9
    MaxKeys = 6
INVARIANTS
    TypeOK
    CountedOnce
    NothingMissing
    HandOver
    RaggedMinimal
    WalkAdvances
