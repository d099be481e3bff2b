SPECIFICATION Spec
CONSTANTS
    Horizon = 12
    Grid <- MCGrid
    RungGrid <- MCRungGrid
    Width <- MCWidth
    Calendar = {4}
    Day <- Days
    Targets <- MCTargets
    Ranges <- MCAligned
    Asked <- MCFinest
    Smoothings <- MCSmoothed
    Declared <- MCDeclared
    Trusted <- MCTrusted
    Inventories <- MCComplete
    Gates <- MCUngated
    MaxAtoms = 9
    MaxKeys = 6
INVARIANTS
    StopsAtTail
