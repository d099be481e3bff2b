\* One component at a time, with the faults it handles.
CONSTANTS
    s1 = s1
    v1 = v1
    v2 = v2
    v3 = v3
    w1 = w1
    w2 = w2
    None = None
    Slots <- OneSlot
    Versions <- ThreeVersions
    Writers <- OneWriter
    Grace = 2
    WriteTime = 1
    ReadTime = 1
    Reuse = FALSE
    CachedIndex = FALSE
    QuietDeletes = TRUE
    QuietAdopt = TRUE
    MaxClock = 5
    MaxGcs = 2
    MaxAdopts = 2
    Rungs <- TileRungs
    Horizon = 9
    Width = 2
    Workers = 2
    Cap = 2
    MaxMissing <- NoneMissing
    Listings <- SomeListings
    MaxTileFaults = 1
    Ladder <- HeldLadder
    Genesis = 1
    Nows = {3, 5, 6}
    RawTile = 4
    FillWindow = 2
    Modes <- HeldModes
    MaxFillFaults = 1
    RebuildLadder <- TwoTiers
    RebuildGenesis = 1
    Clocks = {7, 8}
    Pasts = {{5, 6}}
    Droughts = {{}, {4, 5}}
    Budget = 2
    Limits = {0, 3}
    QuietTicks = TRUE
    MaxRebuildFaults = 1
    TipBins = {0, 1, 2, 3}
    CoarseRanges <- TwoRanges
    TipBatches <- ThreeBatches
    FlushEvery = 1
    OnConflicts = {"keep-last", "keep-first"}
    MaxTipFaults = 2
    Deployers = {1, 2}
    Jobs <- ThreeJobs
    QuietOperator = TRUE
    MaxDeploys = 3
    CascadeRungs <- ThreeRungs
    Tokens <- TwoTokens
    IdMaps <- TwoMaps
    BaseChoices <- OneBase
    MaxRewrites = 1
    MaxCascadeFaults = 1
    SealPolicies <- BothSchemes
    GroupSize = 2
    Base = 2
    MaxLabels = 5
    MaxSealFaults = 2
    Shots <- FiveShots
    Identity = 0
    MaxShots = 5
    IndexLevels = {2}
    MaxScanFaults = 1
    MatLadders <- SomeMatLadders
    MatGenesis = 2
    MatClocks = {6, 9}
    DayLen = 4
    RawChoices <- RawSome
    MaxMatFaults = 1
    ScanKeys <- TwoScanKeys
    KeyGrid <- SmallGrid
    States <- ThreeStates
    Footers <- TwoFooters
    MaxRanges = 3
    MaxScans = 3
    Strides = {2}
SPECIFICATION Components
SYMMETRY VersionSymmetry
CHECK_DEADLOCK FALSE
INVARIANTS
    Types
    RegisteredPresent
    TilesSound
    NoQuietHole
    RebuildSound
    CascadeSound
    TipSound
    IntervalsExact
    MergeExact
    ScansExact
    SealsKeepScans
    MaterializedExact
    DeploySound
PROPERTIES
    AdoptionsSound
