CONSTANTS
    s1 = s1
    v1 = v1
    v2 = v2
    v3 = v3
    w1 = w1
    w2 = w2
    None = None
    Slots <- OneSlot
    Versions <- TwoVersions
    Writers <- OneWriter
    Grace = 2
    WriteTime = 1
    ReadTime = 1
    Reuse = FALSE
    CachedIndex = FALSE
    QuietDeletes = TRUE
    QuietAdopt = TRUE
    MaxClock = 6
    MaxGcs = 1
    MaxAdopts = 0
SPECIFICATION Spec
SYMMETRY VersionSymmetry
PROPERTIES
    GraceCoversReads
