SPECIFICATION ServerSpec
CONSTANTS
    r1 = r1
    r2 = r2
    c1 = c1
    t1 = t1
    t2 = t2
    Empty = Empty
    None = None
    NoClient = NoClient
    Regions <- TwoRegions
    Clusters <- OneCluster
    Threads <- TwoThreads
    Home <- HomeOne
    Platform = "AWS_EMR"
    FaultyRegions <- Faulty
    PatientUser = TRUE
    MaxUsage = 1
    SpotFaults = FALSE
SYMMETRY ThreadSymmetry
INVARIANTS
    CachedCostAtHome
PROPERTIES
    ImplementsEmrCosts
