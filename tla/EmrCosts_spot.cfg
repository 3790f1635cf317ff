SPECIFICATION Spec
CONSTANTS
    r1 = r1
    r2 = r2
    c1 = c1
    c2 = c2
    t1 = t1
    t2 = t2
    Empty = Empty
    None = None
    Regions <- TwoRegions
    Clusters <- OneCluster
    Threads <- OneThread
    Home <- HomeOne
    MaxUsage = 1
    SpotFaults = TRUE
INVARIANTS
    CachedCostHasSpot
