SPECIFICATION FairSpec
CONSTANTS
    i1 = i1
    i2 = i2
    i3 = i3
    g1 = g1
    g2 = g2
    None = None
    Instances <- ThreeInstances
    ResGroups <- TwoGroups
    GroupOf <- InGroup
    GroupType <- TypeOfGroup
    Spot <- OneSpot
    Rate <- RateTable
    MaxTime = 1
    MaxFaults = 2
INVARIANTS
    TypeOK
    ExactOnceTerminated
    CostWithinBounds
PROPERTIES
    EveryCallEnds
