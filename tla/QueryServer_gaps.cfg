SPECIFICATION QuerySpec
CONSTANTS
    t1 = t1
    r1 = r1
    r2 = r2
    unknown = unknown
    Threads <- OneThread
    Clusters <- ThreeClusters
    Tracked <- TwoTracked
    Spans <- SomeSpans
    Ranges <- SomeRanges
    Hour = 3
    Boot = 1
    Retention = 1
    MaxTime = 6
    MaxFaults = 1
    PageSize = 1
    NoMarker = 4
    Apps <- ThreeApps
    RunsOn <- AppCluster
    Nodes <- FourNodes
    ClusterOf <- NodeCluster
    Joins <- NodeJoins
    TypeOf <- NodeType
    NoLabel = "none"
    LabelSets <- SomeLabels
    Ec2Price <- Ec2Table
    DbuPrice <- DbuTable
    AwsRegions <- TwoRegions
    Default = r1
    NoFile = NoFile
    Supplied <- SomeNames
INVARIANTS
    ListedWereLaunchedInRange
