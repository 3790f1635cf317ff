SPECIFICATION FairSpec
CONSTANTS
    r1 = r1
    r2 = r2
    t1 = t1
    t2 = t2
    t3 = t3
    NoClient = NoClient
    Regions <- TwoRegions
    Threads <- ThreeThreads
    Platform = "AWS_EMR"
    FaultyRegions <- Faulty
    PatientUser = TRUE
INVARIANTS
    TypeOK
    EstimatorCoherent
    SettledAgreement
    RecordsAgree
    PricedInOwnRegion
PROPERTIES
    HealthyTakesEffect
