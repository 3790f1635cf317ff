SPECIFICATION FairSpec
CONSTANTS
    r1 = r1
    r2 = r2
    t1 = t1
    t2 = t2
    t3 = t3
    NoClient = NoClient
    Regions <- TwoRegions
    Threads <- OneThread
    Platform = "AWS_EMR"
    FaultyRegions <- Faulty
    PatientUser = TRUE
PROPERTIES
    SelectionTakesEffect
