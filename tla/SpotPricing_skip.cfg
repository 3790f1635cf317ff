SPECIFICATION Spec
CONSTANTS
    t1 = t1
    t2 = t2
    None = None
    Threads <- OneThread
    Horizon = 5
    MaxGap = 2
    Price <- LongTable
    PagesFail = FALSE
INVARIANTS
    SkipMeansPresent
