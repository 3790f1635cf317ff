SPECIFICATION Spec
CONSTANTS
    t1 = t1
    t2 = t2
    None = None
    Threads <- TwoThreads
    Horizon = 4
    MaxGap = 2
    Price <- PriceTable
    PagesFail = TRUE
SYMMETRY ThreadSymmetry
INVARIANTS
    TypeOK
    FetchedIsThere
    FetchedIsExact
    FirstPriceKnown
PROPERTIES
    HistoryKept
