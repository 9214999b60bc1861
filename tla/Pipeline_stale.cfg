SPECIFICATION Spec
CONSTANTS
    PageCount = 1
    Legible <- FirstPage
    Audited <- FirstPage
    RetryPages = 1
    MaxRetries = 3
    MaxRuns = 2
    Quality <- AnyQuality
    Ids <- OwnIds
CHECK_DEADLOCK FALSE
INVARIANT WarningsAreOfThisRun
