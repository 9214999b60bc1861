SPECIFICATION Spec
CONSTANTS
    PageCount = 2
    Legible <- FirstPage
    Audited <- FirstPage
    RetryPages = 1
    MaxRetries = 3
    MaxRuns = 1
    Quality <- AnyQuality
    Ids <- OwnIds
CHECK_DEADLOCK FALSE
INVARIANT NoKeyError
