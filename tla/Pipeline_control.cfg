SPECIFICATION FairSpec
CONSTANTS
    PageCount = 2
    Legible <- NoPage
    Audited <- NoPage
    RetryPages = 1
    MaxRetries = 3
    MaxRuns = 2
    Quality <- AnyQuality
    Ids <- OwnIds
CHECK_DEADLOCK FALSE
INVARIANTS TypeOK BufferIsOfThisRun RetryDetailIsCurrent DegradedPioneerWarned DegradedPagesWarned
PROPERTIES RunEnds IsAThread
