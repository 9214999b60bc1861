SPECIFICATION Spec
CONSTANTS
    PageCount = 2
    Legible <- AllPages
    Audited <- AllPages
    RetryPages = 1
    MaxRetries = 1
    MaxRuns = 1
    Quality <- AnyQuality
    Ids <- AnyIds
CHECK_DEADLOCK FALSE
INVARIANT AuditTellsTheTruth
PROPERTY AuditNeverRegresses
