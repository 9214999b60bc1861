SPECIFICATION Spec
CONSTANTS
    None = None
    Ids = {1, 2, 3}
    Inputs <- Pages
    Unknown = {9}
    MaxRelations = 3
    FullUp <- RoundedUp55
    SlotUp <- RoundedUp11
    SlotDown <- RoundedDown11
    Factors = {3, 7}
CHECK_DEADLOCK FALSE
INVARIANTS TypeOK OneBlockPerId ParentsResolve RepairsAreTold
PROPERTIES FullWidthSeparates HeadingStaysWithBlock ScaleInvariant
