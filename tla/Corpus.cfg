SPECIFICATION Spec
CONSTANTS
    None = None
    NRuns = 3
    Norm <- Titles
    MaxVersion = 3
    MaxSchema = 2
    Junk = {2}
    Results <- SomeRuns
INVARIANTS TypeOK GoldenIsOfItsPdf VerdictIsOfItsPdf GoldenAcceptsItsRuns
PROPERTIES ManifestCatchesUp
