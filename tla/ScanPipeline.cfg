CONSTANTS
    NumPaths = 4
    Parallelism = 8
    MaxWorkers = 2
    NumDetectors = 2
    SourceReasons = {"TooLarge"}
SPECIFICATION FairSpec
INVARIANTS
    BoundedInFlight
    NoPartialEvidence
    FileOwnership
    PanicAccounting
    ReportComplete
PROPERTIES
    ScanReturns
    ImplementsContract
