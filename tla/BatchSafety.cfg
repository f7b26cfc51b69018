SPECIFICATION FairSpec
CONSTANTS
    Workers = {w1, w2}
    ResourceCount = 3
    Names <- MCNames
    SourceName <- MCSourceName
    Specs <- MCSpecs
    FirstSpecs <- MCFirstSpecs
    MaxRetries = 1
    MaxPods = 1
    MaxTroubles = 1
    NoWorker = NoWorker
INVARIANTS
    OneWriter
    RunsWithinMishaps
PROPERTIES
    ClaimSpec
    Ends
CHECK_DEADLOCK FALSE
