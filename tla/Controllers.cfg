SPECIFICATION FairSpec
CONSTANTS
    Replicas = {r1, r2}
    MaxTroubles = 1
    ConversionSpecs <- MCConversionSpecs
    Projects <- MCProjects
    DiscoverySpecs <- MCDiscoverySpecs
    JobSpecs <- MCJobSpecs
INVARIANTS
    EntriesCounted
    OwnWorkflow
PROPERTIES
    Settles
CHECK_DEADLOCK FALSE
