SPECIFICATION Spec
CONSTANTS
    Replicas = {r1, r2}
    Ids = {"a", "b"}
    Names = {"alpha", "beta", "gamma"}
    Targets = {"t1", "t2"}
    Specs <- MCReplicaSpecs
    Occupied = {}
    UserAnnotations = {"pause"}
    StaleReads = TRUE
    MaxEdits = 1
    MaxCrashes = 0
    MaxErrors = 0
CHECK_DEADLOCK FALSE
INVARIANTS
    CountersMatchStatuses
    CopiesFaithful
