SPECIFICATION FairSpec
CONSTANTS
    Replicas = {r1}
    RepoCount = 2
    Nested <- NoRepos
    Parallel = 1
    CleanBetween = TRUE
    StaleReads = TRUE
    MaxEdits = 2
    MaxMishaps = 3
INVARIANTS
    PushedHoldsCompleted
    MergedAreRewritten
PROPERTIES
    Settles
CHECK_DEADLOCK FALSE
