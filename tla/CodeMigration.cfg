SPECIFICATION MCFairSpec
CONSTANTS
    RepoCount = 1
    Branches <- MCBranches
    Tags <- MCTags
    AdoDefault <- AllMain
    MaxChanges = 2
    Replicas = {r1, r2}
    First = r1
    Settings <- MCSettings
    MaxMishaps = 2
INVARIANTS
    MigratedWhole
PROPERTIES
    NothingTakenBack
    Converges
CHECK_DEADLOCK FALSE
