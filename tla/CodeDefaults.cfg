SPECIFICATION Spec
CONSTANTS
    RepoCount = 2
    Branches <- MCBranches
    Tags <- MCTags
    AdoDefault <- TwoDefaults
    MaxChanges = 0
    Replicas = {r1}
    First = r1
    Settings <- OneSetting
    MaxMishaps = 0
INVARIANTS
    DefaultMatchesSource
CHECK_DEADLOCK FALSE
