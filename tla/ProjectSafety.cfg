SPECIFICATION MCFairSpec
CONSTANTS
    Replicas = {r1, r2}
    Migrations = {m1, m2}
    Items <- MCItems
    Columns <- MCColumns
    ProjectArea = "project"
    FetchSize = 2
    ChunkSize = 2
    Repositories = {"absent", "coming", "there"}
    MaxTroubles = 1
    Nobody = Nobody
    OtherMigration = m2
INVARIANTS
    ProjectsWithinAttempts
    CompletedJoined
PROPERTIES
    Proceeds
CHECK_DEADLOCK FALSE
