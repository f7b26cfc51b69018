SPECIFICATION FairSpec
CONSTANTS
    Replicas = {r1}
    Ids = {"a", "b"}
    Names = {"alpha", "beta", "gamma"}
    Targets = {"t1", "t2"}
    Specs <- MCSpecs
    Occupied = {"t2"}
    UserAnnotations = {"pause", "cancel", "reconcile-trigger"}
    StaleReads = TRUE
    MaxEdits = 2
    MaxCrashes = 1
    MaxErrors = 1
CHECK_DEADLOCK FALSE
INVARIANTS
    TypeOK
    CompletedHasRepository
PROPERTIES
    UserEditsKept
    ObservedAdvances
    CompletedWorkKept
    AtomicSpec
    Settles
    EditsObserved
