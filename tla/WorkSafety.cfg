SPECIFICATION Spec
CONSTANTS
  Replicas = {r1}
  Workers = {w1, w2}
  Items = {"bug", "story"}
  Specs <- MCFilters
  Tracked = TRUE
  MaxEdits = 1
  MaxLags = 1
  MaxMishaps = 1
  MaxUpsets = 2
SYMMETRY SameWorkers
INVARIANTS
  TypeOK
  IssuesWithinMishaps
  CopiesHaveIssues
  CompletedCovers
CHECK_DEADLOCK FALSE
