SPECIFICATION FairSpec
CONSTANTS
  Replicas = {r1}
  Workers = {w1, w2}
  Items = {"bug"}
  Specs <- MCOneFilter
  Tracked = TRUE
  MaxEdits = 1
  MaxLags = 1
  MaxMishaps = 1
  MaxUpsets = 2
PROPERTIES
  RunningEnds
  DeletionFinishes
CHECK_DEADLOCK FALSE
