SPECIFICATION Spec
CONSTANTS
  Replicas = {r1}
  Workers = {w1, w2}
  Items = {"bug"}
  Specs <- MCOneFilter
  Tracked = TRUE
  MaxEdits = 0
  MaxLags = 1
  MaxMishaps = 0
  MaxUpsets = 1
INVARIANTS
  OneWorker
CHECK_DEADLOCK FALSE
