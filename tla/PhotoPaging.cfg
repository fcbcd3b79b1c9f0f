SPECIFICATION Spec
CONSTANTS
  PageSize = 1
  Photos = 4
  j1 = j1
  j2 = j2
  Jobs <- MCJobs
  Presses = 2
  Visits = 2
SYMMETRY Symmetry
CHECK_DEADLOCK FALSE
INVARIANTS
  DeletesThePressed
  LossExplained
