SPECIFICATION Spec
CONSTANTS
  Client = {r1, r2}
  Request = {r1, r2}
  Nil = Nil
  maxSize = 2
  Backend = {b1, b2}
  Retries = {0, 2}
CHECK_DEADLOCK FALSE
SYMMETRY ServiceSymmetry
INVARIANTS SingleCustody RetryBudget CountersAccount EnoughQueued PanicsExplained
