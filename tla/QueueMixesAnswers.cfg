SPECIFICATION Spec
CONSTANTS
  Client = {r1, r2}
  Request = {r1, r2}
  Nil = Nil
  maxSize = 2
  Backend = {b1}
  Retries = {1}
CHECK_DEADLOCK FALSE
INVARIANT OwnAnswer
