SPECIFICATION FairSpec
CONSTANTS
  Client = {r1, r2}
  Request = {r1, r2}
  Nil = Nil
  maxSize = 1
  Backend = {b1}
  Retries = {0, 1}
CHECK_DEADLOCK FALSE
PROPERTY ForwardReturns
