SPECIFICATION Spec
CONSTANTS
  NumBackends = 3
  Caller = {c1, c2}
  Url <- DistinctUrls
SYMMETRY CallerSymmetry
INVARIANTS TypeOK ConnAccounting
PROPERTIES LeastOutstanding ImplementsLoadBalancer
