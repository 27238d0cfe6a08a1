SPECIFICATION RRSpec
CONSTANTS
  NumBackends = 2
  Caller = {c1, c2, c3}
  Url <- DistinctUrls
  IntMax = 3
SYMMETRY CallerSymmetry
INVARIANT EvenTurns
PROPERTY RRImplementsLoadBalancer
