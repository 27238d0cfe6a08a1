SPECIFICATION WRRSpec
CONSTANTS
  NumBackends = 3
  Caller = {c1}
  Url <- DistinctUrls
  Configured <- Weights115
  MaxInt32 = 127
  MaxPanics = 1
INVARIANT ProportionalShare
PROPERTY WRRImplementsLoadBalancer
