SPECIFICATION CheckerSpec
CONSTANTS
  Backend = {b1, b2}
  NoBackend = NoBackend
  HealthyThreshold = 2
  UnhealthyThreshold = 3
  Maintainable = {b1}
  Checked = {b1, b2}
  Loop = {l1, l2}
  Stopper = {s1, s2}
CHECK_DEADLOCK FALSE
INVARIANTS ThresholdsActed RoutingFollowsChecker OneLoop StopQuiesces CrashNeedsRepeat
PROPERTIES TransitionsEarned RoutingConverges StopEnds
