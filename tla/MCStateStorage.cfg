CONSTANTS
  k1 = k1
  k2 = k2
  w1 = w1
  w2 = w2
  c1 = c1
  c2 = c2
  n1 = n1
  n2 = n2
  Keys = {k1, k2}
  Nodes = {n1, n2}
  Watchers = {w1, w2}
  Clients = {c1, c2}
  PrefixOf <- MCPrefixOf
  HostOf <- MCHostOf
  Buffer = 1
  MaxWrites = 2
SPECIFICATION StorageSpec
SYMMETRY StorageSymmetry
INVARIANTS
  StorageTypeOK StoredValueFound StateFollowsLog
  LastEventTells EndedWatchersClosed PanicNeedsClose
CHECK_DEADLOCK FALSE
