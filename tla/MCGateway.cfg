SPECIFICATION Spec
CONSTANTS
  Accounts = {"a", "b"}
  Projects = {"p1", "p2", "p.", "q"}
  Groups = {"dev", "ops", "view", "admin"}
  tenantMaps <- MCMaps
  Matched <- MCMatched
  Handlers = {h1, h2}
  Kids = {"k1", "k2"}
  Tokens <- MCTokens
  Requests <- MCRequests
  TokenTTL = 2
  JwksTTL = 2
  Timeout = 1
  MaxTime = 4
  MaxRequests = 3
CHECK_DEADLOCK FALSE
SYMMETRY HandlerSymmetry
INVARIANTS GatewayTypeOK WithdrawnKeyFades ExpiredTokenFades GoodTokenAccepted  WrittenWhereGranted
