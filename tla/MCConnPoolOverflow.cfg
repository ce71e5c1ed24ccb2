\* One caller more than the pool has connections.
SPECIFICATION FairSpec
CONSTANTS
  Callers = {p1, p2}
  Conns = {c1, c2, c3}
  NoConn = NoConn
  PoolSize = 1
  QuiescentClose = TRUE
PROPERTIES
  CloseReturns
CHECK_DEADLOCK FALSE
