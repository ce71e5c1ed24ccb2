\* No more callers than the pool has connections; deadlock is checked.
SPECIFICATION FairSpec
CONSTANTS
  Callers = {p1, p2, p3}
  Conns = {c1, c2, c3, c4}
  NoConn = NoConn
  PoolSize = 3
  QuiescentClose = TRUE
INVARIANTS
  NoPanic
  CloseIsComplete
  ReleaseNeverBlocks
PROPERTIES
  CallReturns
  CloseReturns
