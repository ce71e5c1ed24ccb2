\* Close may overlap GetConnection and may be called twice.
SPECIFICATION Spec
CONSTANTS
  Callers = {p1, p2, p3}
  Conns = {c1, c2, c3, c4, c5, c6}
  NoConn = NoConn
  PoolSize = 2
  QuiescentClose = FALSE
SYMMETRY Symmetry
INVARIANTS
  TypeOK
  Exclusive
  OpenBound
PROPERTIES
  ImplementsLease
CHECK_DEADLOCK FALSE
