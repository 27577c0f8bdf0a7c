CONSTANTS
  c1 = c1
  c2 = c2
  PoolSize = 2
  Endpoints = 2
  Conns = {c1, c2}
  MaxGiven = 4
SPECIFICATION Spec
INVARIANT IndexInRange
CHECK_DEADLOCK FALSE
