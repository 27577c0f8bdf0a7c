CONSTANTS
  c1 = c1
  c2 = c2
  PoolSize = 2
  Endpoints = 2
  Conns = {c1, c2}
  MaxGiven = 5
SPECIFICATION FairSpec
INVARIANT RoundRobin
INVARIANT AcceptLoop
INVARIANT JoinedIsAtRest
 
CHECK_DEADLOCK FALSE
