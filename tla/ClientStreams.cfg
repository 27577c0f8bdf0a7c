CONSTANTS
  r1 = r1
  p1 = p1
  Reqs = {r1}
  Pushes = {p1}
  HeaderMax = 2
SPECIFICATION Spec
INVARIANT Inv
 
PROPERTY ResponseStable
PROPERTY CloseIsLast
CHECK_DEADLOCK FALSE
