CONSTANTS
  r1 = r1
  Reqs = {r1}
  Pushes = {}
  HeaderMax = 1
SPECIFICATION Spec
INVARIANT FinalReported
CHECK_DEADLOCK FALSE
