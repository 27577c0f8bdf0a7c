CONSTANTS
  Reqs = {1}
  Promises = {2}
  HeaderMax = 1
SPECIFICATION FairSpec
INVARIANT Inv
INVARIANT ResponseOnce
INVARIANT NoLostResponse
INVARIANT CloseOnce
PROPERTY Answered
CHECK_DEADLOCK FALSE
