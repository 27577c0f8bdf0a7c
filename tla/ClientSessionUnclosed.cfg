CONSTANTS
    Requests = {r1}
    Pushes = {}
    OutBuf = 1
    MaxOut = 1
SPECIFICATION Spec
INVARIANT ClosedIsPopped
CHECK_DEADLOCK FALSE
