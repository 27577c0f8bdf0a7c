CONSTANTS
    Requests = {r1}
    Pushes = {p1}
    OutBuf = 1
    MaxOut = 1
SPECIFICATION FairSpec
INVARIANTS
    Inv
    NoLostWakeup
    ErrorOnce
PROPERTIES
    NoSilentStop
    StopIsFinal
    Reclaimed
    
CHECK_DEADLOCK FALSE
