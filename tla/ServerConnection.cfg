CONSTANTS
    OutBuf = 2
    MaxOut = 3
SPECIFICATION FairSpec
INVARIANTS
    NoClash
    NoLostWakeup
    Inv
PROPERTIES
    KeepsAlive
    SilentPeerReclaimed
CHECK_DEADLOCK FALSE
