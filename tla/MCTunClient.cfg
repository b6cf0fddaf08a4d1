SPECIFICATION FairSpec
CONSTANTS
    TcpWnd = 2
    RecvBuf = 2
    SndBuf = 2
    MaxSignals = 3
INVARIANTS
    AssertsHold
    NoStall
PROPERTY
    Reclaimed
CHECK_DEADLOCK FALSE
