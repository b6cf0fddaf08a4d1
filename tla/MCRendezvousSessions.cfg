SPECIFICATION FairSpec
CONSTANTS
    FirstTTL = 2
    EndTTL = 65
    LastStep = 2
    WindowSize = 2
    Segments = 3
    Sockets = 3
    Finals = 3
INVARIANTS
    HandlersSafe
    Lockstep
    TakeTurns
    TunnelEndsMatch
PROPERTY
    Terminates
CHECK_DEADLOCK FALSE
