SPECIFICATION Spec
CONSTANTS
    n1 = n1
    n2 = n2
    Nodes = {n1, n2}
    Clients = {n1}
    MaxConnIdx <- MCMaxConnIdx
    Local = "R"
    MaxWire = 1
CONSTRAINT Bound
INVARIANTS TableSound OneSymmConn NoWaitUnderLock
CHECK_DEADLOCK FALSE
