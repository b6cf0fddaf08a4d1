SPECIFICATION FairSpec
CONSTANTS
    MinMTU = 1024
    MaxMTU = 1486
    NumTries = 6
    Precision = 16
    Paths <- MCPaths
INVARIANTS
    Accurate
PROPERTY
    Ends
CHECK_DEADLOCK FALSE
