SPECIFICATION FairSpec
CONSTANTS
    BuffSize = 5
    ChunkSize = 2
    OneReactor = TRUE
INVARIANTS
    CalledBackOnce
    BuffersIntact
    PumpsRun
PROPERTY
    EndsWhenFlushed
CHECK_DEADLOCK FALSE
