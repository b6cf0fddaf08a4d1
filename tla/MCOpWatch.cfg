SPECIFICATION FairSpec
CONSTANTS
    Reactor = R
    Closers = {t1, t2, t3}
INVARIANT
    NoCallbackAfterClose
PROPERTY
    CloseReturns
CHECK_DEADLOCK FALSE
