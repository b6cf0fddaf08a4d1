SPECIFICATION FairSpec
CONSTANTS
    c1 = c1
    h1 = h1
    h2 = h2
    s1 = s1
    s2 = s2
    t1 = t1
    t2 = t2
    Workloads <- MCWorkloads
    Handlers = {c1, h1, h2}
    Connectors = {c1}
    Socks = {s1, s2}
    Threads = {M}
    Run = R
    None = None
    MaxQueue = 1
    Tokens = {t1, t2}
    MaxDelay = 1
    MaxSignals = 2
INVARIANTS HandlersSafe  NoLostWakeup
PROPERTIES CloseReturns Stops TokensRun
CHECK_DEADLOCK FALSE
