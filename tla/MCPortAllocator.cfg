CONSTANTS
    Ports = {p1, p2, p3}
    NumSymmPorts = 1
    NumFastPorts = 2
    SymmWindow = 1
    FastWindow = 2
    DecayTimeout = 2
    Reservations = {r1, r2, r3}
    MaxPosted = 1
SPECIFICATION FairSpec
INVARIANTS Consistent DecayTimerArmed
PROPERTIES ReusedOnlyWhenCool HeadServed
