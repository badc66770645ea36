CONSTANTS
    CWThreads = {t1, t2}
    Keys = {k1, k2}
    Calls = {c1, c2, c3, c4}
    NoCall = NoCall
    NoKey = NoKey
    Free = Free
    MaxInt = 2
SPECIFICATION CWFairSpec
INVARIANTS
    CWTypeOK
    OnePendingPerKey
    IdsTellCallsApart
PROPERTIES
    MutexReleased
    ImplementsSlots
