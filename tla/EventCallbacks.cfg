CONSTANTS
    AppThreads = {t1}
    Handler = h
    Entries = {e1, e2, e3}
    Nobody = Nobody
    Signals <- AllSignals
    MaxSignals = 2
    Nests <- AnyList
SPECIFICATION FairSpec
CHECK_DEADLOCK FALSE
INVARIANTS
    TypeOK
    NoEventLost
    ServicesAreReported
PROPERTIES
    ListStableWhileRun
    ImplementsFeed
    OtherRegistrationsEnd
    SignalsAreHandled
