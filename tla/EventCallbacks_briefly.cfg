CONSTANTS
    AppThreads = {t1}
    Handler = h
    Entries = {e1, e2}
    Nobody = Nobody
    Signals <- FewSignals
    MaxSignals = 1
    Nests <- AnyList
SPECIFICATION FairSpec
CHECK_DEADLOCK FALSE
PROPERTIES
    RegistrationEnds
