CONSTANTS
    Threads = {t1, t2}
    Manager = manager
    Technologies = {wifi}
    Services = {home}
    NULL = NULL
    Drifting = {wifi}
    Starts <- SomeStarts
    ApiCalls <- AllAndWrites
    Any = t1
    MaxCalls = 2
SPECIFICATION FairSpec
CHECK_DEADLOCK FALSE
INVARIANTS
    TypeOK
    FailureIsReal
    ErrorNamesCause
    CrashIsExplained
PROPERTIES
    ImplementsRegister
    CallsReturn
