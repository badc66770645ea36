CONSTANTS
    Threads = {t1}
    Manager = manager
    Technologies = {wifi}
    Services = {home}
    NULL = NULL
    Drifting = {}
    Starts <- SomeStarts
    ApiCalls <- Offline
    Any = t1
    MaxCalls = 1
SPECIFICATION Spec
CHECK_DEADLOCK FALSE
INVARIANTS
    FailureIsReturned
