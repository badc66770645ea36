CONSTANTS
    CWThreads = {t1, h}
    Handler = h
    Keys = {s1}
    Calls = {c1}
    Requests = {r1}
    Methods = {"input"}
    NoCall = NoCall
    NoKey = NoKey
    NoRequest = NoRequest
    Free = Free
    MaxInt = 2
SPECIFICATION Spec
CHECK_DEADLOCK FALSE
INVARIANTS
    ErrorPropertyIsOptional
