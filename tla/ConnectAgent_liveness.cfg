CONSTANTS
    CWThreads = {t1, h}
    Handler = h
    Keys = {s1}
    Calls = {c1, c2}
    Requests = {r1}
    Methods = {"input", "other"}
    NoCall = NoCall
    NoKey = NoKey
    NoRequest = NoRequest
    Free = Free
    MaxInt = 3
SPECIFICATION FairSpec
CHECK_DEADLOCK FALSE
PROPERTIES
    ConnectCompletes
    ApiReturns
    RequestsAreShown
