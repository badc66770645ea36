CONSTANTS
    CWThreads = {t1, t2, h}
    Handler = h
    Keys = {s1, s2}
    Calls = {c1, c2}
    Requests = {r1, r2}
    Methods = {"input"}
    NoCall = NoCall
    NoKey = NoKey
    NoRequest = NoRequest
    Free = Free
    MaxInt = 2
SPECIFICATION Spec
CHECK_DEADLOCK FALSE
SYMMETRY Symmetry
INVARIANTS
    CATypeOK
    OneConnectPerService
    CallbackExactlyOnce
    AtMostOneReply
    HeldRequestIsOpen
    UnansweredIsExplained
    AnswerReachesItsService
    CallbacksRunUnlocked
PROPERTIES
    ImplementsContract
