CONSTANT MaxAttempts = 2
SPECIFICATION FairSpec
CHECK_DEADLOCK FALSE
INVARIANTS
    TypeOK
    TrueMeansConnected
    FalseMeansFailedOrLate
    WhatFailureLeaves
    UnwindIsExact
    LoopRunsWithState
    SubscribedTwiceIsExplained
    StaleOnlyAfterTimeout
PROPERTIES
    ReportEndsWait
    InitReturns
