CONSTANT MaxAttempts = 2
SPECIFICATION Spec
CHECK_DEADLOCK FALSE
INVARIANTS
    RetriedTrueMeansConnected
