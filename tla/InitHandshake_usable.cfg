CONSTANT MaxAttempts = 1
SPECIFICATION Spec
CHECK_DEADLOCK FALSE
INVARIANTS
    TrueMeansUsable
