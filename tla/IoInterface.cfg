CONSTANTS
    N = 2
    MaxSet = 3
SPECIFICATION Spec
INVARIANT TypeOK
INVARIANT OrderIsStrictWeak
CHECK_DEADLOCK FALSE
