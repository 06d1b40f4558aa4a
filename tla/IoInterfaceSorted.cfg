CONSTANTS
    N = 2
    MaxSet = 3
SPECIFICATION Spec
INVARIANT MultisetSorted
CHECK_DEADLOCK FALSE
