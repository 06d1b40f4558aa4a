\* Twelve start / stop rounds of one user thread against the callback thread.
CONSTANTS
    MaxStarts = 12
SPECIFICATION Spec
INVARIANT QuietAfterStop
CHECK_DEADLOCK FALSE
