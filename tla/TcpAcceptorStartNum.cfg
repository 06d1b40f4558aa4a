\* Two-way test: the count the last start callback sees.
CONSTANTS
    Conns = {c1, c2}
    NumMsgs = 2
    Reply = TRUE
SPECIFICATION Spec
INVARIANT StartNumIsConns
CHECK_DEADLOCK FALSE
