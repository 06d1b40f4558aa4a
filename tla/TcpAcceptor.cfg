\* Two-way test (reply true): three connectors, two data messages each.
CONSTANTS
    Conns = {c1, c2, c3}
    NumMsgs = 2
    Reply = TRUE
SPECIFICATION Spec
INVARIANT TypeOK
INVARIANT TestRequiresHold
PROPERTY TestTerminates
CHECK_DEADLOCK FALSE
