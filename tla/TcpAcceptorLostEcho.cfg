\* Two-way test (reply true), one connector: the echo of the empty message
\* may be discarded when the handler closes.
CONSTANTS
    Conns = {c1}
    NumMsgs = 1
    Reply = TRUE
SPECIFICATION Spec
INVARIANT NoConnectorFailure
CHECK_DEADLOCK FALSE
