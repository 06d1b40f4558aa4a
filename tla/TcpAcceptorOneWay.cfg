\* One-way test (reply false): the connector still reads back the empty
\* message.
CONSTANTS
    Conns = {c1, c2}
    NumMsgs = 2
    Reply = FALSE
SPECIFICATION Spec
INVARIANT NoConnectorFailure
CHECK_DEADLOCK FALSE
