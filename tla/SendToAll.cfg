\* Two user threads racing on the aggregator while two handlers start,
\* stop and die.  The process may end: the threads make a bounded number
\* of calls, and std::terminate ends it.
CONSTANTS
    Handlers = {h1, h2}
    NoHandler = NoHandler
    NoThread = NoThread
    Threads = {t1, t2}
    Bufs = {b1, b2}
    MaxIntfs = 3
    MaxCalls = 2
SPECIFICATION Spec
INVARIANT TypeOK
INVARIANT BroadcastOrderConsistent
PROPERTY NoDeliveryAfterRemove
PROPERTY CallsReturn
PROPERTY ImplementsSendToAllSpec
CHECK_DEADLOCK FALSE
