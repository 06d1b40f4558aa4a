\* get_total_output_queue_stats over a vector holding an invalid handle.
CONSTANTS
    Handlers = {h1}
    NoHandler = NoHandler
    NoThread = NoThread
    Threads = {t1, t2}
    Bufs = {b1}
    MaxIntfs = 2
    MaxCalls = 2
SPECIFICATION Spec
INVARIANT StatsNeverTerminates
CHECK_DEADLOCK FALSE
