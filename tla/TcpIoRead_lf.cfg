\* The read path with LF framing: a one-byte body makes a two-byte frame.
CONSTANTS
    Framings = {"lf"}
    Bodies <- MC_Bodies
    MaxMsgs = 3
    HdrLens <- MC_HdrLens
SPECIFICATION Spec
INVARIANT StopsOnlyAtEndOfFlow
CHECK_DEADLOCK FALSE
