\* The read path with varlen and with crlf framing (the two framings
\* tcp_start_io is given in acceptor_test); up to three data messages and
\* the end-of-flow message, in any TCP segmentation.
CONSTANTS
    Framings = {"varlen", "crlf"}
    Bodies <- MC_Bodies
    MaxMsgs = 3
    HdrLens <- MC_HdrLens
SPECIFICATION Spec
INVARIANT TypeOK
INVARIANT FramesAreMessages
INVARIANT StopsOnlyAtEndOfFlow
INVARIANT HeaderRoundTrip
PROPERTY EndOfFlowStops
CHECK_DEADLOCK FALSE
