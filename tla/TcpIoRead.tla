------------------------------ MODULE TcpIoRead ------------------------------
(***************************************************************************)
(* The read path of one TCP io handler: the peer writes framed messages    *)
(* (made by the test utilities make_variable_len_msg, make_cr_lf_text_msg  *)
(* and make_lf_text_msg), TCP delivers the bytes in arbitrary segments,    *)
(* the handler frames them (two-phase header/body read, or read-until a    *)
(* delimiter) and dispatches each frame to the test message handler        *)
(* msg_hdlr, whose false return ends the read loop.                        *)
(*                                                                         *)
(* Bytes are numbers 0..255.  A body is a sequence of bytes that contains  *)
(* no delimiter byte; the empty body is the end-of-flow message.           *)
(***************************************************************************)
EXTENDS Integers, Sequences, SequencesExt

CONSTANTS
    Framings,  \* the framings start_io may be given: "varlen", "crlf", "lf"
    Bodies,    \* the non-empty bodies the peer may send
    MaxMsgs,   \* bound on the data messages the peer sends
    HdrLens    \* body lengths at which the 16-bit header is checked

ASSUME Framings \subseteq {"varlen", "crlf", "lf"} /\ MaxMsgs \in Nat
ASSUME \A b \in Bodies : b # <<>> /\ \A i \in DOMAIN b : b[i] \notin {10, 13}

Byte == 0..255

VARIABLES
    framing,    \* the framing tcp_start_io gave start_io
    sent,       \* the messages the peer has written, in order
    wire,       \* bytes written by the peer and not yet received
    rbuf,       \* bytes received and not yet consumed by a frame
    phase,      \* "hdr" or "body": the two-phase read of variable-len framing
    need,       \* the body length decoded from the header
    delivered,  \* the frames dispatched to msg_hdlr, in order
    cnt,        \* msg_hdlr's test_counter
    io          \* "started", or "stopped" once msg_hdlr returned false

vars == <<framing, sent, wire, rbuf, phase, need, delivered, cnt, io>>

-----------------------------------------------------------------------------
(* Message construction and header decoding (shared_utility_test).         *)

\* Mutant: the assert is compiled out (an NDEBUG build).
VarLenAdmitsNDEBUG(n) == TRUE

\* assert(body.size() < std::numeric_limits<std::uint16_t>::max()): the
\* bodies make_variable_len_msg accepts.
VarLenAdmits(n) == n < 65535

\* static_cast<std::uint16_t>(size), then native_to_big: two bytes, MSB first.
VarLenHdr(n) == LET v == n % 65536 IN <<v \div 256, v % 256>>

make_variable_len_msg(body) == VarLenHdr(Len(body)) \o body

make_cr_lf_text_msg(body) == body \o <<13, 10>>

make_lf_text_msg(body) == body \o <<10>>

MakeMsg(body) ==
    CASE framing = "varlen" -> make_variable_len_msg(body)
      [] framing = "crlf"   -> make_cr_lf_text_msg(body)
      [] framing = "lf"     -> make_lf_text_msg(body)

\* make_empty_body_msg: the end-of-flow message.
EmptyMsg == MakeMsg(<<>>)

\* Mutant: the header is read in host (little-endian) byte order.
decode_hdr_native(h) == h[2] * 256 + h[1]

\* Copy the two bytes into a uint16_t, then big_to_native.
decode_variable_len_msg_hdr(h) == h[1] * 256 + h[2]

Delim == IF framing = "crlf" THEN <<13, 10>> ELSE <<10>>

\* Mutant: the scan misses a delimiter at the very start of the buffer.
DelimEndSkipFirst(s) ==
    LET ends == {i \in Len(Delim) + 1..Len(s) :
                   SubSeq(s, i - Len(Delim) + 1, i) = Delim}
    IN IF ends = {} THEN 0 ELSE CHOOSE i \in ends : \A j \in ends : i <= j

\* The end of the first occurrence of Delim in s (0 when there is none).
DelimEnd(s) ==
    LET ends == {i \in Len(Delim)..Len(s) :
                   SubSeq(s, i - Len(Delim) + 1, i) = Delim}
    IN IF ends = {} THEN 0 ELSE CHOOSE i \in ends : \A j \in ends : i <= j

-----------------------------------------------------------------------------

\* Mutant: a frame of exactly two bytes is counted as data.
msg_hdlr_ge(frame) ==
    /\ delivered' = Append(delivered, frame)
    /\ IF Len(frame) >= 2
       THEN cnt' = cnt + 1 /\ UNCHANGED io
       ELSE io' = "stopped" /\ UNCHANGED cnt

\* msg_hdlr with reply false: a frame longer than two bytes is counted,
\* anything else is taken as the end-of-flow message.
msg_hdlr(frame) ==
    /\ delivered' = Append(delivered, frame)
    /\ IF Len(frame) > 2
       THEN cnt' = cnt + 1 /\ UNCHANGED io
       ELSE io' = "stopped" /\ UNCHANGED cnt

PeerSend(body) ==
    /\ EmptyMsg \notin Range(sent)
    /\ framing = "varlen" => VarLenAdmits(Len(body))
    /\ Len(sent) < MaxMsgs
    /\ sent' = Append(sent, MakeMsg(body))
    /\ wire' = wire \o MakeMsg(body)
    /\ UNCHANGED <<framing, rbuf, phase, need, delivered, cnt, io>>

PeerSendEmpty ==
    /\ EmptyMsg \notin Range(sent)
    /\ sent' = Append(sent, EmptyMsg)
    /\ wire' = wire \o EmptyMsg
    /\ UNCHANGED <<framing, rbuf, phase, need, delivered, cnt, io>>

\* A TCP segment of k bytes arrives.
Arrive(k) ==
    /\ 1 <= k /\ k <= Len(wire)
    /\ rbuf' = rbuf \o SubSeq(wire, 1, k)
    /\ wire' = SubSeq(wire, k + 1, Len(wire))
    /\ UNCHANGED <<framing, sent, phase, need, delivered, cnt, io>>

\* Mutant: the decoded length is taken to include the header.
ReadHeaderWithHdr ==
    /\ framing = "varlen" /\ io = "started" /\ phase = "hdr"
    /\ Len(rbuf) >= 2
    /\ need' = decode_variable_len_msg_hdr(SubSeq(rbuf, 1, 2)) - 2
    /\ phase' = "body"
    /\ UNCHANGED <<framing, sent, wire, rbuf, delivered, cnt, io>>

\* Variable-len framing: the exact read of the 2-byte header completes and
\* the frame function gives the body length.
ReadHeader ==
    /\ framing = "varlen" /\ io = "started" /\ phase = "hdr"
    /\ Len(rbuf) >= 2
    /\ need' = decode_variable_len_msg_hdr(SubSeq(rbuf, 1, 2))
    /\ phase' = "body"
    /\ UNCHANGED <<framing, sent, wire, rbuf, delivered, cnt, io>>

\* Mutant: the body read waits for one byte more than the body.
ReadBodyOneMore ==
    /\ framing = "varlen" /\ io = "started" /\ phase = "body"
    /\ Len(rbuf) > 2 + need
    /\ msg_hdlr(SubSeq(rbuf, 1, 2 + need))
    /\ rbuf' = SubSeq(rbuf, 3 + need, Len(rbuf))
    /\ phase' = "hdr"
    /\ UNCHANGED <<framing, sent, wire, need>>

\* Mutant: only the body, without its header, goes to msg_hdlr.
ReadBodyNoHdr ==
    /\ framing = "varlen" /\ io = "started" /\ phase = "body"
    /\ Len(rbuf) >= 2 + need
    /\ msg_hdlr(SubSeq(rbuf, 3, 2 + need))
    /\ rbuf' = SubSeq(rbuf, 3 + need, Len(rbuf))
    /\ phase' = "hdr"
    /\ UNCHANGED <<framing, sent, wire, need>>

\* The exact read of the body completes: header and body go to msg_hdlr.
ReadBody ==
    /\ framing = "varlen" /\ io = "started" /\ phase = "body"
    /\ Len(rbuf) >= 2 + need
    /\ msg_hdlr(SubSeq(rbuf, 1, 2 + need))
    /\ rbuf' = SubSeq(rbuf, 3 + need, Len(rbuf))
    /\ phase' = "hdr"
    /\ UNCHANGED <<framing, sent, wire, need>>

\* Mutant: the bytes read past the delimiter are dropped with the frame.
ReadUntilDropTail ==
    /\ framing # "varlen" /\ io = "started"
    /\ DelimEnd(rbuf) > 0
    /\ msg_hdlr(SubSeq(rbuf, 1, DelimEnd(rbuf)))
    /\ rbuf' = <<>>
    /\ UNCHANGED <<framing, sent, wire, phase, need>>

\* Delimiter framing: the read completes at the first delimiter; the frame
\* includes it, and the bytes after it stay in the buffer.
ReadUntil ==
    /\ framing # "varlen" /\ io = "started"
    /\ DelimEnd(rbuf) > 0
    /\ msg_hdlr(SubSeq(rbuf, 1, DelimEnd(rbuf)))
    /\ rbuf' = SubSeq(rbuf, DelimEnd(rbuf) + 1, Len(rbuf))
    /\ UNCHANGED <<framing, sent, wire, phase, need>>

Init ==
    /\ framing \in Framings
    /\ sent = <<>>
    /\ wire = <<>>
    /\ rbuf = <<>>
    /\ phase = "hdr"
    /\ need = 0
    /\ delivered = <<>>
    /\ cnt = 0
    /\ io = "started"

Next ==
    \/ \E b \in Bodies : PeerSend(b)
    \/ PeerSendEmpty
    \/ \E k \in 1..Len(wire) : Arrive(k)
    \/ ReadHeader
    \/ ReadBody
    \/ ReadUntil

\* The network delivers and the reactor completes reads.
Fairness ==
    /\ WF_vars(\E k \in 1..Len(wire) : Arrive(k))
    /\ WF_vars(ReadHeader) /\ WF_vars(ReadBody) /\ WF_vars(ReadUntil)

Spec == Init /\ [][Next]_vars /\ Fairness

-----------------------------------------------------------------------------
(* Properties                                                              *)

TypeOK ==
    /\ framing \in Framings
    /\ sent \in Seq(Seq(Byte))
    /\ wire \in Seq(Byte)
    /\ rbuf \in Seq(Byte)
    /\ phase \in {"hdr", "body"}
    /\ need \in Nat
    /\ delivered \in Seq(Seq(Byte))
    /\ cnt \in Nat
    /\ io \in {"started", "stopped"}

\* Whatever the segmentation, the frames given to msg_hdlr are exactly the
\* messages the peer wrote, in order.
FramesAreMessages == IsPrefix(delivered, sent)

\* msg_hdlr ends the read loop only on the end-of-flow message, and its
\* counter counts every other message.
StopsOnlyAtEndOfFlow ==
    /\ io = "stopped" => Last(delivered) = EmptyMsg
    /\ cnt = Len(SelectSeq(delivered, LAMBDA f : f # EmptyMsg))

\* Every body length that the assert of make_variable_len_msg admits fits
\* the 16-bit header: the big-endian header decodes to the length it
\* encodes at the byte boundaries of the field and at the limit (lengths
\* the assert rejects, such as 65536, would wrap in the uint16_t cast), and
\* every message the peer wrote carries a header that the frame function
\* decodes to the length of the body after it.
HeaderRoundTrip ==
    /\ \A n \in HdrLens :
        VarLenAdmits(n) => decode_variable_len_msg_hdr(VarLenHdr(n)) = n
    /\ framing = "varlen" => \A i \in DOMAIN sent :
        decode_variable_len_msg_hdr(SubSeq(sent[i], 1, 2)) = Len(sent[i]) - 2

\* Once the peer has sent the end-of-flow message, the handler reads it and
\* stops.
EndOfFlowStops ==
    (EmptyMsg \in Range(sent)) ~> (io = "stopped")

=============================================================================
