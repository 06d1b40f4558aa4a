---------------------------- MODULE SendToAllSpec ----------------------------
(***************************************************************************)
(* What the aggregator of send_to_all.hpp promises, without its vector,   *)
(* mutex or threads: a set of member handles that add and remove change   *)
(* atomically, and broadcasts that happen one at a time: a broadcast      *)
(* begins, reaches members whose handler is started, and ends, and no     *)
(* other broadcast or membership change happens in between.  The io       *)
(* handlers start, stop and die as in SendToAll.                          *)
(***************************************************************************)
EXTENDS Sequences

CONSTANTS Handlers, NoHandler, Bufs

VARIABLES
    hstate,    \* lifecycle of each io handler
    outq,      \* each handler's output queue
    enq,       \* every buffer each handler accepted
    members,   \* the handles in the collection
    cur,       \* the buffer being broadcast: {} or {b}
    done       \* the buffers whose broadcast has ended

vars == <<hstate, outq, enq, members, cur, done>>

IsValid(io) == io \in Handlers /\ hstate[io] # "destroyed"

HandleEq(a, b) ==
    \/ IsValid(a) /\ IsValid(b) /\ a = b
    \/ ~IsValid(a) /\ ~IsValid(b)

-----------------------------------------------------------------------------

Add(io) ==
    /\ cur = {}
    /\ members' = members \cup {io}
    /\ UNCHANGED <<hstate, outq, enq, cur, done>>

\* Every member equal to io leaves.
Remove(io) ==
    /\ cur = {}
    /\ members' = {x \in members : ~HandleEq(x, io)}
    /\ UNCHANGED <<hstate, outq, enq, cur, done>>

Begin(b) ==
    /\ cur = {} /\ b \notin done
    /\ cur' = {b}
    /\ UNCHANGED <<hstate, outq, enq, members, done>>

\* The buffer of the broadcast in progress reaches a started member.
Deliver(h) ==
    /\ h \in members /\ hstate[h] = "started"
    /\ \E b \in cur : /\ outq' = [outq EXCEPT ![h] = Append(@, b)]
                      /\ enq' = [enq EXCEPT ![h] = Append(@, b)]
    /\ UNCHANGED <<hstate, members, cur, done>>

End ==
    /\ cur # {}
    /\ done' = done \cup cur
    /\ cur' = {}
    /\ UNCHANGED <<hstate, outq, enq, members>>

\* The io handler's lifecycle and write pump, as the reactor drives them.
HandlerStep(h) ==
    /\ \/ hstate[h] = "created" /\ hstate' = [hstate EXCEPT ![h] = "started"]
                                /\ UNCHANGED outq
       \/ hstate[h] = "started" /\ hstate' = [hstate EXCEPT ![h] = "stopped"]
                                /\ outq' = [outq EXCEPT ![h] = <<>>]
       \/ hstate[h] = "stopped" /\ hstate' = [hstate EXCEPT ![h] = "destroyed"]
                                /\ UNCHANGED outq
       \/ hstate[h] = "started" /\ outq[h] # <<>>
                                /\ outq' = [outq EXCEPT ![h] = Tail(@)]
                                /\ UNCHANGED hstate
    /\ UNCHANGED <<enq, members, cur, done>>

Init ==
    /\ hstate = [h \in Handlers |-> "created"]
    /\ outq = [h \in Handlers |-> <<>>]
    /\ enq = [h \in Handlers |-> <<>>]
    /\ members = {}
    /\ cur = {}
    /\ done = {}

Next ==
    \/ \E io \in Handlers \cup {NoHandler} : Add(io) \/ Remove(io)
    \/ \E b \in Bufs : Begin(b)
    \/ \E h \in Handlers : Deliver(h) \/ HandlerStep(h)
    \/ End

Spec == Init /\ [][Next]_vars

=============================================================================
