------------------------------ MODULE SendToAll ------------------------------
(***************************************************************************)
(* The "send to all" aggregator (src/include/net_ip/component/            *)
(* send_to_all.hpp): a mutex-protected vector of io_interface handles,    *)
(* with add, remove, broadcast send and a total of the output queue       *)
(* statistics, used concurrently by several user threads while the        *)
(* handlers behind the handles are started, stopped and destroyed by the  *)
(* reactor.                                                                *)
(*                                                                         *)
(* A handle is a weak reference: the name of a handler, or NoHandler for  *)
(* a default-constructed handle.  It is valid while its handler is not    *)
(* destroyed.  The loops of send and get_total_output_queue_stats are     *)
(* modelled one element per step, since the handlers' lifecycle is not    *)
(* under the aggregator's mutex and interleaves with the loop.            *)
(***************************************************************************)
EXTENDS Naturals, Sequences, SequencesExt, FiniteSets

CONSTANTS
    Handlers,     \* the io handlers (model values)
    NoHandler,    \* the referent of a default-constructed handle
    Threads,      \* the user threads calling the aggregator
    Bufs,         \* the buffers broadcast, each by one send call
    NoThread,     \* the owner of an unlocked mutex
    MaxIntfs,     \* bound on the length of the vector m_io_intfs
    MaxCalls      \* bound on the calls each thread makes

ASSUME /\ NoHandler \notin Handlers /\ NoThread \notin Threads
       /\ MaxIntfs \in Nat /\ MaxCalls \in Nat

Handles == Handlers \cup {NoHandler}

HStates == {"created", "started", "stopped", "destroyed"}

VARIABLES
    hstate,      \* lifecycle of each io handler
    outq,        \* each handler's output queue of buffers
    enq,         \* history: every buffer each handler accepted from send
    intfs,       \* m_io_intfs
    mutex,       \* m_mutex: the owning thread or NoThread
    pc,          \* what each thread is doing
    arg,         \* the argument of the call in progress
    idx,         \* the loop position of send / get_total_output_queue_stats
    tot,         \* the running total of get_total_output_queue_stats
    calls,       \* calls made by each thread
    used,        \* the buffers already given to a send call
    gone,        \* handlers removed by remove_io_interface and not added since
    terminated   \* std::terminate was called: the process has ended

vars == <<hstate, outq, enq, intfs, mutex, pc, arg, idx, tot, calls, used,
          gone, terminated>>
handlerVars == <<hstate, outq, enq>>
aggVars == <<intfs, mutex, pc, arg, idx, tot, calls, used, gone>>

-----------------------------------------------------------------------------
(* basic_io_interface: a handle is valid iff its handler is alive; two     *)
(* handles are equal iff both are valid and name the same handler, or      *)
(* both are invalid.                                                       *)

IsValid(io) == io \in Handlers /\ hstate[io] # "destroyed"

HandleEq(a, b) ==
    \/ IsValid(a) /\ IsValid(b) /\ a = b
    \/ ~IsValid(a) /\ ~IsValid(b)

\* The io handler's send: the buffer is queued only while io is started.
HandlerSend(h, b) ==
    IF hstate[h] = "started"
    THEN /\ outq' = [outq EXCEPT ![h] = Append(@, b)]
         /\ enq' = [enq EXCEPT ![h] = Append(@, b)]
    ELSE UNCHANGED <<outq, enq>>

-----------------------------------------------------------------------------
(* The io handlers, driven by the reactor and their supervisor.            *)

StartIo(h) ==
    /\ hstate[h] = "created"
    /\ hstate' = [hstate EXCEPT ![h] = "started"]
    /\ UNCHANGED <<outq, enq, aggVars, terminated>>

\* stop_io, or a terminal error: pending writes are discarded.
StopIo(h) ==
    /\ hstate[h] = "started"
    /\ hstate' = [hstate EXCEPT ![h] = "stopped"]
    /\ outq' = [outq EXCEPT ![h] = <<>>]
    /\ UNCHANGED <<enq, aggVars, terminated>>

\* The supervisor drops its reference: every weak handle to h expires.
Destroy(h) ==
    /\ hstate[h] = "stopped"
    /\ hstate' = [hstate EXCEPT ![h] = "destroyed"]
    /\ UNCHANGED <<outq, enq, aggVars, terminated>>

\* A write completes and the next queued buffer leaves the queue.
WritePump(h) ==
    /\ hstate[h] = "started"
    /\ outq[h] # <<>>
    /\ outq' = [outq EXCEPT ![h] = Tail(@)]
    /\ UNCHANGED <<hstate, enq, aggVars, terminated>>

-----------------------------------------------------------------------------
(* send_to_all.  A call is issued, then waits for m_mutex.                 *)

Call(t, op, a) ==
    /\ pc[t] = "idle"
    /\ calls[t] < MaxCalls
    /\ pc' = [pc EXCEPT ![t] = op]
    /\ arg' = [arg EXCEPT ![t] = a]
    /\ calls' = [calls EXCEPT ![t] = @ + 1]
    /\ used' = IF op = "send" THEN used \cup {a} ELSE used
    /\ UNCHANGED <<handlerVars, intfs, mutex, idx, tot, gone, terminated>>

\* The bound MaxIntfs counts the adds already issued and not yet done.
PendingAdds == Cardinality({t \in Threads : pc[t] = "add"})

Issue(t) ==
    \/ /\ Len(intfs) + PendingAdds < MaxIntfs
       /\ \E io \in Handles : Call(t, "add", io)
    \/ \E io \in Handles : Call(t, "remove", io)
    \/ \E b \in Bufs \ used : Call(t, "send", b)
    \/ Call(t, "stats", NoHandler)

\* Mutant: the handle is pushed twice.
add_io_interface_twice(t) ==
    /\ pc[t] = "add"
    /\ mutex = NoThread
    /\ intfs' = intfs \o <<arg[t], arg[t]>>
    /\ gone' = IF arg[t] \in Handlers THEN gone \ {arg[t]} ELSE gone
    /\ pc' = [pc EXCEPT ![t] = "idle"]
    /\ UNCHANGED <<handlerVars, mutex, arg, idx, tot, calls, used, terminated>>

add_io_interface(t) ==
    /\ pc[t] = "add"
    /\ mutex = NoThread
    /\ intfs' = Append(intfs, arg[t])
    /\ gone' = IF arg[t] \in Handlers THEN gone \ {arg[t]} ELSE gone
    /\ pc' = [pc EXCEPT ![t] = "idle"]
    /\ UNCHANGED <<handlerVars, mutex, arg, idx, tot, calls, used, terminated>>

\* Mutant: only the first element equal to io is erased.
remove_first_io_interface(t) ==
    /\ pc[t] = "remove"
    /\ mutex = NoThread
    /\ LET io == arg[t]
           keep(x) == ~HandleEq(x, io)
           hit == {i \in DOMAIN intfs : ~keep(intfs[i])}
       IN /\ intfs' = IF hit = {} THEN intfs
                      ELSE RemoveAt(intfs, CHOOSE i \in hit : \A j \in hit : i <= j)
          /\ gone' = gone \cup {h \in Range(intfs) \cap Handlers : ~keep(h)}
    /\ pc' = [pc EXCEPT ![t] = "idle"]
    /\ UNCHANGED <<handlerVars, mutex, arg, idx, tot, calls, used, terminated>>

\* Mutant: elements are compared by the handler they name, not by ==, so
\* removing one expired handle leaves the other expired ones.
remove_exact_io_interface(t) ==
    /\ pc[t] = "remove"
    /\ mutex = NoThread
    /\ LET io == arg[t]
           keep(x) == x # io
       IN /\ intfs' = SelectSeq(intfs, keep)
          /\ gone' = gone \cup {h \in Range(intfs) \cap Handlers : ~keep(h)}
    /\ pc' = [pc EXCEPT ![t] = "idle"]
    /\ UNCHANGED <<handlerVars, mutex, arg, idx, tot, calls, used, terminated>>

\* erase_where removes every element equal to io under handle equality.
remove_io_interface(t) ==
    /\ pc[t] = "remove"
    /\ mutex = NoThread
    /\ LET io == arg[t]
           keep(x) == ~HandleEq(x, io)
       IN /\ intfs' = SelectSeq(intfs, keep)
          /\ gone' = gone \cup {h \in Range(intfs) \cap Handlers : ~keep(h)}
    /\ pc' = [pc EXCEPT ![t] = "idle"]
    /\ UNCHANGED <<handlerVars, mutex, arg, idx, tot, calls, used, terminated>>

\* Mutant: the loop runs without taking m_mutex.
SendNoLock(t) ==
    /\ pc[t] = "send"
    /\ pc' = [pc EXCEPT ![t] = "sending"]
    /\ idx' = [idx EXCEPT ![t] = 1]
    /\ UNCHANGED <<handlerVars, intfs, mutex, arg, tot, calls, used, gone,
                   terminated>>

\* send(buf): lock_guard taken for the whole loop over m_io_intfs.
SendLock(t) ==
    /\ pc[t] = "send"
    /\ mutex = NoThread
    /\ mutex' = t
    /\ pc' = [pc EXCEPT ![t] = "sending"]
    /\ idx' = [idx EXCEPT ![t] = 1]
    /\ UNCHANGED <<handlerVars, intfs, arg, tot, calls, used, gone, terminated>>

\* io.send(buf): false on an invalid handle, else the handler's send.
SendStep(t) ==
    /\ pc[t] = "sending"
    /\ idx[t] <= Len(intfs)
    /\ LET io == intfs[idx[t]]
       IN IF IsValid(io) THEN HandlerSend(io, arg[t])
                         ELSE UNCHANGED <<outq, enq>>
    /\ idx' = [idx EXCEPT ![t] = @ + 1]
    /\ UNCHANGED <<hstate, intfs, mutex, pc, arg, tot, calls, used, gone,
                   terminated>>

\* Mutant: m_mutex is not released when the loop ends.
SendKeepLock(t) ==
    /\ pc[t] = "sending"
    /\ idx[t] > Len(intfs)
    /\ pc' = [pc EXCEPT ![t] = "idle"]
    /\ UNCHANGED <<handlerVars, intfs, mutex, arg, idx, tot, calls, used, gone,
                   terminated>>

SendUnlock(t) ==
    /\ pc[t] = "sending"
    /\ idx[t] > Len(intfs)
    /\ mutex' = NoThread
    /\ pc' = [pc EXCEPT ![t] = "idle"]
    /\ UNCHANGED <<handlerVars, intfs, arg, idx, tot, calls, used, gone,
                   terminated>>

\* get_total_output_queue_stats: the lock is taken after tot is zeroed.
StatsLock(t) ==
    /\ pc[t] = "stats"
    /\ mutex = NoThread
    /\ mutex' = t
    /\ pc' = [pc EXCEPT ![t] = "summing"]
    /\ idx' = [idx EXCEPT ![t] = 1]
    /\ tot' = [tot EXCEPT ![t] = 0]
    /\ UNCHANGED <<handlerVars, intfs, arg, calls, used, gone, terminated>>

\* io.get_output_queue_stats() throws on an invalid handle; the exception
\* leaves a noexcept function, and std::terminate ends the process.
StatsStep(t) ==
    /\ pc[t] = "summing"
    /\ idx[t] <= Len(intfs)
    /\ LET io == intfs[idx[t]]
       IN \/ /\ IsValid(io)
             /\ tot' = [tot EXCEPT ![t] = @ + Len(outq[io])]
             /\ idx' = [idx EXCEPT ![t] = @ + 1]
             /\ UNCHANGED terminated
          \/ /\ ~IsValid(io)
             /\ terminated' = TRUE
             /\ UNCHANGED <<tot, idx>>
    /\ UNCHANGED <<handlerVars, intfs, mutex, pc, arg, calls, used, gone>>

StatsUnlock(t) ==
    /\ pc[t] = "summing"
    /\ idx[t] > Len(intfs)
    /\ mutex' = NoThread
    /\ pc' = [pc EXCEPT ![t] = "idle"]
    /\ UNCHANGED <<handlerVars, intfs, arg, idx, tot, calls, used, gone,
                   terminated>>

-----------------------------------------------------------------------------

Init ==
    /\ hstate = [h \in Handlers |-> "created"]
    /\ outq = [h \in Handlers |-> <<>>]
    /\ enq = [h \in Handlers |-> <<>>]
    /\ intfs = <<>>
    /\ mutex = NoThread
    /\ pc = [t \in Threads |-> "idle"]
    /\ arg = [t \in Threads |-> NoHandler]
    /\ idx = [t \in Threads |-> 0]
    /\ tot = [t \in Threads |-> 0]
    /\ calls = [t \in Threads |-> 0]
    /\ used = {}
    /\ gone = {}
    /\ terminated = FALSE

ThreadStep(t) ==
    \/ Issue(t)
    \/ add_io_interface(t)
    \/ remove_io_interface(t)
    \/ SendLock(t) \/ SendStep(t) \/ SendUnlock(t)
    \/ StatsLock(t) \/ StatsStep(t) \/ StatsUnlock(t)

HandlerStep(h) ==
    StartIo(h) \/ StopIo(h) \/ Destroy(h) \/ WritePump(h)

Next ==
    /\ ~terminated
    /\ \/ \E t \in Threads : ThreadStep(t)
       \/ \E h \in Handlers : HandlerStep(h)

\* A thread inside a call is scheduled (no fairness on Issue: a user may
\* stop calling); the reactor keeps writing.
Fairness ==
    /\ \A t \in Threads :
         WF_vars(/\ pc[t] # "idle"
                 /\ ~terminated
                 /\ ThreadStep(t))
    /\ \A h \in Handlers : WF_vars(~terminated /\ WritePump(h))

Spec == Init /\ [][Next]_vars /\ Fairness

-----------------------------------------------------------------------------
(* Properties                                                              *)

TypeOK ==
    /\ hstate \in [Handlers -> HStates]
    /\ outq \in [Handlers -> Seq(Bufs)]
    /\ enq \in [Handlers -> Seq(Bufs)]
    /\ intfs \in BoundedSeq(Handles, MaxIntfs)
    /\ mutex \in Threads \cup {NoThread}
    /\ pc \in [Threads -> {"idle", "add", "remove", "send", "sending",
                           "stats", "summing"}]
    /\ arg \in [Threads -> Handles \cup Bufs]
    /\ idx \in [Threads -> Nat]
    /\ tot \in [Threads -> Nat]
    /\ calls \in [Threads -> 0..MaxCalls]
    /\ used \subseteq Bufs
    /\ gone \subseteq Handlers
    /\ terminated \in BOOLEAN

\* Position of b in s (0 when absent).
PosIn(s, b) == IF \E i \in DOMAIN s : s[i] = b
               THEN CHOOSE i \in DOMAIN s : s[i] = b ELSE 0

\* Broadcasts are serialized by m_mutex: any two buffers that reach two
\* handlers reach them in the same order, even while handlers stop and die
\* in the middle of a send loop.
BroadcastOrderConsistent ==
    \A h1, h2 \in Handlers, b1, b2 \in Bufs :
        (/\ 0 < PosIn(enq[h1], b1) /\ PosIn(enq[h1], b1) < PosIn(enq[h1], b2)
         /\ PosIn(enq[h2], b1) > 0 /\ PosIn(enq[h2], b2) > 0)
        => PosIn(enq[h2], b1) < PosIn(enq[h2], b2)

\* remove_io_interface(io) takes out every copy of io: no later step of a
\* broadcast delivers to a handler removed and not added again.
NoDeliveryAfterRemove ==
    [][\A h \in gone : h \in gone' => enq'[h] = enq[h]]_vars

\* get_total_output_queue_stats is declared noexcept: it must never let the
\* exception of get_output_queue_stats on an invalid handle escape.
StatsNeverTerminates == ~terminated

\* Every call a thread issues returns, unless the process has ended:
\* the mutex is always released and no loop runs forever.
CallsReturn ==
    \A t \in Threads : (pc[t] # "idle") ~> (pc[t] = "idle" \/ terminated)


-----------------------------------------------------------------------------
(* Refinement: send_to_all implements SendToAllSpec.  The members are the  *)
(* handles in the vector; the broadcast in progress is the buffer of the   *)
(* thread holding m_mutex in its send loop; a broadcast is done once its   *)
(* send call has returned.                                                 *)

SendingBuf == {arg[t] : t \in {u \in Threads : mutex = u /\ pc[u] = "sending"}}

SentBufs == {b \in used : \A t \in Threads :
                              ~(pc[t] \in {"send", "sending"} /\ arg[t] = b)}

ABS == INSTANCE SendToAllSpec
           WITH members <- Range(intfs), cur <- SendingBuf, done <- SentBufs

\* Every behaviour of the aggregator, with its element-by-element loops and
\* handlers dying mid-loop, is one of the atomic add/remove and serialized
\* broadcast behaviours of SendToAllSpec: a send reaches only handles in the
\* vector, and neither add, remove nor another send runs inside it.
ImplementsSendToAllSpec == ABS!Spec

=============================================================================
