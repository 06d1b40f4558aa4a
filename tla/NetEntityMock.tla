---------------------------- MODULE NetEntityMock ----------------------------
(***************************************************************************)
(* net_entity_mock (src/test/include/net_ip/shared_utility_test.hpp): a    *)
(* stand-in net entity whose start spawns a thread that reports the io     *)
(* state change (true), the error message_handler_terminated and the io    *)
(* state change (false) through the user's callbacks, and whose stop       *)
(* joins that thread.  The user thread calls start and stop in any order;  *)
(* the callback thread interleaves with it.                                *)
(***************************************************************************)
EXTENDS Naturals, Sequences

CONSTANTS MaxStarts   \* bound on the successful starts

ASSUME MaxStarts \in Nat

\* The callbacks the spawned thread makes, in the order of its lambda.
Callbacks == <<"ios_true", "ef", "ios_false">>

VARIABLES
    started,     \* net_entity_mock::started
    thr,         \* the std::thread member: "empty", "joinable", "joined"
    tpc,         \* the spawned thread's next callback (4: it has returned)
    upc,         \* the user thread: "idle" or "joining" inside stop
    starts,      \* successful starts so far
    log,         \* the callbacks made, in order
    terminated   \* std::terminate: a joinable std::thread was overwritten

vars == <<started, thr, tpc, upc, starts, log, terminated>>

-----------------------------------------------------------------------------

\* start: false if started; else set started and move a new std::thread
\* into thr.  Move-assigning over a joinable std::thread calls
\* std::terminate.
start ==
    /\ upc = "idle"
    /\ ~started
    /\ starts < MaxStarts
    /\ started' = TRUE
    /\ starts' = starts + 1
    /\ IF thr = "joinable"
       THEN terminated' = TRUE /\ UNCHANGED <<thr, tpc>>
       ELSE thr' = "joinable" /\ tpc' = 1 /\ UNCHANGED terminated
    /\ UNCHANGED <<upc, log>>

\* The spawned thread's lambda, one callback per step (the sleeps only
\* change timing).
ThreadCallback ==
    /\ thr = "joinable" /\ tpc <= Len(Callbacks)
    /\ log' = Append(log, Callbacks[tpc])
    /\ tpc' = tpc + 1
    /\ UNCHANGED <<started, thr, upc, starts, terminated>>

\* Mutant: stop clears started and returns without joining the thread.
stop_no_join ==
    /\ upc = "idle"
    /\ started
    /\ started' = FALSE
    /\ UNCHANGED <<thr, tpc, upc, starts, log, terminated>>

\* stop: false if not started; else clear started and join_thr().
stop ==
    /\ upc = "idle"
    /\ started
    /\ started' = FALSE
    /\ upc' = "joining"
    /\ UNCHANGED <<thr, tpc, starts, log, terminated>>

\* thr.join() returns once the lambda has returned.
join_thr ==
    /\ upc = "joining"
    /\ tpc > Len(Callbacks)
    /\ thr' = "joined"
    /\ upc' = "idle"
    /\ UNCHANGED <<started, tpc, starts, log, terminated>>

Init ==
    /\ started = FALSE
    /\ thr = "empty"
    /\ tpc = 1
    /\ upc = "idle"
    /\ starts = 0
    /\ log = <<>>
    /\ terminated = FALSE

Next ==
    /\ ~terminated
    /\ \/ start \/ stop \/ join_thr
       \/ ThreadCallback

Spec == Init /\ [][Next]_vars

-----------------------------------------------------------------------------
(* Properties                                                              *)

\* Once stop has returned, no callback of the stopped run is still to come,
\* and a later start never overwrites a joinable thread.
QuietAfterStop ==
    /\ ~terminated
    /\ (~started /\ upc = "idle" /\ thr # "empty") => tpc > Len(Callbacks)

=============================================================================
