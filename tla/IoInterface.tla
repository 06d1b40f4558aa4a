----------------------------- MODULE IoInterface -----------------------------
(***************************************************************************)
(* basic_io_interface: a handle holding a weak reference to an io handler, *)
(* whose operations delegate to the handler while it lives and fail when   *)
(* it is gone, and whose == and < are used to keep handles in containers   *)
(* (basic_io_interface_test stores them in a std::multiset).  The handler  *)
(* behind a handle is the test utility io_handler_mock of                  *)
(* shared_utility_test.hpp.                                                *)
(*                                                                         *)
(* basic_io_interface_test itself uses a local io_handler_base_mock whose  *)
(* start_io and stop_io set started the same way but return nothing.       *)
(*                                                                         *)
(* Handlers are the numbers 1..N, in address order; 0 is the empty weak    *)
(* reference of a default-constructed handle.                              *)
(***************************************************************************)
EXTENDS Naturals, Sequences, SequencesExt

CONSTANTS
    N,        \* the number of io handlers
    MaxSet    \* bound on the size of the multiset

ASSUME N \in Nat \ {0} /\ MaxSet \in Nat

Handlers == 1..N
Handles == 0..N

Ops == {"none", "start_io", "stop_io", "send"}

VARIABLES
    alive,       \* the handler still exists: its weak pointers lock
    started,     \* io_handler_mock::started
    sendCalled,  \* io_handler_mock::send_called
    mset,        \* a std::multiset of handles, in iteration order
    last         \* the last call through a handle: op, handle and result

vars == <<alive, started, sendCalled, mset, last>>

-----------------------------------------------------------------------------

IsValid(io) == io # 0 /\ alive[io]

\* Equal when both lock to the same handler, or neither locks.
HandleEq(a, b) ==
    \/ IsValid(a) /\ IsValid(b) /\ a = b
    \/ ~IsValid(a) /\ ~IsValid(b)

\* Mutant: an invalid handle is less than every handle.
HandleLessInvalidFirst(a, b) == ~IsValid(a) \/ (IsValid(b) /\ a < b)

\* An invalid handle is less than a valid one; valid ones go by address.
HandleLess(a, b) ==
    IF IsValid(a) THEN IsValid(b) /\ a < b ELSE IsValid(b)

\* Mutant: the element is inserted twice.
InsertTwice(io) ==
    /\ Len(mset) < MaxSet
    /\ LET after == {i \in DOMAIN mset : HandleLess(io, mset[i])}
           pos == IF after = {} THEN Len(mset) + 1
                  ELSE CHOOSE i \in after : \A j \in after : i <= j
       IN mset' = InsertAt(InsertAt(mset, pos, io), pos, io)
    /\ UNCHANGED <<alive, started, sendCalled, last>>

\* multiset::insert: the new element goes after every element not greater
\* than it (upper_bound).
Insert(io) ==
    /\ Len(mset) < MaxSet
    /\ LET after == {i \in DOMAIN mset : HandleLess(io, mset[i])}
           pos == IF after = {} THEN Len(mset) + 1
                  ELSE CHOOSE i \in after : \A j \in after : i <= j
       IN mset' = InsertAt(mset, pos, io)
    /\ UNCHANGED <<alive, started, sendCalled, last>>

\* start_io through the handle: false if the handle does not lock, else
\* io_handler_mock::start_io, whose "started ? false : started = true,
\* x_called = true, true" parses as a comma expression and returns true.
start_io(io) ==
    /\ IF IsValid(io)
       THEN started' = [started EXCEPT ![io] = TRUE]
       ELSE UNCHANGED started
    /\ last' = [op |-> "start_io", io |-> io, ret |-> IsValid(io)]
    /\ UNCHANGED <<alive, sendCalled, mset>>

\* stop_io: true only if io was started.
stop_io(io) ==
    /\ IF IsValid(io)
       THEN started' = [started EXCEPT ![io] = FALSE]
       ELSE UNCHANGED started
    /\ last' = [op |-> "stop_io", io |-> io, ret |-> IsValid(io) /\ started[io]]
    /\ UNCHANGED <<alive, sendCalled, mset>>

send(io) ==
    /\ IF IsValid(io)
       THEN sendCalled' = [sendCalled EXCEPT ![io] = TRUE]
       ELSE UNCHANGED sendCalled
    /\ last' = [op |-> "send", io |-> io, ret |-> IsValid(io)]
    /\ UNCHANGED <<alive, started, mset>>

\* The owner of the handler drops it: every weak reference expires.
Destroy(h) ==
    /\ alive[h]
    /\ alive' = [alive EXCEPT ![h] = FALSE]
    /\ UNCHANGED <<started, sendCalled, mset, last>>

Init ==
    /\ alive = [h \in Handlers |-> TRUE]
    /\ started = [h \in Handlers |-> FALSE]
    /\ sendCalled = [h \in Handlers |-> FALSE]
    /\ mset = <<>>
    /\ last = [op |-> "none", io |-> 0, ret |-> FALSE]

Next ==
    \/ \E io \in Handles : Insert(io) \/ start_io(io) \/ stop_io(io) \/ send(io)
    \/ \E h \in Handlers : Destroy(h)

Spec == Init /\ [][Next]_vars

-----------------------------------------------------------------------------
(* Properties                                                              *)

TypeOK ==
    /\ alive \in [Handlers -> BOOLEAN]
    /\ started \in [Handlers -> BOOLEAN]
    /\ sendCalled \in [Handlers -> BOOLEAN]
    /\ mset \in BoundedSeq(Handles, MaxSet)
    /\ last \in [op : Ops, io : Handles, ret : BOOLEAN]

\* < is a strict weak ordering whose equivalence is ==, whichever handlers
\* are alive: what std::multiset and std::set require of their key.
OrderIsStrictWeak ==
    \A a, b, c \in Handles :
        /\ ~HandleLess(a, a)
        /\ HandleLess(a, b) /\ HandleLess(b, c) => HandleLess(a, c)
        /\ (~HandleLess(a, b) /\ ~HandleLess(b, a)) <=> HandleEq(a, b)

\* The multiset stays sorted: the key of a stored handle never moves.
MultisetSorted ==
    \A i, j \in DOMAIN mset : i < j => ~HandleLess(mset[j], mset[i])

\* Spec 4.5 and section 8 property 1: start_io through a handle succeeds
\* only on the first call; a repeat on a started handler returns false.
\* io_handler_mock::start_io, under its comma-operator precedence, answers
\* true to the repeat.
StartIoFirstOnly ==
    [][\A io \in Handlers : start_io(io) /\ last'.ret => ~started[io]]_vars

=============================================================================
