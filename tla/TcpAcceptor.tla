----------------------------- MODULE TcpAcceptor -----------------------------
(***************************************************************************)
(* The TCP acceptor and its io handlers, driven as acceptor_test drives    *)
(* them (src/test/net_ip/detail/tcp_acceptor_test.cpp): connector threads  *)
(* run connector_func over blocking sockets, the acceptor's start callback *)
(* start_cb starts io on each accepted handler with the test msg_hdlr, and *)
(* the main thread waits for every connector, stops the acceptor and       *)
(* checks what the callbacks recorded.                                     *)
(*                                                                         *)
(* Framing is abstracted: a message on a connection is "D" (a data         *)
(* message) or "E" (the end-of-flow message with an empty body); that the *)
(* byte stream frames into these is checked by TcpIoRead.  A connection's  *)
(* two directions are sequences of messages; the acceptor side closes with *)
(* a FIN, after which a read that finds no more data meets end of file.   *)
(***************************************************************************)
EXTENDS Naturals, Sequences, FiniteSets

CONSTANTS
    Conns,     \* the connector threads, one connection each
    NumMsgs,   \* the data messages in in_msg_set
    Reply      \* the reply flag: msg_hdlr echoes, connectors read replies

ASSUME NumMsgs \in Nat /\ Reply \in BOOLEAN

VARIABLES
    acc,        \* the acceptor: "started", "stopping" or "stopped"
    active,     \* the connections whose io handler is alive
    hs,         \* each io handler: "none", "started", "stopping", "closed"
    outq,       \* each io handler's output queue
    toAcc,      \* messages written by the connector, not yet read
    toConn,     \* messages written by the acceptor side, not yet read
    fin,        \* the acceptor side has closed: reads past toConn see EOF
    conn,       \* where each connector_func is
    cnt,        \* connector_func's count of messages written
    vb,         \* start_cb's record of the messages msg_hdlr received
    startNum,   \* start_cb.num
    shutNum,    \* shut_cb.num
    shutErr,    \* shut_cb.err
    main,       \* the test's main thread
    crashed     \* an exception escaped a connector thread: std::terminate

vars == <<acc, active, hs, outq, toAcc, toConn, fin, conn, cnt, vb,
          startNum, shutNum, shutErr, main, crashed>>
connVars == <<toAcc, toConn, fin>>
cbVars == <<vb, startNum, shutNum, shutErr>>

ConnPcs == {"connect", "write", "read", "write_empty", "read_empty",
            "write_empty2", "done"}

-----------------------------------------------------------------------------
(* The connector thread: connector_func.  A read that fails throws;        *)
(* nothing catches it, and the process terminates.  A write only fails on  *)
(* a connection reset, which needs data to reach a closed socket first:    *)
(* the only such write is the last one of connector_func, after which the  *)
(* thread does no more socket calls, so resets are not modelled.           *)

Connect(c) ==
    /\ conn[c] = "connect"
    /\ acc = "started"
    /\ conn' = [conn EXCEPT ![c] = "write"]
    /\ UNCHANGED <<acc, active, hs, outq, connVars, cnt, cbVars, main, crashed>>

\* write(sock, buf): the message is sent to the acceptor side.
SockWrite(c, m) == toAcc' = [toAcc EXCEPT ![c] = Append(@, m)]

\* Mutant: end of file is not seen; the read waits for data forever.
SockReadNoEof(c, next) ==
    /\ toConn[c] # <<>>
    /\ toConn' = [toConn EXCEPT ![c] = Tail(@)]
    /\ conn' = [conn EXCEPT ![c] = next]
    /\ UNCHANGED crashed

\* read(sock, buf): blocks for a message, throws at end of file.
SockRead(c, next) ==
    \/ /\ toConn[c] # <<>>
       /\ toConn' = [toConn EXCEPT ![c] = Tail(@)]
       /\ conn' = [conn EXCEPT ![c] = next]
       /\ UNCHANGED crashed
    \/ /\ fin[c] /\ toConn[c] = <<>>
       /\ crashed' = TRUE
       /\ UNCHANGED <<toConn, conn>>

\* Mutant: the loop runs one message past the end of in_msg_set.
WriteMsgPastEnd(c) ==
    /\ conn[c] = "write"
    /\ \/ /\ cnt[c] <= NumMsgs
          /\ SockWrite(c, "D")
          /\ cnt' = [cnt EXCEPT ![c] = @ + 1]
          /\ conn' = [conn EXCEPT ![c] = IF Reply THEN "read" ELSE "write"]
       \/ /\ cnt[c] = NumMsgs
          /\ conn' = [conn EXCEPT ![c] = "write_empty"]
          /\ UNCHANGED <<toAcc, cnt>>
    /\ UNCHANGED <<acc, active, hs, outq, toConn, fin, cbVars, main, crashed>>

\* Mutant: the reply is never read.
WriteMsgNoRead(c) ==
    /\ conn[c] = "write"
    /\ \/ /\ cnt[c] < NumMsgs
          /\ SockWrite(c, "D")
          /\ cnt' = [cnt EXCEPT ![c] = @ + 1]
          /\ UNCHANGED conn
       \/ /\ cnt[c] = NumMsgs
          /\ conn' = [conn EXCEPT ![c] = "write_empty"]
          /\ UNCHANGED <<toAcc, cnt>>
    /\ UNCHANGED <<acc, active, hs, outq, toConn, fin, cbVars, main, crashed>>

\* One iteration of the loop over in_msg_set: write, count, read the reply;
\* or the loop ends.
WriteMsg(c) ==
    /\ conn[c] = "write"
    /\ \/ /\ cnt[c] < NumMsgs
          /\ SockWrite(c, "D")
          /\ cnt' = [cnt EXCEPT ![c] = @ + 1]
          /\ conn' = [conn EXCEPT ![c] = IF Reply THEN "read" ELSE "write"]
       \/ /\ cnt[c] = NumMsgs
          /\ conn' = [conn EXCEPT ![c] = "write_empty"]
          /\ UNCHANGED <<toAcc, cnt>>
    /\ UNCHANGED <<acc, active, hs, outq, toConn, fin, cbVars, main, crashed>>

ReadReply(c) ==
    /\ conn[c] = "read"
    /\ SockRead(c, "write")
    /\ UNCHANGED <<acc, active, hs, outq, toAcc, fin, cnt, cbVars, main>>

\* Shutdown of the message flow: send the empty message, read it back,
\* send it again, then set the promise.
WriteEmpty(c) ==
    /\ conn[c] \in {"write_empty", "write_empty2"}
    /\ SockWrite(c, "E")
    /\ conn' = [conn EXCEPT ![c] = IF @ = "write_empty" THEN "read_empty"
                                                         ELSE "done"]
    /\ UNCHANGED <<acc, active, hs, outq, toConn, fin, cnt, cbVars, main,
                   crashed>>

ReadEmpty(c) ==
    /\ conn[c] = "read_empty"
    /\ SockRead(c, "write_empty2")
    /\ UNCHANGED <<acc, active, hs, outq, toAcc, fin, cnt, cbVars, main>>

-----------------------------------------------------------------------------
(* The acceptor and its io handlers, on the reactor thread.                *)

\* The accept completes: a handler is created and inserted, then start_cb
\* records the handler count and calls start_io on it.
Accept(c) ==
    /\ acc = "started"
    /\ conn[c] # "connect"
    /\ hs[c] = "none"
    /\ hs' = [hs EXCEPT ![c] = "started"]
    /\ active' = active \cup {c}
    /\ startNum' = Cardinality(active')
    /\ UNCHANGED <<acc, outq, connVars, conn, cnt, vb, shutNum, shutErr,
                   main, crashed>>

\* msg_hdlr: a data message is recorded and, with reply, echoed; the empty
\* message is echoed with reply and returns false, ending the read loop.
msg_hdlr(c, m) ==
    /\ outq' = [outq EXCEPT ![c] = IF Reply THEN Append(@, m) ELSE @]
    /\ IF m = "D"
       THEN vb' = vb + 1 /\ UNCHANGED hs
       ELSE hs' = [hs EXCEPT ![c] = "stopping"] /\ UNCHANGED vb

\* A read completes and its message is dispatched.
HandlerRead(c) ==
    /\ hs[c] = "started"
    /\ toAcc[c] # <<>>
    /\ toAcc' = [toAcc EXCEPT ![c] = Tail(@)]
    /\ msg_hdlr(c, Head(toAcc[c]))
    /\ UNCHANGED <<acc, active, toConn, fin, conn, cnt, startNum, shutNum,
                   shutErr, main, crashed>>

\* A write completes.
HandlerWrite(c) ==
    /\ hs[c] \in {"started", "stopping"}
    /\ outq[c] # <<>>
    /\ toConn' = [toConn EXCEPT ![c] = Append(@, Head(outq[c]))]
    /\ outq' = [outq EXCEPT ![c] = Tail(@)]
    /\ UNCHANGED <<acc, active, hs, toAcc, fin, conn, cnt, cbVars, main,
                   crashed>>

\* Mutant: the closed handler is not erased from the acceptor's set.
CloseHandlerKeep(c, err) ==
    /\ hs' = [hs EXCEPT ![c] = "closed"]
    /\ fin' = [fin EXCEPT ![c] = TRUE]
    /\ UNCHANGED active
    /\ shutNum' = Cardinality(active')
    /\ shutErr' = err

\* The socket is closed, the handler is removed, and shut_cb records the error and the remaining count.
CloseHandler(c, err) ==
    /\ hs' = [hs EXCEPT ![c] = "closed"]
    /\ fin' = [fin EXCEPT ![c] = TRUE]
    /\ active' = active \ {c}
    /\ shutNum' = Cardinality(active')
    /\ shutErr' = err

\* After msg_hdlr returned false the handler closes with
\* message_handler_terminated.  Either its pending writes drain first
\* (spec 4.3), or the teardown discards them: "the looped back empty
\* message may not arrive back to the sender" (shared_utility_test.hpp
\* lines 17-20 and 142).
HandlerClose(c) ==
    /\ hs[c] = "stopping"
    /\ CloseHandler(c, "message_handler_terminated")
    /\ \/ outq[c] = <<>> /\ UNCHANGED outq
       \/ outq[c] # <<>> /\ outq' = [outq EXCEPT ![c] = <<>>]
    /\ UNCHANGED <<acc, toAcc, toConn, conn, cnt, vb, startNum, main, crashed>>

\* stop(): the accept loop is cancelled and stop_io is called on every
\* active handler, which closes with io_cancelled.
CancelHandler(c) ==
    /\ acc = "stopping"
    /\ c \in active
    /\ hs[c] \in {"started", "stopping"}
    /\ CloseHandler(c, "io_cancelled")
    /\ outq' = [outq EXCEPT ![c] = <<>>]
    /\ UNCHANGED <<acc, toAcc, toConn, conn, cnt, vb, startNum, main, crashed>>

\* stop() returns once every handler's shutdown callback has run.
AcceptorStopped ==
    /\ acc = "stopping"
    /\ active = {}
    /\ acc' = "stopped"
    /\ UNCHANGED <<active, hs, outq, connVars, conn, cnt, cbVars, main,
                   crashed>>

-----------------------------------------------------------------------------
(* The test's main thread: every future popped and thread joined, then     *)
(* acc_ptr->stop(), then the REQUIREs.                                     *)

MainStop ==
    /\ main = "wait"
    /\ \A c \in Conns : conn[c] = "done"
    /\ main' = "stopping"
    /\ acc' = "stopping"
    /\ UNCHANGED <<active, hs, outq, connVars, conn, cnt, cbVars, crashed>>

MainCheck ==
    /\ main = "stopping"
    /\ acc = "stopped"
    /\ main' = "checked"
    /\ UNCHANGED <<acc, active, hs, outq, connVars, conn, cnt, cbVars, crashed>>

-----------------------------------------------------------------------------

Init ==
    /\ acc = "started"
    /\ active = {}
    /\ hs = [c \in Conns |-> "none"]
    /\ outq = [c \in Conns |-> <<>>]
    /\ toAcc = [c \in Conns |-> <<>>]
    /\ toConn = [c \in Conns |-> <<>>]
    /\ fin = [c \in Conns |-> FALSE]
    /\ conn = [c \in Conns |-> "connect"]
    /\ cnt = [c \in Conns |-> 0]
    /\ vb = 0
    /\ startNum = 0
    /\ shutNum = 0
    /\ shutErr = "none"
    /\ main = "wait"
    /\ crashed = FALSE

ConnectorStep(c) ==
    Connect(c) \/ WriteMsg(c) \/ ReadReply(c) \/ WriteEmpty(c) \/ ReadEmpty(c)

ReactorStep(c) ==
    Accept(c) \/ HandlerRead(c) \/ HandlerWrite(c) \/ HandlerClose(c)
    \/ CancelHandler(c)

Next ==
    /\ ~crashed
    /\ \/ \E c \in Conns : ConnectorStep(c) \/ ReactorStep(c)
       \/ AcceptorStopped
       \/ MainStop
       \/ MainCheck

\* Threads that can run do run: the connectors, the reactor's completion
\* handlers and the main thread.
Fairness ==
    /\ \A c \in Conns : WF_vars(~crashed /\ ConnectorStep(c))
                        /\ WF_vars(~crashed /\ ReactorStep(c))
    /\ WF_vars(~crashed /\ (AcceptorStopped \/ MainStop \/ MainCheck))

Spec == Init /\ [][Next]_vars /\ Fairness

-----------------------------------------------------------------------------
(* Properties                                                              *)

Msgs == {"D", "E"}

TypeOK ==
    /\ acc \in {"started", "stopping", "stopped"}
    /\ active \subseteq Conns
    /\ hs \in [Conns -> {"none", "started", "stopping", "closed"}]
    /\ outq \in [Conns -> Seq(Msgs)]
    /\ toAcc \in [Conns -> Seq(Msgs)]
    /\ toConn \in [Conns -> Seq(Msgs)]
    /\ fin \in [Conns -> BOOLEAN]
    /\ conn \in [Conns -> ConnPcs]
    /\ cnt \in [Conns -> 0..NumMsgs]
    /\ vb \in Nat
    /\ startNum \in Nat /\ shutNum \in Nat
    /\ shutErr \in {"none", "message_handler_terminated", "io_cancelled"}
    /\ main \in {"wait", "stopping", "checked"}
    /\ crashed \in BOOLEAN

TotalMsgs == Cardinality(Conns) * NumMsgs

\* No socket call of a connector thread fails: the shutdown exchange of
\* connector_func matches what msg_hdlr does with the empty message.
NoConnectorFailure == ~crashed

\* The REQUIREs after stop(): the last shutdown callback saw no handler
\* left and an error, every connector wrote every message, and msg_hdlr
\* received every one of them before stop() cancelled the handlers.
TestRequiresHold ==
    main = "checked" =>
        /\ shutNum = 0
        /\ shutErr # "none"
        /\ cnt = [c \in Conns |-> NumMsgs]
        /\ vb = TotalMsgs

\* REQUIRE(start_callback.num == num_conns): the last start callback saw
\* every connection active.
StartNumIsConns == main = "checked" => startNum = Cardinality(Conns)

\* The test always ends: every connector finishes, stop() returns, and the
\* checks run (unless the process has terminated).
TestTerminates == <>(main = "checked" \/ crashed)

=============================================================================
