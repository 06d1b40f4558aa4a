--------------------------- MODULE MC_TcpAcceptor ---------------------------
(* Model-checking instance of TcpAcceptor: the connectors and the message *)
(* count are given in the .cfg files.                                     *)
EXTENDS TcpAcceptor
=============================================================================
