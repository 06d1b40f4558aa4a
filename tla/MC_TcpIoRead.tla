---------------------------- MODULE MC_TcpIoRead ----------------------------
(* Model-checking instance of TcpIoRead: bodies of one and two 'Q' bytes. *)
EXTENDS TcpIoRead

MC_Bodies == {<<81>>, <<81, 81>>}

\* Lengths at the byte boundaries of the header, at the assert's limit and
\* past it, and the test's 23 and 513.
MC_HdrLens == {0, 1, 23, 255, 256, 513, 65534, 65535, 65536}
=============================================================================
