---------------------------- MODULE MC_SendToAll ----------------------------
(* Model-checking instance of SendToAll: two handlers, two user threads.  *)
EXTENDS SendToAll
=============================================================================
