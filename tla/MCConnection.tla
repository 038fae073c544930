------------------------------ MODULE MCConnection -------------------------
(***************************************************************************)
(* RealtimeConnection on small instances.                                  *)
(***************************************************************************)
EXTENDS RealtimeConnection
=============================================================================
