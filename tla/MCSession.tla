----------------------------- MODULE MCSession -----------------------------
(***************************************************************************)
(* LiveSession on small instances.  A hop is two samples and a segment     *)
(* three, so that a chunk of two can reach both at once, one, or step over *)
(* the cap.                                                                *)
(***************************************************************************)
EXTENDS LiveSession
=============================================================================
