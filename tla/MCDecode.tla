------------------------------ MODULE MCDecode -----------------------------
(***************************************************************************)
(* TDTDecode on small instances.                                           *)
(***************************************************************************)
EXTENDS TDTDecode
=============================================================================
