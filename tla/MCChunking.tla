----------------------------- MODULE MCChunking -----------------------------
(***************************************************************************)
(* Chunking and Stitching on small recordings.                           *)
(***************************************************************************)
EXTENDS Stitching
=============================================================================
