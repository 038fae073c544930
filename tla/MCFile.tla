------------------------------- MODULE MCFile -------------------------------
(***************************************************************************)
(* FileTranscription on small instances.                                   *)
(***************************************************************************)
EXTENDS FileTranscription
=============================================================================
