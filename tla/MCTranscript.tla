--------------------------- MODULE MCTranscript ----------------------------
(***************************************************************************)
(* LiveTranscript on small instances.  Every sample is a hop, so that a    *)
(* segment has enough decodes for words to be agreed on, contradicted and  *)
(* agreed on again before the cap.                                         *)
(***************************************************************************)
EXTENDS LiveTranscript
=============================================================================
