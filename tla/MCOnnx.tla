------------------------------- MODULE MCOnnx -------------------------------
(***************************************************************************)
(* OnnxService on small instances: a request for the default model and a   *)
(* batch for one that has to be loaded.                                    *)
(***************************************************************************)
EXTENDS OnnxService

CONSTANTS r1, r2

ModelNames == [r \in Requests |-> IF r = r2 THEN "second" ELSE "first"]
=============================================================================
