------------------------------- MODULE MCBatch -----------------------------
(***************************************************************************)
(* BatchWorker on small instances: two calls for one model and one for     *)
(* another, so that a batch can be cut short and a job put back behind a   *)
(* job of its own call.                                                    *)
(***************************************************************************)
EXTENDS BatchWorker

CONSTANTS r1, r2, r3

ModelNames == [r \in Requests |-> IF r = r3 THEN "second" ELSE "first"]
=============================================================================
