---------------------------- MODULE MCScheduler ----------------------------
(***************************************************************************)
(* TwoPhaseScheduler on small instances.                                   *)
(***************************************************************************)
EXTENDS TwoPhaseScheduler, TLC

Symmetry == Permutations(Requests)
=============================================================================
