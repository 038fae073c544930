------------------------------ MODULE MCLegacy ------------------------------
(***************************************************************************)
(* LegacyJobs on small instances.  Requests are interchangeable.           *)
(***************************************************************************)
EXTENDS LegacyJobs, TLC

Symmetry == Permutations(Requests)
=============================================================================
