------------------------------ MODULE MCSandbox -----------------------------
(* The whole process on small instances; see the README for the bounds. *)
EXTENDS Sandbox, TLC

Symmetry == Permutations(Sids)
=============================================================================
