--------------------------- MODULE MCSessionStore ---------------------------
(* The table alone, under any interleaving of its transactions. *)
EXTENDS SessionStore, TLC

Symmetry == Permutations(Sids)
=============================================================================
