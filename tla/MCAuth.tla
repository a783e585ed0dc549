------------------------------- MODULE MCAuth -------------------------------
(* The gate on a small instance; keys and threads are interchangeable. *)
EXTENDS Auth, TLC

Symmetry == Permutations(Kids) \cup Permutations(Threads)
=============================================================================
