----------------------------- MODULE MCSessions -----------------------------
(* Sessions for TLC: tokens and processes are interchangeable. *)
EXTENDS Sessions, TLC

Symmetry == Permutations(Procs) \cup Permutations(Tokens) \cup Permutations(Users)
=============================================================================
