---- MODULE MCServer ----
(* Model-checking instances of Server. *)
EXTENDS Server, TLC

Symmetry == Permutations(Clients) \cup Permutations(Callers)
====
