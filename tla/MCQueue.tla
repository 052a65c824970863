---- MODULE MCQueue ----
(* Model-checking instances of Queue. *)
EXTENDS Queue, TLC

Symmetry == Permutations(Producers) \cup Permutations(Consumers) \cup Permutations(Elements)
====
