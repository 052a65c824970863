---- MODULE MCCoordinator ----
(* Model-checking instances of Coordinator. *)
EXTENDS Coordinator, TLC

Symmetry == Permutations(Tasks) \cup Permutations(Members \cap Active)
====
