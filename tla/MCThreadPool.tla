---- MODULE MCThreadPool ----
(* Model checking of ThreadPool: tasks and callers are model values. *)
EXTENDS ThreadPool
====
