---- MODULE MCFileLocks ----
(* Model checking of FileLocks: two holders and two waiters, of two files.  *)
EXTENDS FileLocks, TLC

CONSTANTS x1, x2, x3, x4, f1, f2

(* Two threads do anything with one file, one reads or writes either file,  *)
(* and one reads the other: three meet on f1, and two wait for two files.   *)
MCRequests ==
    ({x1, x2} \X Kinds \X {f1}) \cup ({x3} \X {"get", "put"} \X {f1, f2})
        \cup {<<x4, "get", f2>>}
====
