---------------------------- MODULE AtomicFiles ----------------------------
(***************************************************************************)
(* What ThreadSafeFileHandler promises ("they will be synchronized         *)
(* globally", thread_safe_file_handler.h:14): every operation on a file    *)
(* acts at one instant, so nobody sees a file that is partly written.      *)
(***************************************************************************)
CONSTANTS
    Threads, Files,
    Values,         \* contents a file may have
    Absent, Dir     \* the path does not exist, or is a directory

VARIABLES
    content,        \* what is at each path
    result          \* what each thread's last Get() returned

vars == <<content, result>>

Init == content = [f \in Files |-> Absent] /\ result = [x \in Threads |-> Absent]

(* A missing file and a directory both read as nothing. *)
Contents(c) == IF c = Dir THEN Absent ELSE c

Get(x, f) ==
    /\ result' = [result EXCEPT ![x] = Contents(content[f])]
    /\ UNCHANGED content

(* Creating a file over a directory fails and leaves the directory. *)
Put(x, f, v) ==
    /\ content[f] # Dir
    /\ content' = [content EXCEPT ![f] = v]
    /\ UNCHANGED result

Delete(x, f) ==
    /\ content' = [content EXCEPT ![f] = Absent]
    /\ UNCHANGED result

MakeDir(x, f) ==
    /\ content[f] = Absent
    /\ content' = [content EXCEPT ![f] = Dir]
    /\ UNCHANGED result

Next ==
    \E x \in Threads, f \in Files :
        \/ Get(x, f) \/ Delete(x, f) \/ MakeDir(x, f)
        \/ \E v \in Values : Put(x, f, v)

Spec == Init /\ [][Next]_vars
=============================================================================
