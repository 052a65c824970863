----------------------------- MODULE FileLocks -----------------------------
(***************************************************************************)
(* ThreadSafeFileHandler over two FileAccessManagers (src/project1_2/      *)
(* server/file_handler).  Every agent thread has a handler of its own; the *)
(* read manager and the write manager are shared.  Get() locks its file in *)
(* the read manager; Put(), Delete() and MakeDir() lock it in the read and *)
(* then in the write manager, and FileLockGuard releases in the reverse    *)
(* order.  A manager has ONE condition variable for all files and wakes    *)
(* one waiter per unlock, after it has released its mutex.                 *)
(*                                                                         *)
(* A file is its normalized absolute path, the key that UniquePath         *)
(* computes.                                                               *)
(***************************************************************************)
EXTENDS Integers, FiniteSets

CONSTANTS
    Threads, Files, Values, Absent, Dir,
    Partial,        \* what a file opened for writing holds until it is closed
    Requests,       \* the operations (a thread, a kind, a file) clients ask for
    MaxOps          \* bound: operations of each thread

Managers == {"read", "write"}
Kinds == {"get", "put", "delete", "make_dir"}

ASSUME ContentAssumption ==
    /\ Values \cap {Absent, Dir, Partial} = {}
    /\ Absent # Dir /\ Absent # Partial /\ Dir # Partial
ASSUME RequestsAssumption == Requests \subseteq Threads \X Kinds \X Files
ASSUME OpsAssumption == MaxOps \in Nat /\ IsFiniteSet(Threads)

VARIABLES
    content,        \* the file system: what is at each path
    locked,         \* locked_files_ of each manager
    asleep,         \* the threads asleep on file_unlocked_ of each manager
    pc, kind, file, value,  \* the operation each thread is in
    result,         \* what its last Get() returned
    ops             \* operations it has begun

vars == <<content, locked, asleep, pc, kind, file, value, result, ops>>

(* Only threads that are in LockFile sleep, and the members have their types. *)
TypeOK ==
    /\ content \in [Files -> Values \cup {Absent, Dir, Partial}]
    /\ locked \in [Managers -> SUBSET Files]
    /\ pc \in [Threads -> {"idle", "lock_read", "lock_write", "act", "write",
                           "unlock_write", "notify_write", "unlock_read", "notify_read"}]
    /\ asleep["read"] \subseteq {x \in Threads : pc[x] = "lock_read"}
    /\ asleep["write"] \subseteq {x \in Threads : pc[x] = "lock_write"}
    /\ DOMAIN asleep = Managers
    /\ kind \in [Threads -> Kinds]
    /\ file \in [Threads -> Files]
    /\ value \in [Threads -> Values]
    /\ result \in [Threads -> Values \cup {Absent, Dir, Partial}]
    /\ ops \in [Threads -> 0..MaxOps]

Init ==
    /\ content = [f \in Files |-> Absent]
    /\ locked = [m \in Managers |-> {}]
    /\ asleep = [m \in Managers |-> {}]
    /\ pc = [x \in Threads |-> "idle"]
    /\ kind \in [Threads -> {"get"}]
    /\ \E f \in Files, v \in Values :
          file = [x \in Threads |-> f] /\ value = [x \in Threads |-> v]
    /\ result = [x \in Threads |-> Absent]
    /\ ops = [x \in Threads |-> 0]

-----------------------------------------------------------------------------
Goto(x, label) == pc' = [pc EXCEPT ![x] = label]

(* Mutant: Get() takes no lock. *)
FirstLabelUnlockedGet(k) == IF k = "get" THEN "act" ELSE "lock_read"

(* Mutant: Put(), Delete() and MakeDir() do not lock out the readers. *)
FirstLabelWriteOnly(k) == IF k = "get" THEN "lock_read" ELSE "lock_write"

(* Lines 17, 25, 33 and 41 of thread_safe_file_handler.cpp: the first lock. *)
FirstLabel(k) == "lock_read"

(* A request of the agent reaches its handler. *)
Begin(x, k, f, v) ==
    /\ pc[x] = "idle" /\ ops[x] < MaxOps
    /\ <<x, k, f>> \in Requests
    /\ kind' = [kind EXCEPT ![x] = k]
    /\ file' = [file EXCEPT ![x] = f]
    /\ value' = [value EXCEPT ![x] = v]
    /\ ops' = [ops EXCEPT ![x] = @ + 1]
    /\ Goto(x, FirstLabel(k))
    /\ UNCHANGED <<content, locked, asleep, result>>

(* Mutant: the woken waiter does not look whether the file is locked. *)
IsLockedNever(m, x) == FALSE

(* file_access_manager.cpp:36 and 39. *)
IsLocked(m, x) == file[x] \in locked[m]

(* LockFile of the manager m: sleep while the file is locked, then lock it. *)
LockFile(m, x, next) ==
    /\ x \notin asleep[m]
    /\ \/ /\ IsLocked(m, x)
          /\ asleep' = [asleep EXCEPT ![m] = @ \cup {x}]
          /\ UNCHANGED <<locked, pc>>
       \/ /\ ~IsLocked(m, x)
          /\ locked' = [locked EXCEPT ![m] = @ \cup {file[x]}]
          /\ Goto(x, next)
          /\ UNCHANGED asleep
    /\ UNCHANGED <<content, kind, file, value, result, ops>>

(* UnlockFile, lines 53-60. *)
UnlockFile(m, x, next) ==
    /\ locked' = [locked EXCEPT ![m] = @ \ {file[x]}]
    /\ Goto(x, next)
    /\ UNCHANGED <<content, asleep, kind, file, value, result, ops>>

(* Mutant: the next waiter is not notified. *)
NotifyNobody(m) == {asleep[m]}

(* file_unlocked_.notify_one(): who still sleeps afterwards. *)
NotifyOne(m) ==
    IF asleep[m] = {} THEN {{}} ELSE {asleep[m] \ {x} : x \in asleep[m]}

(* UnlockFile, line 62, with the manager's mutex released. *)
NotifyUnlocked(m, x, next) ==
    /\ \E sleepers \in NotifyOne(m) : asleep' = [asleep EXCEPT ![m] = sleepers]
    /\ Goto(x, next)
    /\ UNCHANGED <<content, locked, kind, file, value, result, ops>>

LockRead(x) ==
    /\ pc[x] = "lock_read"
    /\ LockFile("read", x, IF kind[x] = "get" THEN "act" ELSE "lock_write")

LockWrite(x) == pc[x] = "lock_write" /\ LockFile("write", x, "act")

(* What an ifstream delivers: a missing file and a directory both read as nothing. *)
Contents(c) == IF c = Dir THEN Absent ELSE c

(* FileHandler::Get. *)
Get(x) ==
    /\ pc[x] = "act" /\ kind[x] = "get"
    /\ result' = [result EXCEPT ![x] = Contents(content[file[x]])]
    /\ Goto(x, "unlock_read")
    /\ UNCHANGED <<content, locked, asleep, kind, file, value, ops>>

(* FileHandler::Put, line 17: opening the stream truncates the file.  A     *)
(* directory cannot be opened; nothing is written and Put still says true.  *)
PutOpen(x) ==
    /\ pc[x] = "act" /\ kind[x] = "put"
    /\ \/ /\ content[file[x]] # Dir
          /\ content' = [content EXCEPT ![file[x]] = Partial]
          /\ Goto(x, "write")
       \/ /\ content[file[x]] = Dir
          /\ Goto(x, "unlock_write")
          /\ UNCHANGED content
    /\ UNCHANGED <<locked, asleep, kind, file, value, result, ops>>

(* Lines 20-23. *)
PutWrite(x) ==
    /\ pc[x] = "write"
    /\ content' = [content EXCEPT ![file[x]] = value[x]]
    /\ Goto(x, "unlock_write")
    /\ UNCHANGED <<locked, asleep, kind, file, value, result, ops>>

(* std::filesystem::remove, which also removes an (empty) directory. *)
Delete(x) ==
    /\ pc[x] = "act" /\ kind[x] = "delete"
    /\ content' = [content EXCEPT ![file[x]] = Absent]
    /\ Goto(x, "unlock_write")
    /\ UNCHANGED <<locked, asleep, kind, file, value, result, ops>>

(* std::filesystem::create_directory does nothing where something exists. *)
MakeDir(x) ==
    /\ pc[x] = "act" /\ kind[x] = "make_dir"
    /\ content' = [content EXCEPT ![file[x]] = IF @ = Absent THEN Dir ELSE @]
    /\ Goto(x, "unlock_write")
    /\ UNCHANGED <<locked, asleep, kind, file, value, result, ops>>

(* The guards' destructors, the write lock first. *)
UnlockWrite(x) == pc[x] = "unlock_write" /\ UnlockFile("write", x, "notify_write")
NotifyWrite(x) == pc[x] = "notify_write" /\ NotifyUnlocked("write", x, "unlock_read")
UnlockRead(x) == pc[x] = "unlock_read" /\ UnlockFile("read", x, "notify_read")
NotifyRead(x) == pc[x] = "notify_read" /\ NotifyUnlocked("read", x, "idle")

Step(x) ==
    \/ LockRead(x) \/ LockWrite(x)
    \/ Get(x) \/ PutOpen(x) \/ PutWrite(x) \/ Delete(x) \/ MakeDir(x)
    \/ UnlockWrite(x) \/ NotifyWrite(x) \/ UnlockRead(x) \/ NotifyRead(x)

(* A condition variable may wake a waiter without a notification. *)
SpuriousWakeup ==
    /\ \E x \in asleep["read"] : asleep' = [asleep EXCEPT !["read"] = @ \ {x}]
    /\ UNCHANGED <<content, locked, pc, kind, file, value, result, ops>>

Next ==
    \/ \E x \in Threads, k \in Kinds, f \in Files, v \in Values : Begin(x, k, f, v)
    \/ \E x \in Threads : Step(x)
    \/ SpuriousWakeup

(* A thread that is not asleep goes on, and file operations end. *)
Fairness == \A x \in Threads : WF_vars(Step(x))

Spec == Init /\ [][Next]_vars
FairSpec == Spec /\ Fairness

-----------------------------------------------------------------------------
(* x has locked its file in the manager m. *)
Holds(m, x) ==
    \/ pc[x] \in {"act", "write", "unlock_write"} /\ (m = "read" \/ kind[x] # "get")
    \/ pc[x] \in {"lock_write", "notify_write", "unlock_read"} /\ m = "read"

(* A manager's locked_files_ are the files of the threads that hold them, and *)
(* each has one holder: nobody works on a file, or unlocks it (lines 55-59),  *)
(* while another thread is inside an operation on the same file.              *)
LocksAreExclusive ==
    \A m \in Managers :
        /\ locked[m] = {file[x] : x \in {y \in Threads : Holds(m, y)}}
        /\ \A x, y \in Threads : Holds(m, x) /\ Holds(m, y) /\ file[x] = file[y] => x = y

(* Whoever takes a write lock already has the read lock of the same file, so  *)
(* the two-lock operations cannot wait for each other (no deadlock between    *)
(* the managers): the write manager never makes anybody wait.                 *)
WriteLockIsFree == \A x \in Threads : pc[x] = "lock_write" => file[x] \notin locked["write"]

(* While anybody sleeps, somebody who is awake will unlock or look again: the *)
(* single notification of line 62, given to a waiter for another file, is     *)
(* never the last one.                                                        *)
SleepersHaveAWaker ==
    asleep["read"] # {} => \E x \in Threads : pc[x] # "idle" /\ x \notin asleep["read"]

(* The inductive invariant: only the two-lock operations come near the write *)
(* manager, and only Put() writes.                                           *)
KindInv ==
    \A x \in Threads :
        /\ pc[x] \in {"lock_write", "write", "unlock_write", "notify_write"} => kind[x] # "get"
        /\ pc[x] = "write" => kind[x] = "put"

(* Who holds which lock, and in which kind of operation (lines 15-45). *)
IndInv == TypeOK /\ KindInv /\ LocksAreExclusive

(* What the file system will hold once the writers of truncated files are done. *)
Writing(x, f) == pc[x] = "write" /\ file[x] = f
Settled(f) ==
    IF \E x \in Threads : Writing(x, f)
    THEN value[CHOOSE x \in Threads : Writing(x, f)] ELSE content[f]

Files_ == INSTANCE AtomicFiles WITH content <- [f \in Files |-> Settled(f)]

(* The handlers implement atomic files (thread_safe_file_handler.cpp:15-45):  *)
(* no Get() returns a file between truncation and the last write.             *)
ImplementsAtomicFiles == Files_!Spec

(* Every operation ends, although an unlock may wake a waiter for another     *)
(* file, which then sleeps again (lines 38-40 and 62).  It is MaxOps that     *)
(* makes this hold: a manager is not fair, and threads that come back for a   *)
(* file for ever may overtake a waiter for it for ever.                       *)
OperationsEnd == \A x \in Threads : (pc[x] # "idle") ~> (pc[x] = "idle")
=============================================================================
