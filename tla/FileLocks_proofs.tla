------------------------- MODULE FileLocks_proofs -------------------------
(***************************************************************************)
(* Proofs about FileLocks, for any number of threads, files and values:    *)
(* the locks are exclusive, the write manager makes nobody wait, sleepers  *)
(* always have a waker, and the handlers implement atomic files.           *)
(***************************************************************************)
EXTENDS FileLocks, TLAPS

(* Nothing is locked at first. *)
LEMMA InitStep == Init => IndInv
<1> SUFFICES ASSUME Init PROVE IndInv
  OBVIOUS
<1>1. TypeOK
  BY OpsAssumption DEF Init, TypeOK, Kinds, Managers
<1>2. KindInv
  BY DEF Init, KindInv
<1>3. LocksAreExclusive
  BY DEF Init, LocksAreExclusive, Holds, Managers
<1> QED
  BY <1>1, <1>2, <1>3 DEF IndInv

(* A thread that begins an operation holds nothing yet. *)
LEMMA BeginStep ==
    ASSUME IndInv, NEW x \in Threads, NEW k \in Kinds, NEW f \in Files, NEW v \in Values,
           Begin(x, k, f, v)
    PROVE  IndInv'
<1>1. TypeOK'
  BY OpsAssumption DEF IndInv, TypeOK, Begin, Goto, FirstLabel
<1>2. KindInv'
  BY DEF IndInv, TypeOK, KindInv, Begin, Goto, FirstLabel
<1>3. \A m \in Managers, y \in Threads :
         /\ Holds(m, y)' <=> Holds(m, y)
         /\ Holds(m, y) => file'[y] = file[y]
  BY DEF IndInv, TypeOK, Begin, Goto, FirstLabel, Holds
<1>4. LocksAreExclusive'
  BY <1>3 DEF IndInv, LocksAreExclusive, Begin
<1> QED
  BY <1>1, <1>2, <1>4 DEF IndInv

(* A step that leaves the locks and their holders alone keeps the locks exclusive. *)
LEMMA SameHolders ==
    ASSUME LocksAreExclusive, UNCHANGED <<locked, file>>,
           \A m \in Managers, y \in Threads : Holds(m, y)' <=> Holds(m, y)
    PROVE  LocksAreExclusive'
BY DEF LocksAreExclusive

(* The step of LockFile that takes a lock makes x its only holder. *)
LEMMA LockTaken ==
    ASSUME LocksAreExclusive, NEW n \in Managers, NEW x \in Threads,
           file[x] \notin locked[n],
           locked \in [Managers -> SUBSET Files],
           locked' = [locked EXCEPT ![n] = @ \cup {file[x]}], file' = file,
           \A m \in Managers, y \in Threads :
              Holds(m, y)' <=> Holds(m, y) \/ (m = n /\ y = x)
    PROVE  LocksAreExclusive'
<1>1. \A y \in Threads : Holds(n, y) => file[y] # file[x]
  BY DEF LocksAreExclusive
<1>2. \A m \in Managers :
         locked'[m] = {file'[y] : y \in {z \in Threads : Holds(m, z)'}}
  BY DEF LocksAreExclusive
<1>3. \A m \in Managers, y, z \in Threads :
         Holds(m, y)' /\ Holds(m, z)' /\ file'[y] = file'[z] => y = z
  BY <1>1 DEF LocksAreExclusive
<1> QED
  BY <1>2, <1>3 DEF LocksAreExclusive

(* UnlockFile releases the file of x and nobody else's. *)
LEMMA LockReleased ==
    ASSUME LocksAreExclusive, NEW n \in Managers, NEW x \in Threads, Holds(n, x),
           locked \in [Managers -> SUBSET Files],
           locked' = [locked EXCEPT ![n] = @ \ {file[x]}], file' = file,
           \A m \in Managers, y \in Threads :
              Holds(m, y)' <=> Holds(m, y) /\ ~(m = n /\ y = x)
    PROVE  LocksAreExclusive'
<1>1. \A y \in Threads : Holds(n, y) /\ y # x => file[y] # file[x]
  BY DEF LocksAreExclusive
<1>2. \A m \in Managers :
         locked'[m] = {file'[y] : y \in {z \in Threads : Holds(m, z)'}}
  BY <1>1 DEF LocksAreExclusive
<1>3. \A m \in Managers, y, z \in Threads :
         Holds(m, y)' /\ Holds(m, z)' /\ file'[y] = file'[z] => y = z
  BY DEF LocksAreExclusive
<1> QED
  BY <1>2, <1>3 DEF LocksAreExclusive

(* LockFile in the read manager. *)
LEMMA LockReadStep == ASSUME IndInv, NEW x \in Threads, LockRead(x) PROVE IndInv'
<1>1. TypeOK'
  BY DEF IndInv, TypeOK, LockRead, LockFile, Goto, Managers
<1>2. KindInv'
  BY DEF IndInv, TypeOK, KindInv, LockRead, LockFile, Goto
<1>3. CASE IsLocked("read", x)
  <2>1. \A m \in Managers, y \in Threads : Holds(m, y)' <=> Holds(m, y)
    BY <1>3 DEF IndInv, TypeOK, LockRead, LockFile, Holds
  <2>2. LocksAreExclusive'
    BY <1>3, <2>1, SameHolders DEF IndInv, LockRead, LockFile
  <2> QED
    BY <1>1, <1>2, <2>2 DEF IndInv
<1>4. CASE ~IsLocked("read", x)
  <2>1. \A m \in Managers, y \in Threads : Holds(m, y)' <=> Holds(m, y) \/ (m = "read" /\ y = x)
    BY <1>4 DEF IndInv, TypeOK, LockRead, LockFile, Goto, Holds, Managers, Kinds
  <2>2. LocksAreExclusive'
    BY <1>4, <2>1, LockTaken DEF IndInv, TypeOK, LockRead, LockFile, IsLocked, Managers
  <2> QED
    BY <1>1, <1>2, <2>2 DEF IndInv
<1> QED
  BY <1>3, <1>4

(* LockFile in the write manager. *)
LEMMA LockWriteStep == ASSUME IndInv, NEW x \in Threads, LockWrite(x) PROVE IndInv'
<1>1. TypeOK'
  BY DEF IndInv, TypeOK, LockWrite, LockFile, Goto, Managers
<1>2. KindInv'
  BY DEF IndInv, TypeOK, KindInv, LockWrite, LockFile, Goto
<1>3. CASE IsLocked("write", x)
  <2>1. \A m \in Managers, y \in Threads : Holds(m, y)' <=> Holds(m, y)
    BY <1>3 DEF IndInv, TypeOK, LockWrite, LockFile, Holds
  <2>2. LocksAreExclusive'
    BY <1>3, <2>1, SameHolders DEF IndInv, LockWrite, LockFile
  <2> QED
    BY <1>1, <1>2, <2>2 DEF IndInv
<1>4. CASE ~IsLocked("write", x)
  <2>1. \A m \in Managers, y \in Threads : Holds(m, y)' <=> Holds(m, y) \/ (m = "write" /\ y = x)
    BY <1>4 DEF IndInv, TypeOK, KindInv, LockWrite, LockFile, Goto, Holds, Managers, Kinds
  <2>2. LocksAreExclusive'
    BY <1>4, <2>1, LockTaken DEF IndInv, TypeOK, LockWrite, LockFile, IsLocked, Managers
  <2> QED
    BY <1>1, <1>2, <2>2 DEF IndInv
<1> QED
  BY <1>3, <1>4

(* UnlockFile in the write manager. *)
LEMMA UnlockWriteStep == ASSUME IndInv, NEW x \in Threads, UnlockWrite(x) PROVE IndInv'
<1>1. TypeOK'
  BY DEF IndInv, TypeOK, UnlockWrite, UnlockFile, Goto, Managers
<1>2. KindInv'
  BY DEF IndInv, TypeOK, KindInv, UnlockWrite, UnlockFile, Goto
<1>3. \A m \in Managers, y \in Threads : Holds(m, y)' <=> Holds(m, y) /\ ~(m = "write" /\ y = x)
  BY DEF IndInv, TypeOK, KindInv, UnlockWrite, UnlockFile, Goto, Holds, Managers
<1>4. Holds("write", x)
  BY DEF IndInv, KindInv, UnlockWrite, Holds
<1>5. LocksAreExclusive'
  BY <1>3, <1>4, LockReleased DEF IndInv, TypeOK, UnlockWrite, UnlockFile, Managers
<1> QED
  BY <1>1, <1>2, <1>5 DEF IndInv

(* UnlockFile in the read manager. *)
LEMMA UnlockReadStep == ASSUME IndInv, NEW x \in Threads, UnlockRead(x) PROVE IndInv'
<1>1. TypeOK'
  BY DEF IndInv, TypeOK, UnlockRead, UnlockFile, Goto, Managers
<1>2. KindInv'
  BY DEF IndInv, TypeOK, KindInv, UnlockRead, UnlockFile, Goto
<1>3. \A m \in Managers, y \in Threads : Holds(m, y)' <=> Holds(m, y) /\ ~(m = "read" /\ y = x)
  BY DEF IndInv, TypeOK, KindInv, UnlockRead, UnlockFile, Goto, Holds, Managers
<1>4. Holds("read", x)
  BY DEF IndInv, KindInv, UnlockRead, Holds
<1>5. LocksAreExclusive'
  BY <1>3, <1>4, LockReleased DEF IndInv, TypeOK, UnlockRead, UnlockFile, Managers
<1> QED
  BY <1>1, <1>2, <1>5 DEF IndInv

(* The notification of the write manager. *)
LEMMA NotifyWriteStep == ASSUME IndInv, NEW x \in Threads, NotifyWrite(x) PROVE IndInv'
<1>1. TypeOK'
  BY DEF IndInv, TypeOK, NotifyWrite, NotifyUnlocked, NotifyOne, Goto, Managers, Kinds
<1>2. KindInv'
  BY DEF IndInv, TypeOK, KindInv, NotifyWrite, NotifyUnlocked, NotifyOne, Goto
<1>3. \A m \in Managers, y \in Threads : Holds(m, y)' <=> Holds(m, y)
  BY DEF IndInv, TypeOK, KindInv, NotifyWrite, NotifyUnlocked, NotifyOne, Goto, Holds, Managers
<1>4. LocksAreExclusive'
  BY <1>3, SameHolders DEF IndInv, NotifyWrite, NotifyUnlocked
<1> QED
  BY <1>1, <1>2, <1>4 DEF IndInv

(* The notification of the read manager. *)
LEMMA NotifyReadStep == ASSUME IndInv, NEW x \in Threads, NotifyRead(x) PROVE IndInv'
<1>1. TypeOK'
  BY DEF IndInv, TypeOK, NotifyRead, NotifyUnlocked, NotifyOne, Goto, Managers, Kinds
<1>2. KindInv'
  BY DEF IndInv, TypeOK, KindInv, NotifyRead, NotifyUnlocked, NotifyOne, Goto
<1>3. \A m \in Managers, y \in Threads : Holds(m, y)' <=> Holds(m, y)
  BY DEF IndInv, TypeOK, KindInv, NotifyRead, NotifyUnlocked, NotifyOne, Goto, Holds, Managers
<1>4. LocksAreExclusive'
  BY <1>3, SameHolders DEF IndInv, NotifyRead, NotifyUnlocked
<1> QED
  BY <1>1, <1>2, <1>4 DEF IndInv

(* FileHandler::Get, under the read lock. *)
LEMMA GetStep == ASSUME IndInv, NEW x \in Threads, Get(x) PROVE IndInv'
<1>1. TypeOK'
  BY DEF IndInv, TypeOK, Get, Contents, Goto, Managers, Kinds
<1>2. KindInv'
  BY DEF IndInv, TypeOK, KindInv, Get, Goto
<1>3. \A m \in Managers, y \in Threads : Holds(m, y)' <=> Holds(m, y)
  BY DEF IndInv, TypeOK, KindInv, Get, Goto, Holds, Managers
<1>4. LocksAreExclusive'
  BY <1>3, SameHolders DEF IndInv, Get
<1> QED
  BY <1>1, <1>2, <1>4 DEF IndInv

(* FileHandler::Put opens the file, under both locks. *)
LEMMA PutOpenStep == ASSUME IndInv, NEW x \in Threads, PutOpen(x) PROVE IndInv'
<1>1. TypeOK'
  BY DEF IndInv, TypeOK, PutOpen, Goto, Managers, Kinds
<1>2. KindInv'
  BY DEF IndInv, TypeOK, KindInv, PutOpen, Goto
<1>3. \A m \in Managers, y \in Threads : Holds(m, y)' <=> Holds(m, y)
  BY DEF IndInv, TypeOK, KindInv, PutOpen, Goto, Holds, Managers
<1>4. LocksAreExclusive'
  BY <1>3, SameHolders DEF IndInv, PutOpen
<1> QED
  BY <1>1, <1>2, <1>4 DEF IndInv

(* FileHandler::Put writes it. *)
LEMMA PutWriteStep == ASSUME IndInv, NEW x \in Threads, PutWrite(x) PROVE IndInv'
<1>1. TypeOK'
  BY DEF IndInv, TypeOK, PutWrite, Goto, Managers, Kinds
<1>2. KindInv'
  BY DEF IndInv, TypeOK, KindInv, PutWrite, Goto
<1>3. \A m \in Managers, y \in Threads : Holds(m, y)' <=> Holds(m, y)
  BY DEF IndInv, TypeOK, KindInv, PutWrite, Goto, Holds, Managers
<1>4. LocksAreExclusive'
  BY <1>3, SameHolders DEF IndInv, PutWrite
<1> QED
  BY <1>1, <1>2, <1>4 DEF IndInv

(* FileHandler::Delete. *)
LEMMA DeleteStep == ASSUME IndInv, NEW x \in Threads, Delete(x) PROVE IndInv'
<1>1. TypeOK'
  BY DEF IndInv, TypeOK, Delete, Goto, Managers, Kinds
<1>2. KindInv'
  BY DEF IndInv, TypeOK, KindInv, Delete, Goto
<1>3. \A m \in Managers, y \in Threads : Holds(m, y)' <=> Holds(m, y)
  BY DEF IndInv, TypeOK, KindInv, Delete, Goto, Holds, Managers
<1>4. LocksAreExclusive'
  BY <1>3, SameHolders DEF IndInv, Delete
<1> QED
  BY <1>1, <1>2, <1>4 DEF IndInv

(* FileHandler::MakeDir. *)
LEMMA MakeDirStep == ASSUME IndInv, NEW x \in Threads, MakeDir(x) PROVE IndInv'
<1>1. TypeOK'
  BY DEF IndInv, TypeOK, MakeDir, Goto, Managers, Kinds
<1>2. KindInv'
  BY DEF IndInv, TypeOK, KindInv, MakeDir, Goto
<1>3. \A m \in Managers, y \in Threads : Holds(m, y)' <=> Holds(m, y)
  BY DEF IndInv, TypeOK, KindInv, MakeDir, Goto, Holds, Managers
<1>4. LocksAreExclusive'
  BY <1>3, SameHolders DEF IndInv, MakeDir
<1> QED
  BY <1>1, <1>2, <1>4 DEF IndInv

(* A spurious wakeup. *)
LEMMA SpuriousWakeupStep == ASSUME IndInv, SpuriousWakeup PROVE IndInv'
<1>1. TypeOK'
  BY DEF IndInv, TypeOK, SpuriousWakeup, Managers
<1>2. KindInv'
  BY DEF IndInv, KindInv, SpuriousWakeup
<1>3. \A m \in Managers, y \in Threads : Holds(m, y)' <=> Holds(m, y)
  BY DEF SpuriousWakeup, Holds
<1>4. LocksAreExclusive'
  BY <1>3, SameHolders DEF IndInv, SpuriousWakeup
<1> QED
  BY <1>1, <1>2, <1>4 DEF IndInv

(* Every step keeps the invariant. *)
LEMMA NextStep == IndInv /\ [Next]_vars => IndInv'
<1> SUFFICES ASSUME IndInv, [Next]_vars PROVE IndInv'
  OBVIOUS
<1>1. CASE \E x \in Threads, k \in Kinds, f \in Files, v \in Values : Begin(x, k, f, v)
  BY <1>1, BeginStep
<1>2. CASE \E x \in Threads : Step(x)
  BY <1>2, LockReadStep, LockWriteStep, GetStep, PutOpenStep, PutWriteStep, DeleteStep,
     MakeDirStep, UnlockWriteStep, NotifyWriteStep, UnlockReadStep, NotifyReadStep DEF Step
<1>3. CASE SpuriousWakeup
  BY <1>3, SpuriousWakeupStep
<1>4. CASE UNCHANGED vars
  BY <1>4 DEF vars, IndInv, TypeOK, KindInv, LocksAreExclusive, Holds
<1> QED
  BY <1>1, <1>2, <1>3, <1>4 DEF Next

(* Every reachable state of the handlers satisfies the inductive invariant. *)
THEOREM IndInvHolds == Spec => []IndInv
<1> QED
  BY InitStep, NextStep, PTL DEF Spec

(* The threads and the managers always hold values of their types: only      *)
(* known files are locked and only threads of the program sleep.             *)
THEOREM TypeCorrect == Spec => []TypeOK
<1>1. IndInv => TypeOK
  BY DEF IndInv
<1> QED
  BY <1>1, IndInvHolds, PTL

(* No two threads are ever inside operations on the same file, and the       *)
(* managers know exactly which files are in use.                             *)
THEOREM LocksAreExclusiveHolds == Spec => []LocksAreExclusive
<1>1. IndInv => LocksAreExclusive
  BY DEF IndInv
<1> QED
  BY <1>1, IndInvHolds, PTL

(* Nobody ever waits in the write manager: a holder of the write lock holds  *)
(* the read lock of the file too, which the one who asks already has.        *)
THEOREM WriteLockIsFreeHolds == Spec => []WriteLockIsFree
<1>1. ASSUME IndInv PROVE WriteLockIsFree
  <2> SUFFICES ASSUME NEW x \in Threads, pc[x] = "lock_write", file[x] \in locked["write"]
               PROVE  FALSE
    BY DEF WriteLockIsFree
  <2>1. PICK y \in Threads : Holds("write", y) /\ file[y] = file[x]
    BY <1>1 DEF IndInv, LocksAreExclusive, Managers
  <2>2. Holds("read", y) /\ Holds("read", x) /\ y # x
    BY <2>1 DEF Holds
  <2> QED
    BY <1>1, <2>1, <2>2 DEF IndInv, LocksAreExclusive, Managers
<1> QED
  BY <1>1, IndInvHolds, PTL

(* A step after which the same threads sleep, or fewer, and the one that was *)
(* awake is still in its operation.                                          *)
LEMMA StillAwake ==
    ASSUME SleepersHaveAWaker, asleep'["read"] \subseteq asleep["read"],
           \A x \in Threads : pc[x] # "idle" => pc'[x] # "idle"
    PROVE  SleepersHaveAWaker'
BY DEF SleepersHaveAWaker

(* Whoever falls asleep leaves the holder of its file awake, and whoever     *)
(* ends an operation has just woken one of the sleepers (lines 38 and 62).   *)
LEMMA WakerStep == IndInv /\ SleepersHaveAWaker /\ [Next]_vars => SleepersHaveAWaker'
<1> SUFFICES ASSUME IndInv, SleepersHaveAWaker, [Next]_vars PROVE SleepersHaveAWaker'
  OBVIOUS
<1> USE DEF IndInv, TypeOK, Managers, Goto
<1>1. ASSUME NEW x \in Threads, NEW k \in Kinds, NEW f \in Files, NEW v \in Values,
             Begin(x, k, f, v)
      PROVE  SleepersHaveAWaker'
  BY <1>1, StillAwake DEF Begin, FirstLabel
<1>2. ASSUME NEW x \in Threads, LockRead(x) PROVE SleepersHaveAWaker'
  <2>1. CASE IsLocked("read", x)
    <3>1. PICK y \in Threads : Holds("read", y) /\ file[y] = file[x]
      BY <2>1 DEF IsLocked, LocksAreExclusive
    <3>2. y # x /\ pc[y] \notin {"idle", "lock_read"} /\ pc'[y] = pc[y] /\ y \notin asleep'["read"]
      BY <1>2, <2>1, <3>1 DEF Holds, LockRead, LockFile
    <3> QED
      BY <3>2 DEF SleepersHaveAWaker
  <2>2. CASE ~IsLocked("read", x)
    BY <1>2, <2>2, StillAwake DEF LockRead, LockFile
  <2> QED
    BY <2>1, <2>2
<1>3. ASSUME NEW x \in Threads, LockWrite(x) PROVE SleepersHaveAWaker'
  BY <1>3, StillAwake DEF LockWrite, LockFile
<1>4. ASSUME NEW x \in Threads,
             Get(x) \/ PutOpen(x) \/ PutWrite(x) \/ Delete(x) \/ MakeDir(x)
                \/ UnlockWrite(x) \/ UnlockRead(x)
      PROVE  SleepersHaveAWaker'
  BY <1>4, StillAwake DEF Get, PutOpen, PutWrite, Delete, MakeDir, UnlockWrite, UnlockRead, UnlockFile
<1>5. ASSUME NEW x \in Threads, NotifyWrite(x) PROVE SleepersHaveAWaker'
  BY <1>5, StillAwake DEF NotifyWrite, NotifyUnlocked
<1>6. ASSUME NEW x \in Threads, NotifyRead(x) PROVE SleepersHaveAWaker'
  <2>1. CASE asleep["read"] = {}
    BY <1>6, <2>1 DEF NotifyRead, NotifyUnlocked, NotifyOne, SleepersHaveAWaker
  <2>2. CASE asleep["read"] # {}
    <3>1. PICK y \in asleep["read"] : asleep'["read"] = asleep["read"] \ {y}
      BY <1>6, <2>2 DEF NotifyRead, NotifyUnlocked, NotifyOne
    <3>2. y \in Threads /\ pc'[y] = "lock_read" /\ y \notin asleep'["read"]
      BY <1>6, <3>1 DEF NotifyRead, NotifyUnlocked
    <3> QED
      BY <3>2 DEF SleepersHaveAWaker
  <2> QED
    BY <2>1, <2>2
<1>7. CASE SpuriousWakeup
  BY <1>7, StillAwake DEF SpuriousWakeup
<1>8. CASE UNCHANGED vars
  BY <1>8, StillAwake DEF vars
<1> QED
  BY <1>1, <1>2, <1>3, <1>4, <1>5, <1>6, <1>7, <1>8 DEF Next, Step

(* With any number of threads and files, a notification that goes to a       *)
(* waiter for another file is never the last one (lines 38-40 and 62).       *)
THEOREM SleepersHaveAWakerHolds == Spec => []SleepersHaveAWaker
<1>1. Init => SleepersHaveAWaker
  BY DEF Init, SleepersHaveAWaker, Managers
<1> QED
  BY <1>1, WakerStep, IndInvHolds, PTL DEF Spec

-----------------------------------------------------------------------------
(* Refinement of AtomicFiles. *)

(* The writer of a file is the only one, so Settled is its value. *)
LEMMA SettledFact ==
    ASSUME IndInv, NEW x \in Threads, NEW f \in Files, Writing(x, f)
    PROVE  Settled(f) = value[x]
<1> DEFINE w == CHOOSE y \in Threads : Writing(y, f)
<1>1. w \in Threads /\ Writing(w, f)
  OBVIOUS
<1>2. w = x
  BY <1>1 DEF IndInv, KindInv, LocksAreExclusive, Holds, Managers, Writing
<1> QED
  BY <1>1, <1>2 DEF Settled

(* A file that a thread has locked in the read manager and does not write is *)
(* as it seems.                                                              *)
LEMMA LockedFact ==
    ASSUME IndInv, NEW x \in Threads, Holds("read", x), pc[x] # "write"
    PROVE  Settled(file[x]) = content[file[x]]
<1>1. \A y \in Threads : ~Writing(y, file[x])
  BY DEF IndInv, KindInv, LocksAreExclusive, Holds, Managers, Writing
<1> QED
  BY <1>1 DEF Settled

(* A step that neither writes nor changes who writes what is invisible. *)
LEMMA InvisibleFact ==
    ASSUME IndInv, IndInv', NEW f \in Files,
           \A y \in Threads : /\ Writing(y, f)' <=> Writing(y, f)
                              /\ Writing(y, f) => value'[y] = value[y],
           content'[f] = content[f]
    PROVE  Settled(f)' = Settled(f)
<1>1. CASE \E y \in Threads : Writing(y, f)
  <2>1. PICK y \in Threads : Writing(y, f)
    BY <1>1
  <2>2. Settled(f) = value[y]
    BY <2>1, SettledFact
  <2>3. Writing(y, f)'
    BY <2>1
  <2>4. Settled(f)' = value'[y]
    <3> DEFINE w == CHOOSE z \in Threads : pc'[z] = "write" /\ file'[z] = f
    <3>1. w \in Threads /\ pc'[w] = "write" /\ file'[w] = f
      BY <2>3 DEF Writing
    <3>2. w = y
      BY <2>3, <3>1 DEF IndInv, KindInv, LocksAreExclusive, Holds, Managers, Writing
    <3>3. Settled(f)' = value'[w]
      BY <2>3 DEF Settled, Writing
    <3> QED
      BY <3>2, <3>3
  <2> QED
    BY <2>1, <2>2, <2>4
<1>2. CASE ~\E y \in Threads : Writing(y, f)
  BY <1>2 DEF Settled
<1> QED
  BY <1>1, <1>2

(* Taking and releasing locks, waking up and beginning an operation are      *)
(* invisible.                                                                *)
LEMMA StutterStep ==
    ASSUME IndInv, IndInv', UNCHANGED <<content, result>>,
           \A y \in Threads :
              \/ UNCHANGED <<pc[y], file[y], value[y]>>
              \/ pc[y] # "write" /\ pc'[y] # "write"
    PROVE  UNCHANGED Files_!vars
<1>1. \A f \in Files : Settled(f)' = Settled(f)
  BY InvisibleFact DEF Writing
<1> QED
  BY <1>1 DEF Files_!vars

(* Reading under the read lock gives the file as it is. *)
LEMMA GetRefines == ASSUME IndInv, IndInv', NEW x \in Threads, Get(x) PROVE Files_!Next
<1>1. \A f \in Files : Settled(f)' = Settled(f)
  BY InvisibleFact DEF Writing, Get, Goto, IndInv, TypeOK
<1>2. Settled(file[x]) = content[file[x]] /\ file[x] \in Files
  BY LockedFact DEF Get, Holds, IndInv, TypeOK
<1>3. Files_!Get(x, file[x])
  BY <1>1, <1>2 DEF Files_!Get, Files_!Contents, Get, Contents
<1> QED
  BY <1>2, <1>3 DEF Files_!Next

(* Opening the file is where Put() takes effect. *)
LEMMA PutOpenRefines ==
    ASSUME IndInv, IndInv', NEW x \in Threads, PutOpen(x)
    PROVE  Files_!Next \/ UNCHANGED Files_!vars
<1>1. file[x] \in Files /\ value[x] \in Values
  BY DEF IndInv, TypeOK
<1>2. CASE content[file[x]] = Dir
  BY <1>2, StutterStep DEF PutOpen, Goto, IndInv, TypeOK
<1>3. CASE content[file[x]] # Dir
  <2>1. Settled(file[x]) # Dir
    BY <1>3, LockedFact DEF PutOpen, Holds
  <2>2. \A f \in Files : f # file[x] => Settled(f)' = Settled(f)
    BY <1>3, InvisibleFact DEF Writing, PutOpen, Goto, IndInv, TypeOK
  <2>3. Writing(x, file[x])'
    BY <1>3 DEF Writing, PutOpen, Goto, IndInv, TypeOK
  <2>4. Settled(file[x])' = value[x]
    <3> DEFINE w == CHOOSE z \in Threads : pc'[z] = "write" /\ file'[z] = file'[x]
    <3>1. w \in Threads /\ pc'[w] = "write" /\ file'[w] = file'[x]
      BY <2>3 DEF Writing
    <3>2. w = x
      BY <2>3, <3>1 DEF IndInv, KindInv, LocksAreExclusive, Holds, Managers, Writing
    <3>3. Settled(file[x])' = value'[w]
      BY <2>3 DEF Settled, Writing
    <3> QED
      BY <3>2, <3>3 DEF PutOpen
  <2>5. Files_!Put(x, file[x], value[x])
    BY <1>1, <2>1, <2>2, <2>4, <1>3 DEF Files_!Put, PutOpen
  <2> QED
    BY <1>1, <2>5 DEF Files_!Next
<1> QED
  BY <1>2, <1>3

(* The write that follows is invisible. *)
LEMMA PutWriteRefines ==
    ASSUME IndInv, IndInv', NEW x \in Threads, PutWrite(x) PROVE UNCHANGED Files_!vars
<1>1. file[x] \in Files /\ Writing(x, file[x])
  BY DEF IndInv, TypeOK, PutWrite, Writing
<1>2. Settled(file[x]) = value[x]
  BY <1>1, SettledFact
<1>3. \A y \in Threads : ~(pc'[y] = "write" /\ file'[y] = file'[x])
  BY DEF IndInv, TypeOK, KindInv, LocksAreExclusive, Holds, Managers, PutWrite, Goto
<1>4. Settled(file[x])' = content'[file'[x]]
  BY <1>3 DEF Settled, Writing
<1>5. Settled(file[x])' = value[x]
  BY <1>1, <1>4 DEF PutWrite, IndInv, TypeOK
<1>6. \A f \in Files : f # file[x] => Settled(f)' = Settled(f)
  BY InvisibleFact DEF Writing, PutWrite, Goto, IndInv, TypeOK
<1>7. \A f \in Files : Settled(f)' = Settled(f)
  <2> SUFFICES ASSUME NEW f \in Files, f = file[x] PROVE Settled(f)' = Settled(f)
    BY <1>6
  <2>1. Settled(f)' = value[x]
    BY <1>5 DEF PutWrite
  <2> QED
    BY <1>2, <2>1
<1> QED
  BY <1>7 DEF Files_!vars, PutWrite

(* A file that its deleter or maker has locked changes as it seems to, and   *)
(* no other file changes.                                                    *)
LEMMA LockedChange ==
    ASSUME IndInv, IndInv', NEW x \in Threads, UNCHANGED <<file, value>>,
           Holds("read", x), Holds("read", x)', pc[x] # "write", pc'[x] # "write",
           \A y \in Threads : y # x => pc'[y] = pc[y],
           \A f \in Files : f # file[x] => content'[f] = content[f]
    PROVE  \A f \in Files :
              Settled(f)' = IF f = file[x] THEN content'[f] ELSE Settled(f)
<1>1. file[x] \in Files
  BY DEF IndInv, TypeOK
<1>2. \A f \in Files : f # file[x] => Settled(f)' = Settled(f)
  BY InvisibleFact DEF Writing, IndInv, TypeOK
<1>3. \A y \in Threads : ~(pc'[y] = "write" /\ file'[y] = file'[x])
  BY DEF IndInv, KindInv, LocksAreExclusive, Holds, Managers
<1>4. Settled(file[x])' = content'[file'[x]]
  BY <1>3 DEF Settled, Writing
<1>5. \A f \in Files : f = file[x] => Settled(f)' = content'[f]
  BY <1>4
<1> QED
  BY <1>1, <1>2, <1>5

(* Delete() takes effect when the path is removed. *)
LEMMA DeleteRefines == ASSUME IndInv, IndInv', NEW x \in Threads, Delete(x) PROVE Files_!Next
<1>1. Holds("read", x) /\ Holds("read", x)' /\ pc[x] # "write" /\ pc'[x] # "write"
  BY DEF Delete, Goto, Holds, IndInv, TypeOK
<1>2. /\ UNCHANGED <<file, value>>
      /\ \A y \in Threads : y # x => pc'[y] = pc[y]
      /\ \A f \in Files : f # file[x] => content'[f] = content[f]
  BY DEF Delete, Goto, IndInv, TypeOK
<1>3. \A f \in Files : Settled(f)' = IF f = file[x] THEN content'[f] ELSE Settled(f)
  BY <1>1, <1>2, LockedChange
<1>4. file[x] \in Files /\ content'[file[x]] = Absent
  BY DEF Delete, IndInv, TypeOK
<1>5. Files_!Delete(x, file[x])
  BY <1>3, <1>4 DEF Files_!Delete, Delete
<1> QED
  BY <1>4, <1>5 DEF Files_!Next

(* MakeDir() takes effect when the directory is made, or does nothing. *)
LEMMA MakeDirRefines ==
    ASSUME IndInv, IndInv', NEW x \in Threads, MakeDir(x)
    PROVE  Files_!Next \/ UNCHANGED Files_!vars
<1>1. file[x] \in Files /\ Settled(file[x]) = content[file[x]]
  BY LockedFact DEF MakeDir, Holds, IndInv, TypeOK
<1>2. CASE content[file[x]] # Absent
  <2>1. content' = content
    BY <1>1, <1>2 DEF MakeDir, IndInv, TypeOK
  <2> QED
    BY <2>1, StutterStep DEF MakeDir, Goto, IndInv, TypeOK
<1>3. CASE content[file[x]] = Absent
  <2>1. Holds("read", x) /\ Holds("read", x)' /\ pc[x] # "write" /\ pc'[x] # "write"
    BY DEF MakeDir, Goto, Holds, IndInv, TypeOK
  <2>2. /\ UNCHANGED <<file, value>>
        /\ \A y \in Threads : y # x => pc'[y] = pc[y]
        /\ \A f \in Files : f # file[x] => content'[f] = content[f]
    BY DEF MakeDir, Goto, IndInv, TypeOK
  <2>3. \A f \in Files : Settled(f)' = IF f = file[x] THEN content'[f] ELSE Settled(f)
    BY <2>1, <2>2, LockedChange
  <2>4. content'[file[x]] = Dir
    BY <1>1, <1>3 DEF MakeDir, IndInv, TypeOK
  <2>5. Files_!MakeDir(x, file[x])
    BY <1>1, <1>3, <2>3, <2>4 DEF Files_!MakeDir, MakeDir
  <2> QED
    BY <1>1, <2>5 DEF Files_!Next
<1> QED
  BY <1>2, <1>3

(* Every step of the handlers is a step of AtomicFiles or invisible in it. *)
LEMMA RefinementStep ==
    IndInv /\ IndInv' /\ [Next]_vars => [Files_!Next]_(Files_!vars)
<1> SUFFICES ASSUME IndInv, IndInv', [Next]_vars
             PROVE  Files_!Next \/ UNCHANGED Files_!vars
  OBVIOUS
<1>1. CASE \E x \in Threads, k \in Kinds, f \in Files, v \in Values : Begin(x, k, f, v)
  BY <1>1, StutterStep DEF Begin, Goto, FirstLabel, IndInv, TypeOK
<1>2. ASSUME NEW x \in Threads, LockRead(x) \/ LockWrite(x) PROVE UNCHANGED Files_!vars
  BY <1>2, StutterStep DEF LockRead, LockWrite, LockFile, Goto, IndInv, TypeOK
<1>3. ASSUME NEW x \in Threads, UnlockRead(x) \/ UnlockWrite(x) PROVE UNCHANGED Files_!vars
  BY <1>3, StutterStep DEF UnlockRead, UnlockWrite, UnlockFile, Goto, IndInv, TypeOK
<1>4. ASSUME NEW x \in Threads, NotifyRead(x) \/ NotifyWrite(x) PROVE UNCHANGED Files_!vars
  BY <1>4, StutterStep DEF NotifyRead, NotifyWrite, NotifyUnlocked, Goto, IndInv, TypeOK
<1>5. CASE \E x \in Threads : Step(x)
  BY <1>2, <1>3, <1>4, <1>5, GetRefines, PutOpenRefines, PutWriteRefines, DeleteRefines,
     MakeDirRefines DEF Step
<1>6. CASE SpuriousWakeup \/ UNCHANGED vars
  BY <1>6, StutterStep DEF SpuriousWakeup, vars
<1> QED
  BY <1>1, <1>5, <1>6 DEF Next

(* ThreadSafeFileHandler implements atomic files for every number of         *)
(* threads and files: no Get() sees a file between its truncation and the    *)
(* last write, and every Put(), Delete() and MakeDir() takes effect at once. *)
THEOREM AtomicFilesImplemented == Spec => ImplementsAtomicFiles
<1>1. Init => Files_!Init
  BY DEF Init, Files_!Init, Settled, Writing
<1> QED
  BY <1>1, IndInvHolds, RefinementStep, PTL DEF Spec, ImplementsAtomicFiles, Files_!Spec
=============================================================================
