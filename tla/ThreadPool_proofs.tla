-------------------------- MODULE ThreadPool_proofs --------------------------
(***************************************************************************)
(* Proofs about ThreadPool: IndInv is an inductive invariant of Spec for   *)
(* every finite set of tasks, every set of callers and every pool size.    *)
(***************************************************************************)
EXTENDS ThreadPool, TLAPS, FiniteSetTheorems

(* The counters do not wrap as long as they stay below the modulus. *)
LEMMA IncFact == ASSUME NEW n \in Nat, n + 1 < UintModulus PROVE Inc(n) = n + 1
BY SizeAssumption DEF Inc

(* A positive counter is decremented. *)
LEMMA DecFact == ASSUME NEW n \in Nat, 0 < n, n < UintModulus PROVE Dec(n) = n - 1
BY SizeAssumption DEF Dec

(* Inc and Dec stay in the range of uint32_t. *)
LEMMA UintFact == ASSUME NEW n \in Uint PROVE Inc(n) \in Uint /\ Dec(n) \in Uint
<1>1. UintModulus \in Nat /\ UintModulus > 1
  BY SizeAssumption, TasksAssumption, FS_CardinalityType
<1>2. n \in Int /\ n + 1 \in Int /\ n + UintModulus - 1 \in Int
  BY <1>1 DEF Uint
<1> QED
  BY <1>1, <1>2 DEF Inc, Dec, Uint

(* Appending leaves the earlier entries where they are. *)
LEMMA AppendFact ==
    ASSUME NEW S, NEW q \in Seq(S), NEW e \in S
    PROVE  /\ Append(q, e) \in Seq(S)
           /\ Len(Append(q, e)) = Len(q) + 1
           /\ \A i \in 1..Len(q) : Append(q, e)[i] = q[i]
           /\ Append(q, e)[Len(q) + 1] = e
OBVIOUS

(* A counter may hold zero. *)
LEMMA ZeroFact == 0 \in Uint
BY SizeAssumption, TasksAssumption, FS_CardinalityType DEF Uint

(* handle_to_thread_ is a finite set, no larger than the set of tasks. *)
LEMMA ThreadCountFact ==
    ASSUME IndInv
    PROVE  /\ IsFiniteSet(handle_to_thread)
           /\ Cardinality(handle_to_thread) \in Nat
           /\ Cardinality(handle_to_thread) + 1 < UintModulus
<1>1. IsFiniteSet(handle_to_thread) /\ Cardinality(handle_to_thread) <= Cardinality(Tasks)
  BY TasksAssumption, FS_Subset DEF IndInv, TypeOK
<1>2. Cardinality(handle_to_thread) \in Nat /\ Cardinality(Tasks) \in Nat
  BY <1>1, TasksAssumption, FS_CardinalityType
<1> QED
  BY <1>1, <1>2, SizeAssumption

-----------------------------------------------------------------------------
(* IndInv is preserved by every step, one lemma for each action. *)
USE DEF maps, counters, queues, dispatcher, joiner, tasks, calls, life

(* The constructor establishes IndInv. *)
LEMMA InitStep == Init => IndInv
<1> SUFFICES ASSUME Init PROVE IndInv
  OBVIOUS
<1>1. TypeOK
  <2>1. pool_size \in Uint /\ num_completed_tasks \in Uint /\ seen \in [Callers -> Uint]
    BY ZeroFact DEF Init
  <2>2. dispatch_queue \in Seq(Handle) /\ joinable_queue \in Seq(Handle)
    BY DEF Init
  <2> QED
    BY <2>1, <2>2 DEF Init, TypeOK, Handle, Status
<1>2. Cardinality(handle_to_thread) = 0
  BY FS_EmptySet DEF Init
<1>3. PoolAccounting /\ ThreadLimit
  BY <1>2, SizeAssumption
  DEF Init, PoolAccounting, SlotReserved, ThreadLimit, NumThreads
<1>4. PushInv /\ DispatchQueueInv /\ DispatcherInv /\ JoinableQueueInv /\ JoinerInv
  BY DEF Init, PushInv, DispatchQueueInv, DispatcherInv, JoinableQueueInv, JoinerInv
<1>5. ThreadInv /\ StatusInv /\ CloseInv /\ ClosingThreadsAreCancelled
  BY DEF Init, ThreadInv, StatusInv, CloseInv, ClosingThreadsAreCancelled
<1> QED
  BY <1>1, <1>3, <1>4, <1>5 DEF IndInv

(* Reserving a slot raises pool_size_ by one, below the limit unless the pool closes. *)
LEMMA DispatcherReserveStep == ASSUME IndInv, DispatcherReserve PROVE IndInv'
<1>1. TypeOK'
  BY UintFact DEF IndInv, TypeOK, DispatcherReserve
<1>2. PoolAccounting'
  <2>1. CASE NoFreeThread
    BY <2>1 DEF IndInv, PoolAccounting, SlotReserved, DispatcherReserve
  <2>2. CASE ~NoFreeThread
    <3>1. pool_size = Cardinality(handle_to_thread) /\ dpc' = "pop" /\ pool_size' = Inc(pool_size)
      BY <2>2, ThreadCountFact DEF IndInv, PoolAccounting, SlotReserved, DispatcherReserve
    <3>2. Inc(pool_size) = pool_size + 1
      BY <3>1, ThreadCountFact, IncFact, SizeAssumption
    <3> QED
      BY <3>1, <3>2 DEF PoolAccounting, SlotReserved, DispatcherReserve
  <2> QED
    BY <2>1, <2>2
<1>3. ThreadLimit'
  <2>1. CASE NoFreeThread
    BY <2>1 DEF IndInv, ThreadLimit, NumThreads, DispatcherReserve
  <2>2. CASE ~NoFreeThread
    <3>1. pool_size = Cardinality(handle_to_thread) /\ pool_size' = Inc(pool_size)
      BY <2>2, ThreadCountFact DEF IndInv, PoolAccounting, SlotReserved, DispatcherReserve
    <3>2. Inc(pool_size) = pool_size + 1
      BY <3>1, ThreadCountFact, IncFact, SizeAssumption
    <3> QED
      BY <2>2, <3>1, <3>2, ThreadCountFact, SizeAssumption
      DEF IndInv, ThreadLimit, NumThreads, NoFreeThread, DispatcherReserve
  <2> QED
    BY <2>1, <2>2
<1>4. DispatcherInv'
  BY DEF IndInv, DispatcherInv, DispatcherReserve
<1>5. CloseInv'
  BY DEF IndInv, CloseInv, DispatcherReserve
<1>6. PushInv' /\ DispatchQueueInv' /\ JoinableQueueInv' /\ JoinerInv' /\ ThreadInv' /\
   StatusInv' /\ ClosingThreadsAreCancelled'
  BY DEF IndInv, PushInv, DispatchQueueInv, JoinableQueueInv, JoinerInv, ThreadInv,
     StatusInv, ClosingThreadsAreCancelled, Awaiting, Leaving, DispatcherReserve
<1> QED
  BY <1>1, <1>2, <1>3, <1>4, <1>5, <1>6 DEF IndInv

(* A popped handle moves from the queue to the dispatcher. *)
LEMMA DispatcherPopStep == ASSUME IndInv, DispatcherPop PROVE IndInv'
<1>1. TypeOK'
  BY DEF IndInv, TypeOK, DispatcherPop
<1>2. DispatcherInv'
  BY DEF IndInv, DispatcherInv, DispatchQueueInv, Awaiting, DispatcherPop
<1>3. DispatchQueueInv'
  BY DEF IndInv, DispatchQueueInv, Awaiting, DispatcherPop
<1>4. CloseInv' /\ PoolAccounting'
  BY DEF IndInv, CloseInv, PoolAccounting, DispatcherPop, SlotReserved
<1>5. PushInv' /\ JoinableQueueInv' /\ JoinerInv' /\ ThreadInv' /\ StatusInv' /\
   ThreadLimit' /\ ClosingThreadsAreCancelled'
  BY DEF IndInv, PushInv, JoinableQueueInv, JoinerInv, ThreadInv, StatusInv, ThreadLimit,
     ClosingThreadsAreCancelled, Awaiting, Leaving, NumThreads, DispatcherPop
<1> QED
  BY <1>1, <1>2, <1>3, <1>4, <1>5 DEF IndInv

(* The slot reserved earlier becomes the thread of a task that had none. *)
LEMMA DispatcherCreateStep == ASSUME IndInv, DispatcherCreate PROVE IndInv'
<1>1. TypeOK'
  BY DEF IndInv, TypeOK, DispatcherInv, Handle, DispatcherCreate, DispatcherStops
<1>2. PushInv'
  BY TasksAssumption DEF IndInv, PushInv, TypeOK, DispatcherInv, Awaiting, DispatcherCreate
<1>3. DispatchQueueInv'
  BY DEF IndInv, DispatchQueueInv, TypeOK, DispatcherInv, Awaiting, DispatcherCreate
<1>4. JoinableQueueInv'
  BY DEF IndInv, JoinableQueueInv, TypeOK, DispatcherInv, Leaving, Awaiting,
     DispatcherCreate
<1>5. JoinerInv'
  BY DEF IndInv, JoinerInv, TypeOK, DispatcherInv, Leaving, Awaiting, DispatcherCreate
<1>6. ThreadInv'
  BY TasksAssumption DEF IndInv, ThreadInv, TypeOK, DispatcherInv, Awaiting,
     DispatcherCreate
<1>7. StatusInv'
  BY TasksAssumption DEF IndInv, StatusInv, TypeOK, DispatcherInv, Awaiting,
     DispatcherCreate
<1>8. PoolAccounting'
  <2>1. CASE should_close
    BY <2>1 DEF IndInv, PoolAccounting, SlotReserved, DispatcherCreate, DispatcherStops
  <2>2. CASE ~should_close
    <3>1. dh \notin handle_to_thread
      BY <2>2 DEF IndInv, DispatcherInv, Awaiting, DispatcherCreate
    <3>2. Cardinality(handle_to_thread \cup {dh}) = Cardinality(handle_to_thread) + 1
      BY <3>1, ThreadCountFact, FS_AddElement
    <3> QED
      BY <2>2, <3>2, ThreadCountFact
      DEF IndInv, PoolAccounting, SlotReserved, DispatcherCreate, DispatcherStops
  <2> QED
    BY <2>1, <2>2
<1>9. ThreadLimit'
  <2>1. CASE should_close
    BY <2>1 DEF IndInv, ThreadLimit, NumThreads, DispatcherCreate, DispatcherStops
  <2>2. CASE ~should_close
    <3>1. dh \notin handle_to_thread
      BY <2>2 DEF IndInv, DispatcherInv, Awaiting, DispatcherCreate
    <3>2. Cardinality(handle_to_thread \cup {dh}) = Cardinality(handle_to_thread) + 1
      BY <3>1, ThreadCountFact, FS_AddElement
    <3>3. pool_size = Cardinality(handle_to_thread) + 1
      BY DEF IndInv, PoolAccounting, SlotReserved, DispatcherCreate
    <3> QED
      BY <2>2, <3>2, <3>3, ThreadCountFact
      DEF IndInv, ThreadLimit, NumThreads, DispatcherCreate, DispatcherStops
  <2> QED
    BY <2>1, <2>2
<1>10. DispatcherInv'
  BY DEF IndInv, DispatcherInv, DispatcherCreate
<1>11. CloseInv' /\ ClosingThreadsAreCancelled'
  BY DEF IndInv, CloseInv, ClosingThreadsAreCancelled, DispatcherCreate, DispatcherStops
<1> QED
  BY <1>1, <1>2, <1>3, <1>4, <1>5, <1>6, <1>7, <1>8, <1>9, <1>10, <1>11 DEF IndInv

(* A popped handle moves from the queue to the joiner. *)
LEMMA JoinerPopStep == ASSUME IndInv, JoinerPop PROVE IndInv'
<1>1. TypeOK'
  BY DEF IndInv, TypeOK, JoinerPop
<1>2. JoinerInv'
  BY DEF IndInv, JoinerInv, JoinableQueueInv, Leaving, JoinerPop
<1>3. JoinableQueueInv'
  BY DEF IndInv, JoinableQueueInv, Leaving, JoinerPop
<1>4. CloseInv'
  BY DEF IndInv, CloseInv, JoinerPop
<1>5. PushInv' /\ DispatchQueueInv' /\ DispatcherInv' /\ ThreadInv' /\ StatusInv' /\
   PoolAccounting' /\ ThreadLimit' /\ ClosingThreadsAreCancelled'
  BY DEF IndInv, PushInv, DispatchQueueInv, DispatcherInv, ThreadInv, StatusInv,
     PoolAccounting, ThreadLimit, ClosingThreadsAreCancelled, Awaiting, SlotReserved,
     NumThreads, JoinerPop
<1> QED
  BY <1>1, <1>2, <1>3, <1>4, <1>5 DEF IndInv

(* The joiner goes on only if the pool is open, so its handle is a task's. *)
LEMMA JoinerLockStep == ASSUME IndInv, JoinerLock PROVE IndInv'
<1>1. TypeOK'
  BY DEF IndInv, TypeOK, JoinerLock
<1>2. JoinerInv'
  BY DEF IndInv, JoinerInv, Leaving, JoinerLock, JoinerStops
<1>3. CloseInv'
  BY DEF IndInv, CloseInv, JoinerLock
<1>4. PushInv' /\ DispatchQueueInv' /\ DispatcherInv' /\ JoinableQueueInv' /\ ThreadInv' /\
   StatusInv' /\ PoolAccounting' /\ ThreadLimit' /\ ClosingThreadsAreCancelled'
  BY DEF IndInv, PushInv, DispatchQueueInv, DispatcherInv, JoinableQueueInv, ThreadInv,
     StatusInv, PoolAccounting, ThreadLimit, ClosingThreadsAreCancelled, Awaiting, Leaving,
     SlotReserved, NumThreads, JoinerLock
<1> QED
  BY <1>1, <1>2, <1>3, <1>4 DEF IndInv

(* Joining removes a thread and its slot together. *)
LEMMA JoinerJoinStep == ASSUME IndInv, JoinerJoin PROVE IndInv'
<1>1. TypeOK'
  BY UintFact DEF IndInv, TypeOK, Handle, JoinerJoin, ReleaseSlot
<1>2. JoinableQueueInv'
  BY DEF IndInv, JoinableQueueInv, JoinerInv, Leaving, JoinerJoin
<1>3. PoolAccounting'
  <2>1. jh \in handle_to_thread
    BY TasksAssumption DEF IndInv, JoinerInv, Leaving, JoinerJoin
  <2>2. Cardinality(handle_to_thread \ {jh}) = Cardinality(handle_to_thread) - 1
    BY <2>1, ThreadCountFact, FS_RemoveElement
  <2>3. Cardinality(handle_to_thread) > 0
    BY <2>1, <2>2, ThreadCountFact, FS_RemoveElement, FS_CardinalityType
  <2>4. pool_size > 0 /\ pool_size < UintModulus /\ pool_size \in Nat
    BY <2>3, ThreadCountFact, SizeAssumption DEF IndInv, TypeOK, Uint, PoolAccounting, SlotReserved
  <2>5. pool_size' = pool_size - 1
    BY <2>4, DecFact DEF JoinerJoin, ReleaseSlot
  <2> QED
    BY <2>2, <2>4, <2>5, ThreadCountFact, SizeAssumption
    DEF IndInv, PoolAccounting, SlotReserved, JoinerJoin
<1>4. ThreadLimit'
  <2>1. jh \in handle_to_thread
    BY TasksAssumption DEF IndInv, JoinerInv, Leaving, JoinerJoin
  <2>2. Cardinality(handle_to_thread \ {jh}) = Cardinality(handle_to_thread) - 1
    BY <2>1, ThreadCountFact, FS_RemoveElement
  <2>3. Cardinality(handle_to_thread) > 0
    BY <2>1, <2>2, ThreadCountFact, FS_RemoveElement, FS_CardinalityType
  <2>4. pool_size > 0 /\ pool_size < UintModulus /\ pool_size \in Nat
    BY <2>3, ThreadCountFact, SizeAssumption DEF IndInv, TypeOK, Uint, PoolAccounting, SlotReserved
  <2>5. pool_size' = pool_size - 1
    BY <2>4, DecFact DEF JoinerJoin, ReleaseSlot
  <2> QED
    BY <2>2, <2>4, <2>5, ThreadCountFact, SizeAssumption
    DEF IndInv, ThreadLimit, NumThreads, JoinerJoin
<1>5. PushInv' /\ DispatchQueueInv' /\ DispatcherInv'
  BY DEF IndInv, PushInv, DispatchQueueInv, DispatcherInv, Awaiting, JoinerJoin,
     ThreadHasEnded
<1>6. JoinerInv'
  BY DEF IndInv, JoinerInv, JoinerJoin
<1>7. ThreadInv' /\ StatusInv' /\ CloseInv' /\ ClosingThreadsAreCancelled'
  BY DEF IndInv, ThreadInv, StatusInv, CloseInv, ClosingThreadsAreCancelled, JoinerJoin,
     ThreadHasEnded
<1> QED
  BY <1>1, <1>2, <1>3, <1>4, <1>5, <1>6, <1>7 DEF IndInv

(* Waking the dispatcher does not give it a slot. *)
LEMMA JoinerNotifyStep == ASSUME IndInv, JoinerNotify PROVE IndInv'
<1>1. TypeOK'
  BY DEF IndInv, TypeOK, JoinerNotify, NotifyThreadAvailable
<1>2. DispatcherInv'
  BY DEF IndInv, DispatcherInv, Awaiting, JoinerNotify, NotifyThreadAvailable
<1>3. JoinerInv'
  BY DEF IndInv, JoinerInv, JoinerNotify
<1>4. CloseInv' /\ PoolAccounting'
  BY DEF IndInv, CloseInv, PoolAccounting, JoinerNotify, NotifyThreadAvailable, SlotReserved
<1>5. PushInv' /\ DispatchQueueInv' /\ JoinableQueueInv' /\ ThreadInv' /\ StatusInv' /\
   ThreadLimit' /\ ClosingThreadsAreCancelled'
  BY DEF IndInv, PushInv, DispatchQueueInv, JoinableQueueInv, ThreadInv, StatusInv,
     ThreadLimit, ClosingThreadsAreCancelled, Awaiting, Leaving, NumThreads, JoinerNotify
<1> QED
  BY <1>1, <1>2, <1>3, <1>4, <1>5 DEF IndInv

(* RunTask: a task returns a status. *)
LEMMA TaskReturnsStep == ASSUME NEW t \in Tasks, IndInv, TaskReturns(t) PROVE IndInv'
<1>1. TypeOK'
  BY DEF IndInv, TypeOK, Status, TaskReturns, TaskResult
<1>2. PushInv' /\ DispatchQueueInv' /\ DispatcherInv'
  BY DEF IndInv, PushInv, DispatchQueueInv, DispatcherInv, Awaiting, TaskReturns
<1>3. JoinableQueueInv' /\ JoinerInv'
  BY DEF IndInv, JoinableQueueInv, JoinerInv, Leaving, TaskReturns
<1>4. ThreadInv' /\ StatusInv' /\ CloseInv'
  BY DEF IndInv, ThreadInv, StatusInv, CloseInv, TaskReturns
<1>5. PoolAccounting' /\ ThreadLimit' /\ ClosingThreadsAreCancelled'
  BY DEF IndInv, PoolAccounting, ThreadLimit, ClosingThreadsAreCancelled, SlotReserved,
     NumThreads, TaskReturns
<1> QED
  BY <1>1, <1>2, <1>3, <1>4, <1>5 DEF IndInv

(* RunTask: the status is recorded. *)
LEMMA UpdateTaskStatusStep == ASSUME NEW t \in Tasks, IndInv, UpdateTaskStatus(t) PROVE IndInv'
<1>1. TypeOK'
  BY DEF IndInv, TypeOK, Status, UpdateTaskStatus, UpdatedStatus
<1>2. StatusInv'
  BY DEF IndInv, StatusInv, TypeOK, UpdateTaskStatus
<1>3. PushInv' /\ DispatchQueueInv' /\ DispatcherInv'
  BY DEF IndInv, PushInv, DispatchQueueInv, DispatcherInv, Awaiting, UpdateTaskStatus
<1>4. JoinableQueueInv' /\ JoinerInv'
  BY DEF IndInv, JoinableQueueInv, JoinerInv, Leaving, UpdateTaskStatus
<1>5. ThreadInv' /\ CloseInv'
  BY DEF IndInv, ThreadInv, CloseInv, UpdateTaskStatus
<1>6. PoolAccounting' /\ ThreadLimit' /\ ClosingThreadsAreCancelled'
  BY DEF IndInv, PoolAccounting, ThreadLimit, ClosingThreadsAreCancelled, SlotReserved,
     NumThreads, UpdateTaskStatus
<1> QED
  BY <1>1, <1>2, <1>3, <1>4, <1>5, <1>6 DEF IndInv

(* RunTask: clean-up. *)
LEMMA CleanUpStep == ASSUME NEW t \in Tasks, IndInv, CleanUp(t) PROVE IndInv'
<1>1. TypeOK'
  BY DEF IndInv, TypeOK, CleanUp, Advance, FinishOrder
<1>2. PushInv' /\ DispatchQueueInv' /\ DispatcherInv'
  BY DEF IndInv, PushInv, DispatchQueueInv, DispatcherInv, Awaiting, CleanUp, Advance
<1>3. JoinableQueueInv' /\ JoinerInv'
  BY DEF IndInv, JoinableQueueInv, JoinerInv, Leaving, CleanUp, Advance
<1>4. ThreadInv' /\ StatusInv' /\ CloseInv'
  BY DEF IndInv, ThreadInv, StatusInv, CloseInv, CleanUp, Advance, FinishOrder
<1>5. PoolAccounting' /\ ThreadLimit' /\ ClosingThreadsAreCancelled'
  BY DEF IndInv, PoolAccounting, ThreadLimit, ClosingThreadsAreCancelled, SlotReserved,
     NumThreads, CleanUp
<1> QED
  BY <1>1, <1>2, <1>3, <1>4, <1>5 DEF IndInv

(* RunTask: the completion is counted. *)
LEMMA CountCompletedStep == ASSUME NEW t \in Tasks, IndInv, CountCompleted(t) PROVE IndInv'
<1>1. TypeOK'
  BY UintFact DEF IndInv, TypeOK, CountCompleted, Advance, FinishOrder
<1>2. PushInv' /\ DispatchQueueInv' /\ DispatcherInv'
  BY DEF IndInv, PushInv, DispatchQueueInv, DispatcherInv, Awaiting, CountCompleted, Advance
<1>3. JoinableQueueInv' /\ JoinerInv'
  BY DEF IndInv, JoinableQueueInv, JoinerInv, Leaving, CountCompleted, Advance
<1>4. ThreadInv' /\ StatusInv' /\ CloseInv'
  BY DEF IndInv, ThreadInv, StatusInv, CloseInv, CountCompleted, Advance, FinishOrder
<1>5. PoolAccounting' /\ ThreadLimit' /\ ClosingThreadsAreCancelled'
  BY DEF IndInv, PoolAccounting, ThreadLimit, ClosingThreadsAreCancelled, SlotReserved,
     NumThreads, CountCompleted
<1> QED
  BY <1>1, <1>2, <1>3, <1>4, <1>5 DEF IndInv

(* RunTask: the handle enters joinable_queue_; nobody else has it. *)
LEMMA PushJoinableStep == ASSUME NEW t \in Tasks, IndInv, PushJoinable(t) PROVE IndInv'
<1>1. TypeOK'
  BY DEF IndInv, TypeOK, Handle, PushJoinable, Advance, FinishOrder
<1>2. JoinableQueueInv'
  BY AppendFact, TasksAssumption DEF IndInv, JoinableQueueInv, TypeOK, ThreadInv, Leaving,
     Handle, PushJoinable, Advance, FinishOrder
<1>3. JoinerInv'
  BY AppendFact, TasksAssumption DEF IndInv, JoinerInv, TypeOK, Leaving, Handle,
     PushJoinable, Advance, FinishOrder
<1>4. PushInv' /\ DispatchQueueInv' /\ DispatcherInv'
  BY DEF IndInv, PushInv, DispatchQueueInv, DispatcherInv, Awaiting, PushJoinable, Advance
<1>5. ThreadInv' /\ StatusInv' /\ CloseInv'
  BY DEF IndInv, ThreadInv, StatusInv, CloseInv, PushJoinable, Advance, FinishOrder
<1>6. PoolAccounting' /\ ThreadLimit' /\ ClosingThreadsAreCancelled'
  BY DEF IndInv, PoolAccounting, ThreadLimit, ClosingThreadsAreCancelled, SlotReserved,
     NumThreads, PushJoinable
<1> QED
  BY <1>1, <1>2, <1>3, <1>4, <1>5, <1>6 DEF IndInv

(* RunTask: the last notification. *)
LEMMA NotifyDoneStep == ASSUME NEW t \in Tasks, IndInv, NotifyDone(t) PROVE IndInv'
<1>1. TypeOK'
  BY DEF IndInv, TypeOK, NotifyDone, Advance, FinishOrder, NotifyTaskDone
<1>2. PushInv' /\ DispatchQueueInv' /\ DispatcherInv'
  BY DEF IndInv, PushInv, DispatchQueueInv, DispatcherInv, Awaiting, NotifyDone, Advance
<1>3. JoinableQueueInv' /\ JoinerInv'
  BY DEF IndInv, JoinableQueueInv, JoinerInv, Leaving, NotifyDone, Advance, FinishOrder
<1>4. ThreadInv' /\ StatusInv' /\ CloseInv'
  BY DEF IndInv, ThreadInv, StatusInv, CloseInv, NotifyDone, Advance, FinishOrder
<1>5. PoolAccounting' /\ ThreadLimit' /\ ClosingThreadsAreCancelled'
  BY DEF IndInv, PoolAccounting, ThreadLimit, ClosingThreadsAreCancelled, SlotReserved,
     NumThreads, NotifyDone
<1> QED
  BY <1>1, <1>2, <1>3, <1>4, <1>5 DEF IndInv

(* AddTask: the handle moves from the caller to the queue. *)
LEMMA AddTaskPushStep == ASSUME NEW x \in Threads, IndInv, AddTaskPush(x) PROVE IndInv'
<1>1. TypeOK'
  BY DEF IndInv, TypeOK, Handle, AddTaskPush
<1>2. PushInv'
  BY DEF IndInv, PushInv, TypeOK, Awaiting, AddTaskPush
<1>3. DispatchQueueInv'
  BY TasksAssumption DEF IndInv, DispatchQueueInv, TypeOK, PushInv, Awaiting, AddTaskPush
<1>4. DispatcherInv'
  BY DEF IndInv, DispatcherInv, Awaiting, AddTaskPush
<1>5. JoinableQueueInv' /\ JoinerInv' /\ ThreadInv' /\ StatusInv' /\ CloseInv' /\
   PoolAccounting' /\ ThreadLimit' /\ ClosingThreadsAreCancelled'
  BY DEF IndInv, JoinableQueueInv, JoinerInv, ThreadInv, StatusInv, CloseInv,
     PoolAccounting, ThreadLimit, ClosingThreadsAreCancelled, Leaving, SlotReserved,
     NumThreads, AddTaskPush
<1> QED
  BY <1>1, <1>2, <1>3, <1>4, <1>5 DEF IndInv

(* AddTask: the bookkeeping for a task that is nowhere else. *)
LEMMA AddTaskStep == ASSUME NEW x \in Threads, NEW t \in Tasks, IndInv, AddTask(x, t) PROVE IndInv'
<1>1. TypeOK'
  BY DEF IndInv, TypeOK, Handle, Status, AddTask
<1>2. PushInv'
  BY DEF IndInv, PushInv, TypeOK, ThreadInv, Awaiting, AddTask, IsNew
<1>3. DispatchQueueInv'
  BY DEF IndInv, DispatchQueueInv, TypeOK, Awaiting, AddTask, IsNew
<1>4. DispatcherInv'
  BY DEF IndInv, DispatcherInv, TypeOK, Awaiting, AddTask, IsNew
<1>5. StatusInv'
  BY DEF IndInv, StatusInv, TypeOK, AddTask
<1>6. ThreadInv'
  BY DEF IndInv, ThreadInv, AddTask
<1>7. JoinableQueueInv' /\ JoinerInv' /\ CloseInv' /\ PoolAccounting' /\ ThreadLimit' /\
   ClosingThreadsAreCancelled'
  BY DEF IndInv, JoinableQueueInv, JoinerInv, CloseInv, PoolAccounting, ThreadLimit,
     ClosingThreadsAreCancelled, Leaving, SlotReserved, NumThreads, AddTask
<1> QED
  BY <1>1, <1>2, <1>3, <1>4, <1>5, <1>6, <1>7 DEF IndInv

(* CancelTask. *)
LEMMA CancelTaskStep == ASSUME NEW x \in Threads, NEW t \in Tasks, IndInv, CancelTask(x, t) PROVE IndInv'
<1>1. TypeOK'
  BY DEF IndInv, TypeOK, CancelTask
<1>2. ClosingThreadsAreCancelled'
  BY DEF IndInv, ClosingThreadsAreCancelled, CancelTask
<1>3. PushInv' /\ DispatchQueueInv' /\ DispatcherInv' /\ JoinableQueueInv' /\ JoinerInv' /\
   ThreadInv' /\ StatusInv' /\ CloseInv' /\ PoolAccounting' /\ ThreadLimit'
  BY DEF IndInv, PushInv, DispatchQueueInv, DispatcherInv, JoinableQueueInv, JoinerInv,
     ThreadInv, StatusInv, CloseInv, PoolAccounting, ThreadLimit, Awaiting, Leaving,
     SlotReserved, NumThreads, CancelTask
<1> QED
  BY <1>1, <1>2, <1>3 DEF IndInv

(* WaitForCompletion(). *)
LEMMA WaitForAnyStep == ASSUME NEW c \in Callers, IndInv, WaitForAny(c) PROVE IndInv'
<1>1. TypeOK'
  BY DEF IndInv, TypeOK, Threads, WaitForAny
<1>2. PushInv' /\ DispatchQueueInv' /\ DispatcherInv'
  BY DEF IndInv, PushInv, DispatchQueueInv, DispatcherInv, Awaiting, WaitForAny
<1>3. JoinableQueueInv' /\ JoinerInv' /\ ThreadInv' /\ StatusInv' /\ CloseInv' /\
   PoolAccounting' /\ ThreadLimit' /\ ClosingThreadsAreCancelled'
  BY DEF IndInv, JoinableQueueInv, JoinerInv, ThreadInv, StatusInv, CloseInv,
     PoolAccounting, ThreadLimit, ClosingThreadsAreCancelled, Leaving, SlotReserved,
     NumThreads, WaitForAny
<1> QED
  BY <1>1, <1>2, <1>3 DEF IndInv

(* WaitForCompletion(task). *)
LEMMA WaitForTaskStep == ASSUME NEW c \in Callers, NEW t \in Tasks, IndInv, WaitForTask(c, t) PROVE IndInv'
<1>1. TypeOK'
  BY DEF IndInv, TypeOK, Handle, Threads, Status, WaitForTask
<1>2. PushInv' /\ DispatchQueueInv' /\ DispatcherInv'
  BY DEF IndInv, PushInv, DispatchQueueInv, DispatcherInv, Awaiting, WaitForTask, MayCall
<1>3. StatusInv'
  BY DEF IndInv, StatusInv, WaitForTask
<1>4. JoinableQueueInv' /\ JoinerInv' /\ ThreadInv' /\ CloseInv' /\ PoolAccounting' /\
   ThreadLimit' /\ ClosingThreadsAreCancelled'
  BY DEF IndInv, JoinableQueueInv, JoinerInv, ThreadInv, CloseInv, PoolAccounting,
     ThreadLimit, ClosingThreadsAreCancelled, Leaving, SlotReserved, NumThreads, WaitForTask
<1> QED
  BY <1>1, <1>2, <1>3, <1>4 DEF IndInv

(* A waiter looks again; it holds no handle of the dispatcher's. *)
LEMMA WaiterRechecksStep == ASSUME NEW c \in Callers, IndInv, WaiterRechecks(c) PROVE IndInv'
<1>1. \A x \in Threads : op'[x] = "push" => op[x] = "push" /\ arg'[x] = arg[x]
  BY DEF IndInv, TypeOK, Threads, WaiterRechecks
<1>2. UNCHANGED <<handle_to_task, handle_to_thread, should_close, dispatch_queue, dpc, dh,
   tpc>>
  BY DEF WaiterRechecks
<1>3. PushInv' /\ DispatchQueueInv' /\ DispatcherInv'
  BY <1>1, <1>2 DEF IndInv, PushInv, DispatchQueueInv, DispatcherInv, Awaiting
<1>4. seen' \in [Callers -> Uint]
  BY ZeroFact DEF IndInv, TypeOK, WaiterRechecks
<1>5. op' \in [Threads -> {"idle", "push", "wait_any", "wait_task"}] /\ arg' \in [Threads ->
   Handle] /\ asleep' \subseteq Callers
  BY DEF IndInv, TypeOK, Handle, WaiterRechecks
<1>6. TypeOK'
  BY <1>4, <1>5 DEF IndInv, TypeOK, WaiterRechecks
<1>7. JoinableQueueInv' /\ JoinerInv' /\ ThreadInv' /\ StatusInv' /\ CloseInv' /\
   PoolAccounting' /\ ThreadLimit' /\ ClosingThreadsAreCancelled'
  BY DEF IndInv, JoinableQueueInv, JoinerInv, ThreadInv, StatusInv, CloseInv,
     PoolAccounting, ThreadLimit, ClosingThreadsAreCancelled, Leaving, SlotReserved,
     NumThreads, WaiterRechecks
<1> QED
  BY <1>3, <1>4, <1>5, <1>6, <1>7 DEF IndInv

(* A spurious wakeup. *)
LEMMA SpuriousWakeupStep == ASSUME IndInv, SpuriousWakeup PROVE IndInv'
<1>1. TypeOK'
  BY DEF IndInv, TypeOK, SpuriousWakeup
<1>2. DispatcherInv'
  BY DEF IndInv, DispatcherInv, Awaiting, SpuriousWakeup
<1>3. CloseInv' /\ PoolAccounting'
  BY DEF IndInv, CloseInv, PoolAccounting, SpuriousWakeup, SlotReserved
<1>4. PushInv' /\ DispatchQueueInv' /\ JoinableQueueInv' /\ JoinerInv' /\ ThreadInv' /\
   StatusInv' /\ ThreadLimit' /\ ClosingThreadsAreCancelled'
  BY DEF IndInv, PushInv, DispatchQueueInv, JoinableQueueInv, JoinerInv, ThreadInv,
     StatusInv, ThreadLimit, ClosingThreadsAreCancelled, Awaiting, Leaving, NumThreads,
     SpuriousWakeup
<1> QED
  BY <1>1, <1>2, <1>3, <1>4 DEF IndInv

(* The destructor cancels every task, so every thread. *)
LEMMA CloseStep == ASSUME IndInv, Close PROVE IndInv'
<1>1. TypeOK'
  BY DEF IndInv, TypeOK, Close, CancelAll
<1>2. ClosingThreadsAreCancelled'
  BY DEF IndInv, ClosingThreadsAreCancelled, TypeOK, ThreadInv, Close, CancelAll
<1>3. DispatchQueueInv' /\ DispatcherInv'
  BY DEF IndInv, DispatchQueueInv, DispatcherInv, Awaiting, Close
<1>4. JoinableQueueInv' /\ JoinerInv'
  BY DEF IndInv, JoinableQueueInv, JoinerInv, Leaving, Close, MutexFree
<1>5. CloseInv' /\ ThreadLimit'
  BY DEF IndInv, CloseInv, ThreadLimit, Close
<1>6. PushInv' /\ ThreadInv' /\ StatusInv' /\ PoolAccounting'
  BY DEF IndInv, PushInv, ThreadInv, StatusInv, PoolAccounting, Awaiting, SlotReserved,
     Close
<1> QED
  BY <1>1, <1>2, <1>3, <1>4, <1>5, <1>6 DEF IndInv

(* The dummy handle enters a queue only after should_close_ is set. *)
LEMMA CloseWakeDispatcherStep == ASSUME IndInv, CloseWakeDispatcher PROVE IndInv'
<1>1. TypeOK'
  BY DEF IndInv, TypeOK, Handle, CloseWakeDispatcher
<1>2. DispatchQueueInv'
  BY DEF IndInv, DispatchQueueInv, CloseInv, Awaiting, CloseWakeDispatcher
<1>3. DispatcherInv'
  BY DEF IndInv, DispatcherInv, Awaiting, CloseWakeDispatcher
<1>4. CloseInv'
  BY DEF IndInv, CloseInv, CloseWakeDispatcher
<1>5. PushInv' /\ JoinableQueueInv' /\ JoinerInv' /\ ThreadInv' /\ StatusInv' /\
   PoolAccounting' /\ ThreadLimit' /\ ClosingThreadsAreCancelled'
  BY DEF IndInv, PushInv, JoinableQueueInv, JoinerInv, ThreadInv, StatusInv, PoolAccounting,
     ThreadLimit, ClosingThreadsAreCancelled, Awaiting, Leaving, SlotReserved, NumThreads,
     CloseWakeDispatcher
<1> QED
  BY <1>1, <1>2, <1>3, <1>4, <1>5 DEF IndInv

(* The same for the joiner's queue. *)
LEMMA CloseWakeJoinerStep == ASSUME IndInv, CloseWakeJoiner PROVE IndInv'
<1>1. TypeOK'
  BY DEF IndInv, TypeOK, Handle, CloseWakeJoiner
<1>2. JoinableQueueInv'
  BY DEF IndInv, JoinableQueueInv, CloseInv, Leaving, CloseWakeJoiner
<1>3. JoinerInv'
  BY DEF IndInv, JoinerInv, Leaving, CloseWakeJoiner
<1>4. CloseInv'
  BY DEF IndInv, CloseInv, CloseWakeJoiner
<1>5. PushInv' /\ DispatchQueueInv' /\ DispatcherInv' /\ ThreadInv' /\ StatusInv' /\
   PoolAccounting' /\ ThreadLimit' /\ ClosingThreadsAreCancelled'
  BY DEF IndInv, PushInv, DispatchQueueInv, DispatcherInv, ThreadInv, StatusInv,
     PoolAccounting, ThreadLimit, ClosingThreadsAreCancelled, Awaiting, SlotReserved,
     NumThreads, CloseWakeJoiner
<1> QED
  BY <1>1, <1>2, <1>3, <1>4, <1>5 DEF IndInv

(* The destructor's notifications. *)
LEMMA CloseNotifyStep == ASSUME IndInv, CloseNotify PROVE IndInv'
<1>1. TypeOK'
  BY DEF IndInv, TypeOK, CloseNotify, NotifyTaskDone, NotifyThreadAvailable
<1>2. DispatcherInv'
  BY DEF IndInv, DispatcherInv, Awaiting, CloseNotify, NotifyThreadAvailable
<1>3. CloseInv' /\ PoolAccounting'
  BY DEF IndInv, CloseInv, PoolAccounting, CloseNotify, SlotReserved, NotifyThreadAvailable
<1>4. PushInv' /\ DispatchQueueInv' /\ JoinableQueueInv' /\ JoinerInv' /\ ThreadInv' /\
   StatusInv' /\ ThreadLimit' /\ ClosingThreadsAreCancelled'
  BY DEF IndInv, PushInv, DispatchQueueInv, JoinableQueueInv, JoinerInv, ThreadInv,
     StatusInv, ThreadLimit, ClosingThreadsAreCancelled, Awaiting, Leaving, NumThreads,
     CloseNotify
<1> QED
  BY <1>1, <1>2, <1>3, <1>4 DEF IndInv

(* The destructor joins. *)
LEMMA CloseJoinStep == ASSUME IndInv, CloseJoin PROVE IndInv'
<1>1. TypeOK'
  BY DEF IndInv, TypeOK, CloseJoin
<1>2. CloseInv'
  BY DEF IndInv, CloseInv, CloseJoin, DispatcherHasEnded
<1>3. PushInv' /\ DispatchQueueInv' /\ DispatcherInv' /\ JoinableQueueInv' /\ JoinerInv' /\
   ThreadInv' /\ StatusInv' /\ PoolAccounting' /\ ThreadLimit' /\
   ClosingThreadsAreCancelled'
  BY DEF IndInv, PushInv, DispatchQueueInv, DispatcherInv, JoinableQueueInv, JoinerInv,
     ThreadInv, StatusInv, PoolAccounting, ThreadLimit, ClosingThreadsAreCancelled,
     Awaiting, Leaving, SlotReserved, NumThreads, CloseJoin
<1> QED
  BY <1>1, <1>2, <1>3 DEF IndInv

-----------------------------------------------------------------------------
(* The inductive invariant.  Its conjuncts lean on each other: the slot of   *)
(* the dispatcher turns into a new thread (PoolAccounting) because the       *)
(* handle it popped has no thread (DispatcherInv), which holds because that  *)
(* handle was in one place of the queue only (DispatchQueueInv) ...          *)
LEMMA NextStep == IndInv /\ [Next]_vars => IndInv'
<1> SUFFICES ASSUME IndInv, [Next]_vars PROVE IndInv'
  OBVIOUS
<1>1. CASE DispatcherThread
  BY <1>1, DispatcherReserveStep, DispatcherPopStep, DispatcherCreateStep DEF DispatcherThread
<1>2. CASE JoinerThread
  BY <1>2, JoinerPopStep, JoinerLockStep, JoinerJoinStep, JoinerNotifyStep DEF JoinerThread
<1>3. ASSUME NEW t \in Tasks, RunTask(t) PROVE IndInv'
  BY <1>3, TaskReturnsStep, UpdateTaskStatusStep, CleanUpStep, CountCompletedStep,
     PushJoinableStep, NotifyDoneStep DEF RunTask
<1>4. ASSUME NEW x \in Threads, AddTaskPush(x) PROVE IndInv'
  BY <1>4, AddTaskPushStep
<1>5. ASSUME NEW x \in Threads, NEW t \in Tasks, AddTask(x, t) \/ CancelTask(x, t) PROVE IndInv'
  BY <1>5, AddTaskStep, CancelTaskStep
<1>6. ASSUME NEW c \in Callers, WaitForAny(c) \/ WaiterRechecks(c) PROVE IndInv'
  BY <1>6, WaitForAnyStep, WaiterRechecksStep
<1>7. ASSUME NEW c \in Callers, NEW t \in Tasks, WaitForTask(c, t) PROVE IndInv'
  BY <1>7, WaitForTaskStep
<1>8. CASE SpuriousWakeup \/ Close
  BY <1>8, SpuriousWakeupStep, CloseStep
<1>9. CASE Destructor
  BY <1>9, CloseWakeDispatcherStep, CloseWakeJoinerStep, CloseNotifyStep, CloseJoinStep
  DEF Destructor
<1>10. CASE UNCHANGED vars
  BY <1>10 DEF vars, IndInv, TypeOK, PushInv, DispatchQueueInv, DispatcherInv, JoinableQueueInv,
     JoinerInv, ThreadInv, StatusInv, CloseInv, PoolAccounting, SlotReserved, ThreadLimit,
     NumThreads, ClosingThreadsAreCancelled, Awaiting, Leaving
<1> QED
  BY <1>1, <1>2, <1>3, <1>4, <1>5, <1>6, <1>7, <1>8, <1>9, <1>10 DEF Next, Destroyed

(* Every reachable state of the pool satisfies the inductive invariant. *)
THEOREM IndInvHolds == Spec => []IndInv
<1> QED
  BY InitStep, NextStep, PTL DEF Spec

(* The pool is type correct: no counter wraps and the dummy handle never     *)
(* enters a map.                                                             *)
THEOREM TypeCorrect == Spec => []TypeOK
<1>1. IndInv => TypeOK
  BY DEF IndInv
<1> QED
  BY <1>1, IndInvHolds, PTL

(* pool_size_ always counts the threads and the dispatcher's reserved slot. *)
THEOREM AccountingHolds == Spec => []PoolAccounting
<1>1. IndInv => PoolAccounting
  BY DEF IndInv
<1> QED
  BY <1>1, IndInvHolds, PTL

(* A pool with a limit never has more threads, whatever the limit. *)
THEOREM ThreadLimitHolds == Spec => []ThreadLimit
<1>1. IndInv => ThreadLimit
  BY DEF IndInv
<1> QED
  BY <1>1, IndInvHolds, PTL

(* No thread runs a task that the pool has released. *)
THEOREM TaskOutlivesThreadHolds == Spec => []TaskOutlivesThread
<1>1. IndInv => TaskOutlivesThread
  BY DEF IndInv, ThreadInv, TaskOutlivesThread
<1> QED
  BY <1>1, IndInvHolds, PTL

(* The internal threads only use handles that their maps hold. *)
THEOREM HandlesResolveHolds == Spec => []HandlesResolve
<1>1. IndInv => HandlesResolve
  BY DEF IndInv, DispatcherInv, JoinerInv, Awaiting, Leaving, HandlesResolve
<1> QED
  BY <1>1, IndInvHolds, PTL

(* The joiner never waits, with mutex_ held, for a thread that needs mutex_. *)
THEOREM JoinHoldsUpNobodyHolds == Spec => []JoinHoldsUpNobody
<1>1. IndInv => JoinHoldsUpNobody
  BY DEF IndInv, JoinerInv, Leaving, JoinHoldsUpNobody
<1> QED
  BY <1>1, IndInvHolds, PTL

(* What the threads of the pool reach is there, and what they join ends. *)
THEOREM HandlesAreSafeHolds == Spec => []HandlesAreSafe
<1>1. TaskOutlivesThread /\ HandlesResolve /\ JoinHoldsUpNobody => HandlesAreSafe
  BY DEF HandlesAreSafe
<1> QED
  BY <1>1, TaskOutlivesThreadHolds, HandlesResolveHolds, JoinHoldsUpNobodyHolds, PTL

(* Once the pool is closing, every thread in it has been cancelled. *)
THEOREM ClosingThreadsAreCancelledHolds == Spec => []ClosingThreadsAreCancelled
<1>1. IndInv => ClosingThreadsAreCancelled
  BY DEF IndInv
<1> QED
  BY <1>1, IndInvHolds, PTL

(* When the destructor has returned, no thread of the pool is left. *)
THEOREM NoThreadOutlivesPoolHolds == Spec => []NoThreadOutlivesPool
<1>1. IndInv => NoThreadOutlivesPool
  BY DEF IndInv, TypeOK, ThreadInv, CloseInv, NoThreadOutlivesPool
<1> QED
  BY <1>1, IndInvHolds, PTL

(* A reported DONE, FAILED or CANCELLED is never taken back. *)
THEOREM StatusIsFinalHolds == Spec => StatusIsFinal
<1> DEFINE Final == \A t \in Tasks :
                handle_to_status[t] \in {"DONE", "FAILED", "CANCELLED"}
                    => handle_to_status'[t] = handle_to_status[t]
<1>1. ASSUME IndInv, [Next]_vars PROVE Final
  <2>1. ASSUME NEW u \in Tasks, UpdateTaskStatus(u) PROVE Final
    BY <1>1, <2>1 DEF IndInv, TypeOK, StatusInv, UpdateTaskStatus
  <2>2. ASSUME NEW x \in Threads, NEW u \in Tasks, AddTask(x, u) PROVE Final
    BY <1>1, <2>2 DEF IndInv, TypeOK, StatusInv, AddTask, IsNew
  <2>3. ASSUME NEW c \in Callers, NEW u \in Tasks, WaitForTask(c, u) PROVE Final
    BY <1>1, <2>3 DEF IndInv, TypeOK, WaitForTask
  <2>4. CASE UNCHANGED handle_to_status
    BY <2>4
  <2> HIDE DEF Final
  <2>5. CASE DispatcherThread \/ JoinerThread
    BY <2>4, <2>5 DEF DispatcherThread, DispatcherReserve, DispatcherPop, DispatcherCreate,
       JoinerThread, JoinerPop, JoinerLock, JoinerJoin, JoinerNotify
  <2>6. ASSUME NEW u \in Tasks, RunTask(u) PROVE Final
    BY <2>1, <2>4, <2>6
    DEF RunTask, TaskReturns, CleanUp, CountCompleted, PushJoinable, NotifyDone
  <2>7. CASE \/ \E x \in Threads : AddTaskPush(x)
             \/ \E x \in Threads, u \in Tasks : CancelTask(x, u)
             \/ \E c \in Callers : WaitForAny(c) \/ WaiterRechecks(c)
    BY <2>4, <2>7 DEF AddTaskPush, CancelTask, WaitForAny, WaiterRechecks
  <2>8. CASE SpuriousWakeup \/ Close \/ Destructor \/ Destroyed \/ UNCHANGED vars
    BY <2>4, <2>8 DEF SpuriousWakeup, Close, Destructor, CloseWakeDispatcher, CloseWakeJoiner,
       CloseNotify, CloseJoin, Destroyed, vars
  <2> QED
    BY <1>1, <2>2, <2>3, <2>5, <2>6, <2>7, <2>8 DEF Next
<1> HIDE DEF Final
<1>2. IndInv /\ [Next]_vars => [Final]_vars
  BY <1>1
<1>3. Spec => [][Final]_vars
  BY <1>2, IndInvHolds, PTL DEF Spec
<1> QED
  BY <1>3 DEF Final, StatusIsFinal

(* What is inductive: the callers in WaitForCompletion(task) have a task.     *)
WaitersInv ==
    /\ CompletionsAreAnnounced
    /\ \A c \in Callers : op[c] = "wait_task" => arg[c] \in Tasks

(* A step that leaves alone what a waiter looks at, and wakes at most        *)
(* somebody up, loses no wakeup.                                             *)
LEMMA NoWakeupLostBy ==
    ASSUME WaitersInv, asleep' \subseteq asleep,
           UNCHANGED <<op, arg, seen, num_completed_tasks, handle_to_status, tpc>>
    PROVE  WaitersInv'
  BY DEF WaitersInv, CompletionsAreAnnounced

(* Every step of the pool keeps it that way (lines 147, 175, 178, 208, 219). *)
LEMMA WakeupsStep == IndInv /\ WaitersInv /\ [Next]_vars => WaitersInv'
<1> SUFFICES ASSUME IndInv, WaitersInv, [Next]_vars PROVE WaitersInv'
  OBVIOUS
<1> USE DEF IndInv, TypeOK
<1>1. CASE DispatcherThread
  <2>1. CASE DispatcherCreate
    BY <2>1 DEF DispatcherCreate, DispatcherStops, DispatcherInv, Awaiting, WaitersInv,
       CompletionsAreAnnounced, Handle,
       calls, counters
  <2>2. CASE DispatcherReserve \/ DispatcherPop
    BY <2>2, NoWakeupLostBy DEF DispatcherReserve, DispatcherPop, calls, maps, tasks, counters
  <2> QED BY <1>1, <2>1, <2>2 DEF DispatcherThread
<1>2. CASE JoinerThread
  BY <1>2, NoWakeupLostBy DEF JoinerThread, JoinerPop, JoinerLock, JoinerJoin, JoinerNotify,
     calls, maps, tasks, counters
<1>3. ASSUME NEW t \in Tasks, RunTask(t) PROVE WaitersInv'
  <2>1. CASE NotifyDone(t)
    BY <2>1 DEF NotifyDone, NotifyTaskDone, WaitersInv, CompletionsAreAnnounced
  <2>2. CASE TaskReturns(t)
    BY <2>2 DEF TaskReturns, WaitersInv, CompletionsAreAnnounced, calls, maps, counters
  <2>3. CASE UpdateTaskStatus(t)
    BY <2>3 DEF UpdateTaskStatus, WaitersInv, CompletionsAreAnnounced, calls, counters
  <2>4. CASE CleanUp(t)
    BY <2>4 DEF CleanUp, Advance, FinishOrder, WaitersInv, CompletionsAreAnnounced, calls, maps, counters
  <2>5. CASE CountCompleted(t)
    BY <2>5 DEF CountCompleted, Advance, FinishOrder, WaitersInv, CompletionsAreAnnounced, calls, maps
  <2>6. CASE PushJoinable(t)
    BY <2>6 DEF PushJoinable, Advance, FinishOrder, WaitersInv, CompletionsAreAnnounced, calls, maps, counters
  <2> QED BY <1>3, <2>1, <2>2, <2>3, <2>4, <2>5, <2>6 DEF RunTask
<1>4. ASSUME NEW x \in Threads, AddTaskPush(x) PROVE WaitersInv'
  BY <1>4 DEF AddTaskPush, WaitersInv, CompletionsAreAnnounced, maps, counters, tasks, Threads
<1>5. ASSUME NEW x \in Threads, NEW t \in Tasks, AddTask(x, t) PROVE WaitersInv'
  BY <1>5 DEF AddTask, MayCall, IsNew, StatusInv, WaitersInv, CompletionsAreAnnounced,
     counters, tasks, Handle, Threads
<1>6. ASSUME NEW x \in Threads, NEW t \in Tasks, CancelTask(x, t) PROVE WaitersInv'
  BY <1>6, NoWakeupLostBy DEF CancelTask, calls, tasks, counters
<1>7. ASSUME NEW c \in Callers, WaitForAny(c) PROVE WaitersInv'
  BY <1>7 DEF WaitForAny, WaitersInv, CompletionsAreAnnounced, maps, counters, tasks, Threads
<1>8. ASSUME NEW c \in Callers, NEW t \in Tasks, WaitForTask(c, t) PROVE WaitersInv'
  BY <1>8 DEF WaitForTask, WaitersInv, CompletionsAreAnnounced, counters, tasks, Threads
<1>9. ASSUME NEW c \in Callers, WaiterRechecks(c) PROVE WaitersInv'
  BY <1>9 DEF WaiterRechecks, WaitIsOver, WaitersInv, CompletionsAreAnnounced, maps, counters, tasks, Threads
<1>10. CASE SpuriousWakeup
  BY <1>10, NoWakeupLostBy DEF SpuriousWakeup, calls, maps, tasks, counters
<1>11. CASE Close \/ Destructor
  BY <1>11, NoWakeupLostBy DEF Close, Destructor, CloseWakeDispatcher, CloseWakeJoiner,
     CloseNotify, NotifyTaskDone, CloseJoin, calls, maps, tasks, counters
<1>12. CASE Destroyed \/ UNCHANGED vars
  BY <1>12, NoWakeupLostBy DEF Destroyed, vars, calls, maps, tasks, counters
<1> QED
  BY <1>1, <1>2, <1>3, <1>4, <1>5, <1>6, <1>7, <1>8, <1>9, <1>10, <1>11, <1>12 DEF Next

(* No caller of WaitForCompletion sleeps through the end it waits for, for   *)
(* any number of callers, tasks and threads (lines 178 and 206-221).         *)
THEOREM CompletionsAreAnnouncedHolds == Spec => []CompletionsAreAnnounced
<1>1. Init => WaitersInv
  BY DEF Init, WaitersInv, CompletionsAreAnnounced, Threads
<1>2. WaitersInv => CompletionsAreAnnounced
  BY DEF WaitersInv
<1> QED
  BY <1>1, <1>2, WakeupsStep, IndInvHolds, PTL DEF Spec
=============================================================================
