----------------------------- MODULE ThreadPool -----------------------------
(***************************************************************************)
(* thread_pool::ThreadPool (src/common/thread_pool/thread_pool.cpp).       *)
(*                                                                         *)
(* The dispatcher thread reserves a slot, pops a handle from               *)
(* dispatch_queue_ and starts a thread for that task; the joiner thread    *)
(* pops the handles of finished tasks from joinable_queue_, joins their    *)
(* threads and releases their slots.  Tasks run RunTask(), callers use     *)
(* AddTask, CancelTask and WaitForCompletion, the owner the destructor.    *)
(*                                                                         *)
(* A section under mutex_ is one step.  The joiner alone blocks while it   *)
(* holds mutex_ (thread.join() on line 118): between JoinerLock and        *)
(* JoinerJoin every step that needs mutex_ is disabled.  Both queues are   *)
(* unbounded, so a Push or a Pop is one step (module Queue shows           *)
(* that Queue<T> implements this).  A local variable that has gone out of  *)
(* scope (dh, jh, ret, arg, seen) returns to its initial value.            *)
(***************************************************************************)
EXTENDS Integers, Sequences, FiniteSets

CONSTANTS
    Tasks,          \* the tasks ever created; a task is its own handle
    Callers,        \* the threads outside the pool that use it
    NoTask,         \* handle 0, which no task has (task.cpp:5)
    MaxPoolSize,    \* max_pool_size_; 0 is "no limit"
    UintModulus     \* 2^32 in the program: the uint32_t counters wrap

ASSUME TasksAssumption == IsFiniteSet(Tasks) /\ NoTask \notin Tasks
ASSUME CallersAssumption == Callers \cap Tasks = {}
ASSUME SizeAssumption ==
    /\ MaxPoolSize \in Nat
    /\ UintModulus \in Nat
    /\ Cardinality(Tasks) + 1 < UintModulus

VARIABLES
    handle_to_task,         \* the handles with a task object
    handle_to_status,       \* what GetTaskStatus reports; "NONE" is an absent key
    handle_to_thread,       \* the handles with a std::thread
    cancelled_tasks,
    dispatch_queue, joinable_queue,
    should_close, pool_size, num_completed_tasks,
    dpc, dh,                \* DispatcherThread(): where it is, and its kTaskHandle
    jpc, jh,                \* JoinerThread(): the same
    tpc, ret,               \* RunTask() of each task, and its local `status'
    op, arg,                \* the call each thread is in, and that call's task
    seen,                   \* kInitialCompletedTasks of WaitForCompletion()
    asleep,                 \* the callers asleep on task_done_
    dtor                    \* where ~ThreadPool() is

maps == <<handle_to_task, handle_to_status, handle_to_thread, cancelled_tasks>>
counters == <<pool_size, num_completed_tasks>>
queues == <<dispatch_queue, joinable_queue>>
dispatcher == <<dpc, dh>>
joiner == <<jpc, jh>>
tasks == <<tpc, ret>>
calls == <<op, arg, seen, asleep>>
life == <<should_close, dtor>>
vars == <<maps, counters, queues, dispatcher, joiner, tasks, calls, life>>

Status == {"RUNNING", "DONE", "FAILED", "CANCELLED"}
Handle == Tasks \cup {NoTask}
Threads == Callers \cup Tasks
Uint == 0..(UintModulus - 1)

(* The members and locals hold values of their types; in particular handle 0 *)
(* never enters a map (lines 97 and 117) and no counter leaves its range.    *)
TypeOK ==
    /\ handle_to_task \subseteq Tasks
    /\ handle_to_status \in [Tasks -> Status \cup {"NONE"}]
    /\ handle_to_thread \subseteq Tasks
    /\ cancelled_tasks \subseteq Tasks
    /\ dispatch_queue \in Seq(Handle) /\ joinable_queue \in Seq(Handle)
    /\ should_close \in BOOLEAN
    /\ pool_size \in Uint /\ num_completed_tasks \in Uint
    /\ dpc \in {"reserve", "asleep", "awake", "pop", "create", "exited"} /\ dh \in Handle
    /\ jpc \in {"pop", "lock", "join", "notify", "exited"} /\ jh \in Handle
    /\ tpc \in [Tasks -> {"none", "setup", "update", "run", "cleanup", "count",
                          "push", "notify", "exited"}]
    /\ ret \in [Tasks -> Status]
    /\ op \in [Threads -> {"idle", "push", "wait_any", "wait_task"}]
    /\ arg \in [Threads -> Handle]
    /\ seen \in [Callers -> Uint]
    /\ asleep \subseteq Callers
    /\ dtor \in {"open", "wake_dispatcher", "wake_joiner", "notify", "join_dispatcher",
                 "join_joiner", "join_tasks", "destroyed"}

-----------------------------------------------------------------------------
Inc(n) == (n + 1) % UintModulus
Dec(n) == (n + UintModulus - 1) % UintModulus

MutexFree == jpc # "join"

(* The pool once its constructor has returned.  (dispatcher_thread_ is       *)
(* declared before pool_size_, thread_pool.h:95-100, and may run before the  *)
(* member holds its 0; that window is not modelled.)                         *)
Init ==
    /\ handle_to_task = {} /\ handle_to_thread = {} /\ cancelled_tasks = {}
    /\ handle_to_status = [t \in Tasks |-> "NONE"]
    /\ dispatch_queue = <<>> /\ joinable_queue = <<>>
    /\ should_close = FALSE /\ dtor = "open"
    /\ pool_size = 0 /\ num_completed_tasks = 0
    /\ dpc = "reserve" /\ dh = NoTask
    /\ jpc = "pop" /\ jh = NoTask
    /\ tpc = [t \in Tasks |-> "none"] /\ ret = [t \in Tasks |-> "RUNNING"]
    /\ op = [x \in Threads |-> "idle"] /\ arg = [x \in Threads |-> NoTask]
    /\ seen = [c \in Callers |-> 0] /\ asleep = {}

-----------------------------------------------------------------------------
(* Calls into the pool. *)

(* Who may start a call: a caller that is in none while the pool exists, or *)
(* a task from its own RunAtomic() or CleanUp() (as message_passing's        *)
(* ServerTask does, which adds and then cancels the tasks of its clients).  *)
MayCall(x) ==
    /\ op[x] = "idle"
    /\ \/ x \in Callers /\ dtor = "open"
       \/ x \in Tasks /\ tpc[x] \in {"run", "cleanup"}

(* A task object is added to a pool once. *)
IsNew(t) == t \notin handle_to_task /\ tpc[t] = "none"

(* Lines 51-57: the bookkeeping under mutex_. *)
AddTask(x, t) ==
    /\ MayCall(x) /\ MutexFree
    /\ IsNew(t)
    /\ handle_to_task' = handle_to_task \cup {t}
    /\ handle_to_status' = [handle_to_status EXCEPT ![t] = "RUNNING"]
    /\ op' = [op EXCEPT ![x] = "push"]
    /\ arg' = [arg EXCEPT ![x] = t]
    /\ UNCHANGED <<handle_to_thread, cancelled_tasks, counters, queues,
                   dispatcher, joiner, tasks, seen, asleep, life>>

(* Line 60: dispatch_queue_.Push(kTaskHandle), after mutex_ is released. *)
AddTaskPush(x) ==
    /\ op[x] = "push"
    /\ dispatch_queue' = Append(dispatch_queue, arg[x])
    /\ op' = [op EXCEPT ![x] = "idle"]
    /\ arg' = [arg EXCEPT ![x] = NoTask]
    /\ UNCHANGED <<maps, counters, joinable_queue, dispatcher, joiner, tasks, seen, asleep, life>>

(* Mutant: CancelTask records the status itself. *)
CancelTaskSetsStatus(x, t) ==
    /\ MayCall(x) /\ MutexFree
    /\ cancelled_tasks' = cancelled_tasks \cup {t}
    /\ handle_to_status' = [handle_to_status EXCEPT ![t] = "CANCELLED"]
    /\ UNCHANGED <<handle_to_task, handle_to_thread, counters, queues, dispatcher, joiner,
                   tasks, calls, life>>

(* CancelTask only marks the handle; the task's own thread acts on the mark. *)
CancelTask(x, t) ==
    /\ MayCall(x) /\ MutexFree
    /\ cancelled_tasks' = cancelled_tasks \cup {t}
    /\ UNCHANGED <<handle_to_task, handle_to_status, handle_to_thread, counters, queues,
                   dispatcher, joiner, tasks, calls, life>>

GetTaskStatus(t) == handle_to_status[t]

NumThreads == pool_size

(* Lines 200 and 210. *)
NothingToWaitFor == dispatch_queue = <<>> /\ pool_size = 0

(* WaitForCompletion(): a call that finds nothing to wait for changes nothing. *)
WaitForAny(c) ==
    /\ MayCall(c) /\ MutexFree
    /\ ~NothingToWaitFor
    /\ op' = [op EXCEPT ![c] = "wait_any"]
    /\ seen' = [seen EXCEPT ![c] = num_completed_tasks]
    /\ asleep' = asleep \cup {c}
    /\ UNCHANGED <<maps, counters, queues, dispatcher, joiner, tasks, arg, life>>

(* WaitForCompletion(task): operator[] of line 217 inserts RUNNING for a     *)
(* handle the pool does not know; for a finished task nothing changes.       *)
WaitForTask(c, t) ==
    /\ MayCall(c) /\ MutexFree
    /\ handle_to_status[t] \in {"RUNNING", "NONE"}
    /\ handle_to_status' = [handle_to_status EXCEPT ![t] = "RUNNING"]
    /\ op' = [op EXCEPT ![c] = "wait_task"]
    /\ arg' = [arg EXCEPT ![c] = t]
    /\ asleep' = asleep \cup {c}
    /\ UNCHANGED <<handle_to_task, handle_to_thread, cancelled_tasks, counters, queues,
                   dispatcher, joiner, tasks, seen, life>>

(* The predicates of lines 208-211 and 219-221. *)
WaitIsOver(c) ==
    \/ op[c] = "wait_any" /\ (num_completed_tasks # seen[c] \/ NothingToWaitFor)
    \/ op[c] = "wait_task" /\ handle_to_status[arg[c]] # "RUNNING"

(* A woken waiter has mutex_ again and returns, or goes back to sleep. *)
WaiterRechecks(c) ==
    /\ op[c] \in {"wait_any", "wait_task"} /\ c \notin asleep /\ MutexFree
    /\ \/ /\ WaitIsOver(c)
          /\ op' = [op EXCEPT ![c] = "idle"]
          /\ arg' = [arg EXCEPT ![c] = NoTask]
          /\ seen' = [seen EXCEPT ![c] = 0]
          /\ UNCHANGED asleep
       \/ /\ ~WaitIsOver(c)
          /\ asleep' = asleep \cup {c}
          /\ UNCHANGED <<op, arg, seen>>
    /\ UNCHANGED <<maps, counters, queues, dispatcher, joiner, tasks, life>>

(* A condition variable may wake a waiter without a notification. *)
SpuriousWakeup ==
    /\ \/ \E c \in asleep : asleep' = asleep \ {c} /\ UNCHANGED dpc
       \/ dpc = "asleep" /\ dpc' = "awake" /\ UNCHANGED asleep
    /\ UNCHANGED <<maps, counters, queues, dh, joiner, tasks, op, arg, seen, life>>

-----------------------------------------------------------------------------
(* DispatcherThread(). *)

(* Mutant: the limit is off by one. *)
NoFreeThreadOffByOne == MaxPoolSize # 0 /\ pool_size > MaxPoolSize /\ ~should_close

(* Lines 69-70 and the predicate of line 74. *)
NoFreeThread == MaxPoolSize # 0 /\ pool_size >= MaxPoolSize /\ ~should_close

(* Lines 66-79: sleep on thread_available_ while the pool is full, then reserve a slot. *)
DispatcherReserve ==
    /\ dpc \in {"reserve", "awake"} /\ MutexFree
    /\ \/ NoFreeThread /\ dpc' = "asleep" /\ UNCHANGED pool_size
       \/ ~NoFreeThread /\ dpc' = "pop" /\ pool_size' = Inc(pool_size)
    /\ UNCHANGED <<maps, num_completed_tasks, queues, dh, joiner, tasks, calls, life>>

(* Line 83. *)
DispatcherPop ==
    /\ dpc = "pop"
    /\ dispatch_queue # <<>>
    /\ dh' = Head(dispatch_queue)
    /\ dispatch_queue' = Tail(dispatch_queue)
    /\ dpc' = "create"
    /\ UNCHANGED <<maps, counters, joinable_queue, joiner, tasks, calls, life>>

(* Mutant: an internal thread does not look at should_close_ after its Pop(). *)
NeverStops == FALSE

(* Line 88. *)
DispatcherStops == should_close

(* Lines 85-98: exit if the pool is closing, else start a thread for the task. *)
DispatcherCreate ==
    /\ dpc = "create" /\ MutexFree
    /\ \/ /\ DispatcherStops
          /\ dpc' = "exited"
          /\ UNCHANGED <<handle_to_thread, tpc>>
       \/ /\ ~DispatcherStops
          /\ dpc' = "reserve"
          /\ handle_to_thread' = handle_to_thread \cup {dh}
          /\ tpc' = [tpc EXCEPT ![dh] = "setup"]
    /\ dh' = NoTask
    /\ UNCHANGED <<handle_to_task, handle_to_status, cancelled_tasks, counters, queues,
                   joiner, ret, calls, life>>

DispatcherThread == DispatcherReserve \/ DispatcherPop \/ DispatcherCreate

(* Mutant: thread_available_ is not signalled. *)
NotifyNobody == dpc

(* thread_available_.notify_one(); the dispatcher is the only waiter. *)
NotifyThreadAvailable == IF dpc = "asleep" THEN "awake" ELSE dpc

-----------------------------------------------------------------------------
(* JoinerThread(). *)

(* Line 104. *)
JoinerPop ==
    /\ jpc = "pop"
    /\ joinable_queue # <<>>
    /\ jh' = Head(joinable_queue)
    /\ joinable_queue' = Tail(joinable_queue)
    /\ jpc' = "lock"
    /\ UNCHANGED <<maps, counters, dispatch_queue, dispatcher, tasks, calls, life>>

(* Line 109. *)
JoinerStops == should_close

(* Lines 107-117: take mutex_, and exit if the pool is closing. *)
JoinerLock ==
    /\ jpc = "lock"
    /\ jpc' = IF JoinerStops THEN "exited" ELSE "join"
    /\ UNCHANGED <<maps, counters, queues, dispatcher, jh, tasks, calls, life>>

(* Mutant: the thread is detached. *)
DoNotWaitForThread == TRUE

(* Line 118: thread.join() returns. *)
ThreadHasEnded == tpc[jh] = "exited"

(* Mutant: the slot is kept. *)
KeepSlot == pool_size

(* Line 128. *)
ReleaseSlot == Dec(pool_size)

(* Lines 118-130: join the thread, forget the task but keep its status, free the slot. *)
JoinerJoin ==
    /\ jpc = "join"
    /\ ThreadHasEnded
    /\ handle_to_task' = handle_to_task \ {jh}
    /\ handle_to_thread' = handle_to_thread \ {jh}
    /\ cancelled_tasks' = cancelled_tasks \ {jh}
    /\ pool_size' = ReleaseSlot
    /\ jpc' = "notify"
    /\ jh' = NoTask
    /\ UNCHANGED <<handle_to_status, num_completed_tasks, queues, dispatcher, tasks, calls, life>>

(* Line 131. *)
JoinerNotify ==
    /\ jpc = "notify"
    /\ jpc' = "pop"
    /\ dpc' = NotifyThreadAvailable
    /\ UNCHANGED <<maps, counters, queues, dh, jh, tasks, calls, life>>

JoinerThread == JoinerPop \/ JoinerLock \/ JoinerJoin \/ JoinerNotify

-----------------------------------------------------------------------------
(* RunTask(), one thread for each task. *)

(* What SetUp() and RunAtomic() return; no task of the repository returns CANCELLED. *)
TaskResult == {"RUNNING", "DONE", "FAILED"}

(* Lines 160 and 165: SetUp() or RunAtomic() returns a status. *)
TaskReturns(t) ==
    /\ tpc[t] \in {"setup", "run"}
    /\ op[t] = "idle"
    /\ \E s \in TaskResult : ret' = [ret EXCEPT ![t] = s]
    /\ tpc' = [tpc EXCEPT ![t] = "update"]
    /\ UNCHANGED <<maps, counters, queues, dispatcher, joiner, calls, life>>

(* Mutant: the cancellation mark is ignored. *)
OwnStatus(t) == ret[t]

(* Lines 141-144: cancellation overrides the task's own status. *)
UpdatedStatus(t) == IF t \in cancelled_tasks THEN "CANCELLED" ELSE ret[t]

(* Lines 138-154 and 163: the loop of RunTask goes on only for RUNNING. *)
UpdateTaskStatus(t) ==
    /\ tpc[t] = "update" /\ MutexFree
    /\ handle_to_status' = [handle_to_status EXCEPT ![t] = UpdatedStatus(t)]
    /\ tpc' = [tpc EXCEPT ![t] = IF UpdatedStatus(t) = "RUNNING" THEN "run" ELSE "cleanup"]
    /\ ret' = [ret EXCEPT ![t] = "RUNNING"]
    /\ UNCHANGED <<handle_to_task, handle_to_thread, cancelled_tasks, counters, queues,
                   dispatcher, joiner, calls, life>>

(* Mutant: the handle is pushed before the completion is counted. *)
PushedBeforeCounted ==
    [cleanup |-> "push", push |-> "count", count |-> "notify", notify |-> "exited"]

(* Lines 170-178: the order in which a finished task's thread leaves. *)
FinishOrder ==
    [cleanup |-> "count", count |-> "push", push |-> "notify", notify |-> "exited"]

Advance(t) == tpc' = [tpc EXCEPT ![t] = FinishOrder[tpc[t]]]

(* Line 170: CleanUp() returns. *)
CleanUp(t) ==
    /\ tpc[t] = "cleanup" /\ op[t] = "idle" /\ Advance(t)
    /\ UNCHANGED <<maps, counters, queues, dispatcher, joiner, ret, calls, life>>

(* Lines 173-176. *)
CountCompleted(t) ==
    /\ tpc[t] = "count" /\ MutexFree /\ Advance(t)
    /\ num_completed_tasks' = Inc(num_completed_tasks)
    /\ UNCHANGED <<maps, pool_size, queues, dispatcher, joiner, ret, calls, life>>

(* Line 177: joinable_queue_.Push(handle). *)
PushJoinable(t) ==
    /\ tpc[t] = "push" /\ Advance(t)
    /\ joinable_queue' = Append(joinable_queue, t)
    /\ UNCHANGED <<maps, counters, dispatch_queue, dispatcher, joiner, ret, calls, life>>

(* Mutant: task_done_.notify_one(). *)
NotifyOneTaskDone == IF asleep = {} THEN {{}} ELSE {asleep \ {c} : c \in asleep}

(* task_done_.notify_all(): who may still be asleep after it. *)
NotifyTaskDone == {{}}

(* Line 178, the thread's last act. *)
NotifyDone(t) ==
    /\ tpc[t] = "notify" /\ Advance(t)
    /\ asleep' \in NotifyTaskDone
    /\ UNCHANGED <<maps, counters, queues, dispatcher, joiner, ret, op, arg, seen, life>>

RunTask(t) ==
    \/ TaskReturns(t) \/ UpdateTaskStatus(t) \/ CleanUp(t)
    \/ CountCompleted(t) \/ PushJoinable(t) \/ NotifyDone(t)

-----------------------------------------------------------------------------
(* ~ThreadPool(), run by the pool's owner once no caller is inside the pool. *)

(* Lines 19-21. *)
CancelAll == cancelled_tasks \cup handle_to_task

(* Lines 15-25. *)
Close ==
    /\ dtor = "open" /\ MutexFree
    /\ \A c \in Callers : op[c] = "idle"
    /\ cancelled_tasks' = CancelAll
    /\ should_close' = TRUE
    /\ dtor' = "wake_dispatcher"
    /\ UNCHANGED <<handle_to_task, handle_to_status, handle_to_thread, counters, queues,
                   dispatcher, joiner, tasks, calls>>

(* Lines 30-31: the dummy handle 0 makes each internal thread look at should_close_. *)
CloseWakeDispatcher ==
    /\ dtor = "wake_dispatcher"
    /\ dispatch_queue' = Append(dispatch_queue, NoTask)
    /\ dtor' = "wake_joiner"
    /\ UNCHANGED <<maps, counters, joinable_queue, dispatcher, joiner, tasks, calls,
                   should_close>>

CloseWakeJoiner ==
    /\ dtor = "wake_joiner"
    /\ joinable_queue' = Append(joinable_queue, NoTask)
    /\ dtor' = "notify"
    /\ UNCHANGED <<maps, counters, dispatch_queue, dispatcher, joiner, tasks, calls,
                   should_close>>

(* Lines 32-33: task_done_.notify_all() and thread_available_.notify_one(). *)
CloseNotify ==
    /\ dtor = "notify"
    /\ asleep' \in NotifyTaskDone
    /\ dpc' = NotifyThreadAvailable
    /\ dtor' = "join_dispatcher"
    /\ UNCHANGED <<maps, counters, queues, dh, joiner, tasks, op, arg, seen,
                   should_close>>

(* Mutant: the dispatcher is not joined. *)
DoNotJoinDispatcher == TRUE

(* Line 36. *)
DispatcherHasEnded == dpc = "exited"

(* Lines 36-44: join the internal threads, then the threads of the tasks. *)
CloseJoin ==
    /\ \/ dtor = "join_dispatcher" /\ DispatcherHasEnded /\ dtor' = "join_joiner"
       \/ dtor = "join_joiner" /\ jpc = "exited" /\ dtor' = "join_tasks"
       \/ /\ dtor = "join_tasks"
          /\ \A t \in handle_to_thread : tpc[t] = "exited"
          /\ dtor' = "destroyed"
    /\ UNCHANGED <<maps, counters, queues, dispatcher, joiner, tasks, calls,
                   should_close>>

Destructor == CloseWakeDispatcher \/ CloseWakeJoiner \/ CloseNotify \/ CloseJoin

-----------------------------------------------------------------------------
Destroyed == dtor = "destroyed" /\ UNCHANGED vars

Next ==
    \/ DispatcherThread
    \/ JoinerThread
    \/ \E t \in Tasks : RunTask(t)
    \/ \E x \in Threads : AddTaskPush(x)
    \/ \E x \in Threads, t \in Tasks : AddTask(x, t) \/ CancelTask(x, t)
    \/ \E c \in Callers : WaitForAny(c) \/ WaiterRechecks(c)
    \/ \E c \in Callers, t \in Tasks : WaitForTask(c, t)
    \/ SpuriousWakeup
    \/ Close
    \/ Destructor
    \/ Destroyed

(* Every thread that can go on does: the operating system schedules it, and  *)
(* mutex_ is held only for short sections and for the join of a thread that  *)
(* has nothing left to do but exit.  SetUp(), RunAtomic() and CleanUp()      *)
(* return, which Task asks of its implementations.  Nobody is obliged to     *)
(* call into the pool or to destroy it, and no wakeup is spurious by duty.   *)
Fairness ==
    /\ WF_vars(DispatcherThread)
    /\ WF_vars(JoinerThread)
    /\ \A t \in Tasks : WF_vars(RunTask(t))
    /\ \A x \in Threads : WF_vars(AddTaskPush(x))
    /\ \A c \in Callers : WF_vars(WaiterRechecks(c))
    /\ WF_vars(Destructor)

Spec == Init /\ [][Next]_vars
FairSpec == Spec /\ Fairness

-----------------------------------------------------------------------------
(* Safety. *)

(* The dispatcher holds a slot of pool_size_ for the thread it will create,  *)
(* and keeps it when it exits.                                               *)
SlotReserved == IF dpc \in {"pop", "create", "exited"} THEN 1 ELSE 0

(* pool_size_ counts the threads in handle_to_thread_ and the dispatcher's   *)
(* reserved slot, although they change in separate critical sections of two  *)
(* threads (lines 78, 97 and 124-128).                                       *)
PoolAccounting == pool_size = Cardinality(handle_to_thread) + SlotReserved

(* The pool never runs more threads than its limit, from the first task to   *)
(* the end of the destructor, and NumThreads() never reports more while the  *)
(* pool is open (max_pool_size_, thread_pool.h:89-92, test LimittedThreads). *)
ThreadLimit ==
    MaxPoolSize # 0 =>
        /\ Cardinality(handle_to_thread) <= MaxPoolSize
        /\ ~should_close => NumThreads <= MaxPoolSize

(* RunTask uses a raw Task*: whoever still runs has its task in              *)
(* handle_to_task_, which keeps the object alive (lines 96 and 123).         *)
TaskOutlivesThread ==
    \A t \in Tasks : tpc[t] \notin {"none", "exited"} => t \in handle_to_task

(* Neither internal thread acts on the destructor's dummy handle or on a     *)
(* handle its map does not hold: operator[] would insert a null task or an   *)
(* empty thread (lines 95 and 117).                                          *)
HandlesResolve ==
    /\ dpc = "create" /\ ~should_close => dh \in handle_to_task \ handle_to_thread
    /\ jpc = "join" => jh \in handle_to_thread

(* The joiner blocks with mutex_ held only on a thread that needs mutex_ no  *)
(* more (line 118 against lines 138 and 174), or both would wait for ever.   *)
JoinHoldsUpNobody == jpc = "join" => tpc[jh] \in {"notify", "exited"}

(* Nothing that a thread of the pool reaches through a handle or a raw       *)
(* pointer is gone, and nothing it joins can be waiting for it in turn       *)
(* (lines 95-97, 117-118, 123-125 and 157-179).                              *)
HandlesAreSafe == TaskOutlivesThread /\ HandlesResolve /\ JoinHoldsUpNobody

(* After the destructor has cancelled everything (lines 19-21), every thread *)
(* has been told: a task added or dispatched meanwhile never starts.         *)
ClosingThreadsAreCancelled == should_close => handle_to_thread \subseteq cancelled_tasks

(* When the destructor returns, no thread is left that could use the pool.   *)
NoThreadOutlivesPool ==
    dtor = "destroyed" =>
        /\ dpc = "exited" /\ jpc = "exited"
        /\ \A t \in Tasks : tpc[t] \in {"none", "exited"}

(* A status other than RUNNING is final: a late CancelTask, a late wait or   *)
(* the joiner never changes what GetTaskStatus has reported.                 *)
StatusIsFinal ==
    [][\A t \in Tasks :
          handle_to_status[t] \in {"DONE", "FAILED", "CANCELLED"}
              => handle_to_status'[t] = handle_to_status[t]]_vars

(* The end of a task is announced to whoever waits for it: while a caller    *)
(* sleeps on task_done_ although a task was counted since it came (line 209) *)
(* or its own task has ended (line 220), a thread is on its way to the       *)
(* notify_all() of line 178.  The other alternative of the predicate, line   *)
(* 210, is about pool_size_ and nobody announces it: see IdleWaitReturns.    *)
CompletionsAreAnnounced ==
    \A c \in asleep :
        /\ op[c] = "wait_any" /\ num_completed_tasks # seen[c]
              => \E t \in Tasks : tpc[t] \in {"push", "notify"}
        /\ op[c] = "wait_task" /\ handle_to_status[arg[c]] # "RUNNING"
              => tpc[arg[c]] \in {"cleanup", "count", "push", "notify"}

-----------------------------------------------------------------------------
(* The inductive invariant: where a handle may be between AddTask and the    *)
(* joiner.  A task whose thread has not been started is in one place, and so *)
(* is one whose thread is about to be joined.                                *)

(* Added, and not yet given a thread. *)
Awaiting(t) == t \in handle_to_task \ handle_to_thread /\ tpc[t] = "none"

(* Has a thread that needs mutex_ no more. *)
Leaving(t) == t \in handle_to_thread /\ tpc[t] \in {"notify", "exited"}

PushInv ==
    /\ \A x \in Threads : op[x] = "push" => arg[x] \in Tasks /\ Awaiting(arg[x])
    /\ \A x, y \in Threads : op[x] = "push" /\ op[y] = "push" /\ arg[x] = arg[y] => x = y

DispatchQueueInv ==
    \A i \in 1..Len(dispatch_queue) :
        /\ dispatch_queue[i] = NoTask => should_close
        /\ dispatch_queue[i] # NoTask =>
              /\ Awaiting(dispatch_queue[i])
              /\ \A x \in Threads : op[x] = "push" => arg[x] # dispatch_queue[i]
              /\ \A j \in 1..Len(dispatch_queue) :
                    dispatch_queue[j] = dispatch_queue[i] => j = i

DispatcherInv ==
    dpc = "create" =>
        /\ dh = NoTask => should_close
        /\ dh # NoTask =>
              /\ Awaiting(dh)
              /\ \A x \in Threads : op[x] = "push" => arg[x] # dh
              /\ \A i \in 1..Len(dispatch_queue) : dispatch_queue[i] # dh

JoinableQueueInv ==
    \A i \in 1..Len(joinable_queue) :
        /\ joinable_queue[i] = NoTask => should_close
        /\ joinable_queue[i] # NoTask =>
              /\ Leaving(joinable_queue[i])
              /\ \A j \in 1..Len(joinable_queue) :
                    joinable_queue[j] = joinable_queue[i] => j = i

JoinerInv ==
    /\ jpc \in {"lock", "join"} =>
          /\ jh = NoTask => should_close
          /\ jh # NoTask =>
                /\ Leaving(jh)
                /\ \A i \in 1..Len(joinable_queue) : joinable_queue[i] # jh
    /\ jpc = "join" => ~should_close

ThreadInv ==
    \A t \in Tasks :
        /\ tpc[t] \notin {"none", "exited"} => t \in handle_to_thread
        /\ t \in handle_to_thread => t \in handle_to_task /\ tpc[t] # "none"

StatusInv ==
    \A t \in Tasks :
        /\ tpc[t] = "none" => handle_to_status[t] \in {"RUNNING", "NONE"}
        /\ \/ tpc[t] \in {"setup", "update", "run"}
           \/ tpc[t] = "none" /\ t \in handle_to_task
           => handle_to_status[t] = "RUNNING"

CloseInv ==
    /\ should_close <=> dtor # "open"
    /\ dtor \in {"join_joiner", "join_tasks", "destroyed"} => dpc = "exited"
    /\ dtor \in {"join_tasks", "destroyed"} => jpc = "exited"
    /\ dtor = "destroyed" => \A t \in handle_to_thread : tpc[t] = "exited"

(* Every handle is where the code's next access expects it (lines 51-131),   *)
(* and the statuses and the destructor's progress agree with the threads.    *)
IndInv ==
    /\ TypeOK
    /\ PushInv /\ DispatchQueueInv /\ DispatcherInv
    /\ JoinableQueueInv /\ JoinerInv /\ ThreadInv
    /\ StatusInv /\ CloseInv
    /\ PoolAccounting /\ ThreadLimit /\ ClosingThreadsAreCancelled

-----------------------------------------------------------------------------
(* Liveness. *)

(* A cancelled task that has a thread leaves its loop, whatever RunAtomic()  *)
(* returns (lines 141-144 and 163): it is never true for good that some task *)
(* is cancelled and runs, and a task runs only once.                         *)
CancelTakesEffect ==
    []<>(\A t \in cancelled_tasks : tpc[t] \notin {"setup", "update", "run"})

(* ~ThreadPool() returns, whatever the internal threads and the tasks were   *)
(* doing when it began and however many tasks were still queued.             *)
DestructorReturns == (dtor # "open") ~> (dtor = "destroyed")

(* "If no tasks are running, it returns immediately"                         *)
(* (thread_pool_interface.h:42): whoever calls WaitForCompletion() on a pool *)
(* without tasks returns, unless a task is added.  The code does not keep    *)
(* this: lines 200 and 210 ask for pool_size_ = 0, and pool_size_ is at      *)
(* least 1 as soon as the dispatcher has reserved a slot (line 78).          *)
IdleWaitReturns ==
    \A c \in Callers :
        (op[c] = "wait_any" /\ handle_to_task = {}) ~> (op[c] = "idle" \/ handle_to_task # {})

(* The tasks of the pool come to an end. *)
TasksEnd == \A t \in Tasks : []<>(tpc[t] \notin {"setup", "update", "run"})

(* If tasks end, every task that was added gets its thread, also when the    *)
(* dispatcher had to sleep for a free slot (line 73), unless the pool closes.*)
(* A task waits only once.                                                   *)
AddedTaskStarts ==
    TasksEnd => []<>(should_close \/ \A t \in handle_to_task : tpc[t] # "none")
=============================================================================
