# TLA+ models of the csci6780 projects

This directory is a formal model of the programs in `src/`: a thread pool, a
blocking queue and a message-passing layer that all programs share
(`src/common`), an FTP server and client (`src/project1_2`), a publish/subscribe
coordinator with its participants (`src/project3`) and the beginning of a
consistent-hashing name server (`src/project4`). The modules are translated from
the C++ sources, TLC checks them on small instances, and TLAPS proves the most
important results for instances of any size. `PROJECT.json` maps every definition
to the lines it models.

## 1. The system

| Part | State | Operations | Interacts with |
|---|---|---|---|
| Thread pool, `common/thread_pool` | four maps from handles, two queues of handles, `pool_size_`, `num_completed_tasks_`, `should_close_`, one mutex, two condition variables | `AddTask`, `CancelTask`, `GetTaskStatus`, two `WaitForCompletion`, `NumThreads`; the dispatcher and joiner threads; `RunTask` in a thread per task; constructor and destructor | uses `Queue`; runs the tasks of every other part |
| Queue, `common/queue` | a deque, a limit, a mutex and two condition variables | `Push`, `Pop`, `PopTimed`, `Empty` | thread pool, message passing, coordinator |
| Wire protocol, `common/wire_protocol` | a parser: its stage, a partial length, a partial message, an overflow | `Serialize`, `AddNewData`, `HasCompleteMessage`, `GetMessage`, `GetOverflow`, `ResetParser` | everything that reads a socket |
| Message passing, `common/message_passing` | a receive queue, send queues, the tasks of each connection | `Send`, `SendAsync`, `Receive`, sender, receiver and server tasks | project 4 |
| Chunked files, `common/chunked_files` | contents that are still to be sent or have been received, a parser | next chunk, receive chunk, is it complete | FTP |
| FTP server, `project1_2/server` | per client an agent with a working directory; shared: the ids of running commands, two file access managers, the disk | seven commands, `terminate` from a second port | file locks, chunked files, thread pool |
| File locks, `project1_2/server/file_handler` | per manager the locked files, a mutex, one condition variable | `LockFile`, `UnlockFile`; `Get`, `Put`, `Delete`, `MakeDir` | called by every agent thread |
| FTP client, `project1_2/client` | one socket, the request being handled, the running download and upload tasks | the shell's commands, in the foreground or with `&` | FTP server, thread pool |
| Coordinator, `project3/coordinator` | `id_`, known and connected participants, messengers with their sockets, the message log, the message queue | `register`, `deregister`, `disconnect`, `reconnect`, `msend`; one task per connection | thread pool, queue, participants |
| Participant, `project3/participant` | its id, whether it is connected, the console task, the task that receives multicasts | the same five requests, quit, receiving | coordinator, thread pool |
| Name server, `project4` | a ring of neighbours, a range of keys | enter, exit, insert, look up, delete | message passing |

The hard behaviours are all of one kind: threads and callbacks that interleave
between critical sections. In the thread pool two internal threads, the tasks'
threads, the callers and the destructor hand over handles through two queues and
four maps. In the queue and the file locks the danger is a notification that
nobody hears. In the coordinator no handler is atomic: it takes and releases one
mutex per call and reads some shared state with none, so requests of different
participants, and successive requests of the same one, mix at every call. On top
of that come failures: a participant that goes away, a connection that cannot be
made, a timeout that races an answer.

What makes each part correct:

* *thread pool*: the limit holds, every handle is where the next access expects
  it, nobody uses a freed task, every wait ends, the destructor returns and
  leaves no thread behind;
* *queue*: it is an atomic bounded FIFO, and no sleeper is forgotten;
* *file locks*: operations on a file are atomic, and every one ends;
* *coordinator*: the records of who is a member agree, a message reaches every
  member once, in one order, and a member that was away gets what it missed;
* *wire protocol and message passing*: what is received is what was sent, however
  the stream is cut; the result of a `Send` is the truth about it, and a client's
  connection is its own;
* *FTP*: a transfer delivers the whole file or nothing, a terminated command stops
  soon, no command leaves its id behind, and every command is answered or seen to be
  over;
* *participant*: one receiver at a time, of the connection that its id belongs to,
  logs what it is sent once, and every command returns.

`PROJECT.json` lists under "hazards" the lines where each of these could go
wrong, and the properties that watch them.

## 2. Modules

| Module | What it is |
|---|---|
| `ThreadPool` | the thread pool |
| `ThreadPool_proofs` | its theorems |
| `BoundedBuffer` | what `Queue<T>` promises: an atomic bounded FIFO |
| `Queue` | `Queue<T>` with its mutex and condition variables; refines `BoundedBuffer` |
| `Queue_proofs` | its theorems, the refinement included |
| `AtomicFiles` | what `ThreadSafeFileHandler` promises: atomic files |
| `FileLocks` | lock managers, lock guards and file handlers; refines `AtomicFiles` |
| `FileLocks_proofs` | its theorems, the refinement included |
| `Coordinator` | the coordinator and what it sees of its participants |
| `Coordinator_proofs` | its theorems |
| `MessageParser` | the wire protocol: `Serialize` and the methods of `MessageParser` as operators |
| `Receiving` | `Node::Receive` and the receiver tasks, on `MessageParser` |
| `Receiving_proofs` | theorems about `MessageParser` and `Receiving` |
| `Server` | `message_passing::Server`, its server task and its clients' sender tasks |
| `Server_proofs` | its theorems |
| `ChunkedFiles` | the FTP messages, `ChunkedFileSender` and `ChunkedFileReceiver` as operators |
| `FtpServer` | the FTP server: ports, agents, command ids; extends `ChunkedFiles` |
| `Ftp` | the FTP client, composed with `FtpServer` over one connection per client |
| `Ftp_proofs` | theorems about `Ftp` |
| `Participant` | the participant, its tasks and what it sees of the coordinator |
| `Participant_proofs` | its theorems |
| `MCThreadPool`, `MCQueue`, `MCFileLocks`, `MCCoordinator`, `MCReceiving`, `MCServer`, `MCFtp`, `MCParticipant` | the instances for TLC (symmetry sets, messages, files) |

### ThreadPool

Variables have the names of the members, without the final underscore.
A section under `mutex_` is one step, because every access to the members takes
`mutex_`; what happens outside it (a push, a pop, a notification) is a step of its
own. The joiner is the exception: it waits in `thread.join()` with `mutex_` held
(line 118), so between `JoinerLock` and `JoinerJoin` the guard `MutexFree`
disables everybody else's critical sections. The two queues have no limit, so a
push or a pop is one step; module `Queue` justifies that. `dpc`, `jpc`, `tpc`,
`op` and `dtor` are where the dispatcher, the joiner, each task's thread, each
caller and the destructor are. A task may itself call the pool, as the tasks of
the message-passing server do. What the user's `SetUp`, `RunAtomic` and `CleanUp`
return is chosen freely. The counters are `uint32_t` and wrap at `UintModulus`.

`Spec` starts when the constructor has returned (see section 5 for what precedes).

### Queue and BoundedBuffer

`Push` notifies after it has released the mutex and `PopTimed` before, as in the
code. `Pop` is `PopTimed` with a timeout of hours. A timeout may hit a consumer that
is asleep, or one that has just been notified, which then looks at the queue once
more (`wait_for` with a predicate). Spurious wakeups can always happen. The
refinement mapping says that a call has taken effect when its thread has changed
`queue_`.

### FileLocks and AtomicFiles

A file is the normalized absolute path that `UniquePath` computes, so two names for
one file are one key. `Get` holds a lock of the read manager; `Put`, `Delete` and
`MakeDir` hold one in each manager. `Put` is two steps on the disk, because opening
the stream truncates the file. `AtomicFiles` has `Put` happen at once; the mapping
shows it the value that the writer of a truncated file is about to write.

### Coordinator

One task per accepted connection, one step per call that locks a mutex or touches
shared state. `Accept` is the driver and the dispatch of the request; the steps
after it follow the handler in `coordinator.cpp` through `Registrar`,
`ParticipantManager`, `MessengerManager`, `Messenger` and `MessageLog`. Things that
matter and are kept:

* `id_` is loaded, stored and read again in separate steps (lines 207-224 of
  `coordinator.cpp` use no lock);
* a handler works on its own copy of a `Participant`, a messenger on another;
* `BroadcastMessage` and `GetMessengers` walk `messengers_` without its mutex.
  An insertion under the walk leaves the rest of it arbitrary; an erasure of the
  element the walk is at also allows the process to die (`killed`);
* a send on a descriptor that is not open fails; the first send after the peer has
  gone is accepted by the kernel, the second raises SIGPIPE, and nobody handles it;
* the clock may or may not advance between two readings.

Abstracted: a message is named by the task that received it; a descriptor is the
connection it belongs to and numbers are not reused; host names and ports are
left out (an attempt to connect may fail at any time, as the three attempts of
`ConnectToParticipant` may); the request connection carries its one request whole.

Requests come at any time, those of one participant too: it waits only for the answer
to a register, which is sent before the registration is complete, and any number of
participants register at once. So a request to leave may overtake the registration it
is about. `overtaken` is history: the ids that a request to leave has found unknown.
`ConnectedHasMessenger` excepts these ids (section 5 says what happens to them), and
nothing else.

### MessageParser and Receiving

A message is the sequence of bytes protobuf makes of it. `Serialize` puts its length
in front, most significant byte first. `MessageParser` is a record with the fields of
the class, and its methods are operators on it: `AddNewData` runs the three stages,
each of which consumes a part of the data and may do nothing.

`Receiving` has one connection per endpoint: `wire` is what is on its way,
`RunAtomic` reads at most a chunk of it (any smaller number of bytes too, as
`recv()` may) and pushes the piece to the receive queue all endpoints share.
`Receive` is `DoReceive`: it moves the saved pieces to a local copy, takes pieces from
there and then from the queue, saves those of other endpoints, and returns when its
parser is complete, when a piece reports an error, or when its timeout passes.

### Server

`ServerTask` steps through `SetUp`, rounds of `RunAtomic` (close what has ended,
accept, start two tasks, run the callback) and `CleanUp`, with the pool's
`UpdateTaskStatus` between rounds. Descriptors are numbers: `close()` frees one and
`accept()` takes the lowest free one. That is the point of the model, since a sender
task keeps its number after its client has gone. A client connects once, because a
new connection has a new port and is a new endpoint. `Send` is three steps: the id,
the push under `send_queue_mutex_`, and the wait for the result. What the receivers
read is left to `Receiving`. A result is `sent` or `failed`; the sockets have no
send timeout and block, so `send()` never writes a part. The branch for a timed-out
send is modelled all the same.

### ChunkedFiles, FtpServer and Ftp

A file is a sequence of pieces and a chunk carries at most `ChunkSize` of them. One
socket per client carries requests, responses and file contents, and nothing in a
message says which it is: a reader parses what comes as what it expects.
`AsFileContents` and `AsRequest` say what protobuf makes of the wrong kind. `recv()`
takes one or more whole messages (module `Receiving` has messages in pieces). It may also
take a part of the one behind them, and the only code that then behaves differently is
`ChunkedFileReceiver::CleanUp()`, which goes on receiving while its parser holds a part;
the part stays in the connection with the rest of its message, and the choice whether there
is one is made where `CleanUp()` looks. A connection holds `SocketBuffer` messages in each
direction, and `send()` blocks while it is full. Whoever reads keeps what follows the message it wanted, and drops it when its parser goes: the
agent's own parser lives as long as the session, that of a put as long as the put, and
that of `WaitForMessage` until the next response.

In `FtpServer` a step of an agent is one access to what it shares: a socket, the ids, or
the disk. `FileLocks` justifies that an access to the disk is one step. `id_++` and the
lookup are separate steps, because `GenerateID` takes no lock around them. A terminate
comes on a connection of its own and may be lost when that connection fails; it removes
the id whoever owns it. A send to a client that has gone succeeds, fails, or ends the
process with SIGPIPE; an exception of `std::filesystem`, or of the stream that reads a
directory, ends it too (`Crash`). A put that was terminated is at `clean` while `CleanUp()`
takes and drops further chunks, and requests among them.

In `Ftp` the user types any commands, up to `MaxCommands` over all clients. A request is
sent, one response is waited for, and then the transfer begins as a task of the client's
pool, whatever the response was. A step of a task is one `RunAtomic()` and the status
update behind it. The shell may go on from that moment: `DownloadTask::CleanUp()`
(`DownloadCleanUp`) is a later step, for as long as the task is `cleaning`, and reads from
the socket the next command uses. `r_old`, which only a get sets, is the task a terminate cancels.

Two variables are history. `late` counts the chunks a command has carried since its id was
removed. `out_of_step` remembers what has first made one side take a message for what it is
not, or drop it: a request typed during a transfer, chunks dropped behind a response, a
request dropped behind a put, a response dropped by the `CleanUp()` of an earlier download
(`response_dropped`), or chunks read as requests. `TransfersAreWhole` and
`CommandsEnd` hold for connections where this has not happened, and section 5 says what
happens otherwise.

### Participant

`Start` is the main thread: a command, the answer to a register, the `switch`, the wait for a
receiver, and the end of the program with the destructor of the pool. The console task
and the receivers are tasks; as in `ThreadPool`, a cancellation is looked at between two
calls of `RunAtomic`, and a task that has stopped has its `CleanUp` still to come. That is why
two listeners may share the port (`SO_REUSEPORT`) and why the coordinator's connection may
land in the backlog of either. A request, the connection made for it and the registration
it asks for have the number of the command. The coordinator is the environment: it answers,
connects if somebody listens, sends, closes, or goes away for good. Its own handlers are
module `Coordinator`'s subject; the two meet in `MayRequest` there: a participant has an id
before it asks for anything but a registration, and waits for the answer to that.

`stray` is history: a connection was asked for that no receiver of its own waits for, by a
register or reconnect while connected, or because the port could not be had.

## 3. Runs

Passing runs:

| Run | Instance | Shows |
|---|---|---|
| `pool` | 2 tasks, 2 callers, a limit of 1 thread | the inductive invariant, safe handles, every completion announced; cancelled tasks end, the destructor returns, queued tasks start |
| `queue` | 2 producers of 2 elements, 3 consumers, 2 places | refinement of `BoundedBuffer`, no lost notification, nobody sleeps for ever |
| `locks` | 4 threads, 2 files | exclusion, no deadlock, a waker for every sleeper, refinement of `AtomicFiles`, every operation ends |
| `coordinator` | 2 members of which one may quit, a newcomer, 2 requests of any kind | the shared records stay consistent, connected members have messengers; every message is delivered once while nobody joins or leaves; every handler ends |
| `receiving` | 2 endpoints, 2 messages of at most one byte, chunks of 4 bytes, a length of 2 bytes | the parser is sound, a whole message is noticed, only an early return loses bytes, every message whose bytes were not lost is returned |
| `server` | 2 clients, 2 descriptors, 2 callers, 2 messages | results are true and reach their call, waiters are not forgotten, live connections are not closed |
| `ftp` | 2 clients, 1 file of 3 chunks, an upload of 3 chunks and one of 1, 2 commands, 2 ids, room for 2 messages in a connection | ids are accounted for, terminated transfers stop soon, transfers are whole, every command ends |
| `participant` | 3 commands, 2 multicasts per connection | one receiver at a time, its id names its connection, multicasts are logged, every command returns |

Why the bounds are enough for the cases to happen: with two tasks and a limit of
one, the dispatcher sleeps for a slot that the joiner frees, and a task waits in
the queue while the pool closes. Two callers wait for different things on one
condition variable. Three consumers and two producers allow a notification to reach
a consumer that times out while another one sleeps, and two places allow a full
queue with two blocked producers. Four threads on two files are two holders and
two waiters, one for each file, of which the wrong one is woken; what each thread may do
(`MCRequests`) is as little as that and a meeting of three on one file need. Two requests
at the coordinator are any two of its handlers at once: two changes of the membership, a
change and a broadcast, a registration and the request that overtakes it, or two
multicasts that exchange their messages in the queue. They are too few for
`SearchesInVain`, which takes a member that leaves and two registrations, so the exception
of `RequestsEnd` is not used in the run. A message of the `receiving` run is two or three bytes and a chunk is four, so a piece
may end inside the length, at its end, inside a message, or hold the end of one
message and the beginning of the next; two endpoints make pieces wait for another
call. Two clients are one that leaves and one that gets its descriptor, and two
messages are one to each, or one that waits behind another.
Two FTP commands are a transfer and the terminate, delete or second transfer that
hits it; three chunks are one more than a connection holds, so that a sender blocks, a
termination falls between two of them and `CleanUp()` finds more than one to drop; and two
ids make the commands meet in one. A response that `CleanUp()` of a download takes needs
three commands (get, terminate, and the one that waits): the same four properties hold for
one client, three commands and files of two chunks (960855 states), which is not among the
runs. Three commands of a participant are one receiver, its end, and
the next one on the same port.
`UintModulus` and the coordinator's `IdModulus` are larger than the counts that can
occur, as 2^32 is; the FTP server's is 2 and wraps. Symmetry is over tasks and callers or over interchangeable members, and is
not used where liveness is checked.

What the code does and a property would exclude is excepted by name, and section 5
describes it: `overtaken` in `ConnectedHasMessenger`, `SearchesInVain` and `killed` in
`RequestsEnd`, `out_of_step` in `TransfersAreWhole` and `CommandsEnd`, `Unread` (the agent
is in `send()` and its client will not read any more) in `CommandsEnd`, `stray` in
`IdNamesConnection`. `OperationsEnd` is about bounded numbers of operations: a waiter that
is woken competes with newcomers for the file, so if these never stop coming it may lose
again and again.

Fairness is weak fairness of every thread's next step: the operating system
schedules every thread that can run, and a mutex that is released again and again
is obtained. No fairness is assumed of callers (nobody has to call), of timeouts, of
spurious wakeups, of a participant that may go away, or of what a task's `RunAtomic`
returns; `AddedTaskStarts` is therefore conditional on tasks that end. For the
coordinator the fairness of a handler rests on the thread pool
(`AddedTaskStarts` for a pool without limit) and on `connect()` and `send()`
returning. For `Receiving` it is that the receiver tasks run and that the user keeps
calling `Receive`. For `Ftp` it is that agents, shells, the tasks of each client's pool and
the termination port run; no user has to type. For `Participant` it is that its threads run
and that the coordinator answers and connects while it is up; it need not send, and may die.
`Server` is checked for safety only: `ResultsMeetCalls` says in every state who will end a
wait.

`CHECK_DEADLOCK FALSE` is set for `FileLocks`, `Coordinator`, `Receiving`, `Server`, `Ftp` and
`Participant`, whose runs stop when the bounded number of operations, requests, messages or
commands is used up. The pool and the
queue are checked for deadlock.

## 4. Proofs

`ThreadPool_proofs` proves, for every finite set of tasks, any callers, every limit
and every modulus larger than the number of tasks plus one (`TasksAssumption`,
`CallersAssumption`, `SizeAssumption`): type correctness, `PoolAccounting`,
`ThreadLimit`, `TaskOutlivesThread`, `HandlesResolve`, `JoinHoldsUpNobody` (the last three
are `HandlesAreSafe`), `ClosingThreadsAreCancelled`, `NoThreadOutlivesPool`, `CompletionsAreAnnounced` and the
action property `StatusIsFinal`.

None of these is inductive alone. `pool_size_ = |handle_to_thread_| + reserved slot`
survives `DispatcherCreate` only if the popped handle has no thread yet, and
`JoinerJoin` only if the popped handle still has one. `IndInv` therefore says where
each handle is: an added task without a thread is in the hands of one `AddTask`, in
one place of `dispatch_queue_`, or with the dispatcher; a task that is leaving is in
one place of `joinable_queue_` or with the joiner; only the destructor's dummy handle
is neither, and it appears only after `should_close_` is set. `IndInv` is also an
invariant of the run `pool`. There is a lemma for each action. `CompletionsAreAnnounced`
adds that whoever sleeps is in a wait and that a status changes only on the way to a
notification (`WaitersInv`). It is about tasks that end; that `pool_size_` has become 0,
the other thing `WaitForCompletion()` waits for, is announced to nobody (section 5).

`Queue_proofs` proves for any finite sets of producers and consumers and any limit
(`SidesAssumption`, `LengthAssumption`): `TypeOK`, which includes that the queue keeps its
limit, `NotificationsSuffice`, and that the
specification implements `BoundedBuffer`. `NotificationsSuffice` counts: while consumers
sleep, there are no more elements than producers that have yet to signal and consumers that
are awake; and the same for producers and places. With `TypeOK` it is inductive, because
every step that adds an element or a place also adds somebody who will signal or look; the
cardinalities are followed by adding and removing one thread at a time. In the refinement a
step that only changes who sleeps is a stutter.

`FileLocks_proofs` proves for any finite set of threads and any files: `TypeOK`,
`LocksAreExclusive`, `WriteLockIsFree` (so the two managers cannot deadlock),
`SleepersHaveAWaker`, and that the specification implements `AtomicFiles`. The
inductive invariant adds which kinds of operation can be at which label. The
refinement rests on it: a file with a writer has only that writer, so nobody else
can read it or change it in between.

`Coordinator_proofs` proves for any participants, requests and clock
(`SetsAssumption`, `NumbersAssumption`):

* `TypeOK` and `ManagerAgrees`, from which request is at which label (`LocalInv`). A task
  that enters a participant must have a connection of its own; that is what the label
  tells.
* `ConnectedHasMessenger`. A connected id that was not overtaken has a messenger that
  no task is about to delete, or a task about to add one (`ServedInv`). This survives a
  deletion because the messenger that was found is one of the participant that leaves
  (`FoundInv`), nobody has come across a messenger before it is added (`NewInv`), and a task
  looks for its participant before it looks for the messenger, so that the participant is
  not connected any more unless it was not found, that is, overtaken (`SoughtInv`). Nothing is assumed about ids
  being different.
* `EveryMessageOnce`. While there are only multicasts the members and their connections stay
  as they were (`StillInv`); a message is before its push, in one place of the queue, or with
  one task (`TokenInv`), which need not be the task that pushed it; the queue has as many
  messages as there are tasks at the pop (`QueueInv`); and a member has been sent a message
  once exactly when nobody owes it to that member any more (`SentInv`).

A step of one task leaves the locals of the others alone, except for the rest of their walk
through `messengers_`, which an insertion makes arbitrary (`Kept`).

`Server_proofs` proves for any clients, callers, descriptors and number of messages
(`ServerAssumption`): `TypeOK`, `DescriptorsAreKept`, `ResultsMeetCalls` and
`ResultTellsTruth`. `DescriptorInv` matches receivers in `tasks_` and open descriptors one to
one until `CleanUp` has closed them; the lowest free descriptor that `accept()` takes has no
receiver. `MeetInv` treats a message as a token: it is with a caller, in one place of one
queue, with one sender, or its result is stored for a call that waits. `WriteInv` adds that a
message that was written is with nobody who could write it again, so it is written at most
once, and that a result says so wherever it is on its way back.

`Receiving_proofs` proves for any endpoints, messages, chunk size and length
(`FormatAssumption`, `NotationAssumption`, `MessagesAssumption`) that the parser keeps
its class invariant (`ParserOK`) and conserves bytes. `AddNewDataConserves`: what the
parser holds afterwards is what it held followed by what it was given, stage by stage.
`GetMessageConserves`: after `GetMessage` it holds what followed the message. From
these, `TypeCorrect` (`Spec => []TypeOK`, where `TypeOK` includes `ParserOK`) and `WholeMessagesAreNoticed` (`Spec => []CompleteIsNoticed`). The inductive invariant adds to
`TypeOK` that a parser is new as long as its call has no endpoint, so a message can be
complete only when there is an endpoint to return it for.

The action property `OnlyReturnsLose` is about what `FlattenSeq`, a recursive function,
computes from lists of any length. The library's induction theorems have an operator as
parameter and cannot be used here, so `SetInduction` derives induction for sets of numbers
from the cardinality theorems: a number that a closed set leaves out bounds a finite set that
maps injectively into itself without reaching 0. With it, flattened prefixes exist and are
unique, and `FlattenSeq` distributes over appending and joining. The invariant `ReceiveInv`
says that the saved pieces hold none of the endpoint being read, and are none while no endpoint
has been chosen; without it a piece could overtake one that was saved. There is a lemma for each
action that shows where the bytes of an endpoint move, and `NothingAtStake` is what a return
needs to lose none.

`Participant_proofs` proves `TypeOK`, `OneReceiver` and `IdNamesConnection` for any number of
commands and multicasts (`BoundsAssumption`). `TypeOK` bounds what is logged by what can be
sent, so it needs that a message is counted once: a connection is in one backlog or has one
reader (`Connections`), and what a receiver has received is what it has logged and what is in
its parser (`Counts`). `OneReceiver` follows from `AliveIsCurrent`: only the receiver `Start`
remembers may be alive, because `Start` waits before it forgets it. `IdNamesConnection` needs
`InOrder`: unless something is stray, the coordinator connects only for the command being
carried out or for the receiver that is alive. `Untyped` says that commands are numbered as
they are typed. There is a lemma for each part with one step per action.

`Ftp_proofs` proves `IdsAreAccounted` and `StopsSoon` for any clients, files, contents, chunk
size, ids and number of commands. Neither needs that ids are different, and they are not. An
agent's count of late chunks is bounded at each place of the code (`Counted`), because the id
is looked up between any two chunks, and a count above zero means that the id is still missing
(`MissingId`), because an insertion resets the counts of everybody who has that id.
`StopsSoon` counts the chunks of the transfer loop, not those that `CleanUp()` of a put
receives to drop them, of which there may be any number. A step of
one agent leaves the others alone (`Local`), so each action has a lemma that looks at its own
agent only; a step that ends the process has one for all (`CrashStep`).

`Ftp_proofs` also proves the action property `TransfersAreWhole`, if all files are sequences
of pieces (`ContentsAssumption`). Its inductive invariant `WInv` follows a file from its sender
to its receiver. `Downloads` says that what a download has received is the start of some whole
file, that the messages it will read, in its parser and on the socket, are the chunks that
follow, and that the agent, while it sends, goes on behind them. `Uploads` says the same of an
upload, and that an upload that has ended while its client stays has sent everything. Chunks
are found by their number: the one behind `n` others behind `k` pieces starts at
`k + n * ChunkSize` (`Behind`), and only the last is shorter, so no induction over the messages
is needed; taking the first one shifts all others (`BehindChunk`), sending one adds the next
(`NextChunkFact`).

That nothing but chunks is among those messages is what a connection in step means. A task that
runs is the last one, and none runs while the shell waits for a response (`OneTask`); what the
agent has not read is chunks, and behind them the request that the shell waits for (`Asked`);
there is at most one response on its way, and the agent is then where that kind of request has
taken it (`Answered`). While a download is
`cleaning` no task runs and no other is, and what it receives next is a chunk (`Cleans`), so
its `CleanUp()` disturbs no transfer: if it takes a response, that is `response_dropped`.
Of the last two one part hands over to the other when the agent
answers, and `WaitForMessage` hands over to the task (`ResponseTaken`). Uploads are never
cancelled (`CancelsGets`), which is why a put that has ended has sent everything. The contents of the
disk are whole as long as every connection is in step (`FilesWhole`), which is why a download
is only promised a whole file then. There is a lemma for every action, and each uses that a
step leaves the other clients alone (`OneClient`, `ClientOnlyInv`). When a chunk
completes a file, what has been received is all of it (`Grown`); from that and the invariant
the action property follows (`FilesChange`, `SavedChanges`).

Only model-checked: all liveness, which TLAPS does not prove (`CancelTakesEffect`,
`DestructorReturns`, `AddedTaskStarts`, `SleepersWake`, `OperationsEnd`, `RequestsEnd`,
`EveryMessageIsReceived`, `CommandsEnd`, `MulticastsAreLogged`, `CommandsReturn`). Every
invariant and every action property that a run checks is also proved. That the parser decodes every length correctly rests on the two
functions that stand for `htonl` and `ntohl` being inverse (`NotationAssumption`),
which TLC evaluates.

## 5. Where the code does not do what it says

These runs must find a violation.

* `pool_idle`: `WaitForCompletion()` on a pool without tasks sleeps until somebody adds one.
  It returns at once only if `pool_size_` is 0, and the idle dispatcher's reserved slot makes
  it 1, although `thread_pool_interface.h:41` says "If no tasks are running, it returns
  immediately." (The test `WaitEmptyPool` passes if it calls before the dispatcher has run.)
* `coordinator_missed`: a message broadcast while a participant reconnects may be
  neither sent to its new messenger nor among its missed messages.
* `server_destination`: a message to a client that has left is written to the client
  that got its descriptor, and reported as sent.
* `ftp_lost_request`: nothing acknowledges a put, so the client's next request may reach the
  server together with the last chunk. The receiver of the put takes both and drops what
  follows the chunk, and the client waits for an answer for ever.

Further observations from the models, without a run of their own:

* Also `pool_size_ = 0` that comes true while a caller sleeps in `WaitForCompletion()` is
  not announced to it: the joiner notifies only `thread_available_` (line 131).
* Two registrations at the coordinator at once may get the same id.
* `dispatcher_thread_` is declared before `pool_size_` (`thread_pool.h:95-100`), so the
  dispatcher may count its slot before the member is set to 0. The slot is then lost and
  the pool may exceed its limit by one.
* Two multicasts at once may reach two members in opposite orders: the queue orders the
  messages and not their broadcasts, although `messenger_manager.h:18` "Guarantees that
  messages will be broadcast in the order they were received."
* The second message to a participant that quit without a word ends the coordinator
  with SIGPIPE, and the second one to a client that left ends a message-passing server.
* `Receive` loses bytes when it returns early: a timeout drops the part of the message
  its parser holds, so the rest is parsed as the length of another message; and the
  pieces left in the local copy of the saved messages are dropped by any return.
  `OnlyReturnsLose` admits exactly these losses.
* If the server task fails (`accept()` without a free descriptor), its senders are
  cancelled and a `Send` that waits is never answered.
* `~Server` waits for the task's status, which is `CANCELLED` before `CleanUp` has closed
  the port, although `server.cpp:41` says "so we don't leave open ports before
  returning."
* `CleanUp` closes the descriptor of each client twice, once per task; another thread of
  the process may have got the number in between. (`Server` has no such thread.)
* `GetTaskStatus` reports `CANCELLED` while `CleanUp()` is still to run, although
  `thread_pool_interface.h:34` suggests it to verify that the task has exited.
* A participant has its id before it is entered. If it disconnects at once, its
  registration may complete after the disconnect and leave a connected participant
  without a messenger (without the exception of `overtaken` ids, `ConnectedHasMessenger`
  is violated).
* A reconnection stores the new descriptor only in the handler's copy, so a later
  deregistration closes the old descriptor and the current one stays open.
* `GenerateID` resets `duplicate` only inside the loop over the connected
  participants: if an id was taken and then everybody disconnects, it never returns.
* A waiter for a file that is free may sleep until the next unlock of any other
  file, because one condition variable serves all files. It is woken in the end
  (`OperationsEnd`).

FTP:

* A put stores a serialized `FileContents` message (`client.cpp:155-158`), so what a get
  brings back is not the file that was put.
* After a put is terminated its remaining chunks are read as requests. Most parse as nothing
  and end the session; one whose data looks like a name is a get.
* Two commands may share an id: `id_++` is not locked, and an id is inserted only after it
  was drawn. A terminate then stops both, the end of one looks to the other like a
  termination, and an insertion revives a terminated command.
* A put that is terminated or broken off, or whose result is not looked at
  (`agent.cpp:249`), leaves an empty file in place of the old one.
* The download of an empty or missing file never ends: no chunk is sent for it.
* `WaitForMessage` drops chunks that arrive with the response, so a get may lose its first
  chunks. A request typed during `put &` is read as a chunk, and as the end of the file.
* A terminated put drops what `CleanUp()` receives, for as long as each `recv()` ends inside a
  message: more chunks than the termination should let through, and the next request, if it
  is among them.
* A download that was cancelled or has ended may still be in `CleanUp()` when the next command
  is typed, and then takes and drops its response; the shell waits for ever.
* When a download is cancelled and its terminate was lost or named another id, nobody reads
  what the agent sends: it stays in `send()` until the client leaves, and the client's next
  request is not read.
* `CleanUp()` ends when `recv()` fails, not when it returns 0: if the connection ends inside
  the message it holds a part of, it never ends (`chunked_file_receiver.cpp:84`).
* Only a get sets `r_old`: a terminate cancels the last download, never an upload.
* A client that quits during a transfer may end the whole server with SIGPIPE. `ls` in a
  directory that does not exist and the removal of a directory that is not empty end it with
  an exception. The removal of a missing file ends the session.

Participant:

* `disconnect`, `deregister` and `quit` wait for the receiver for ever while it is in
  `accept()` and nobody connects; and when a request cannot be sent, `Start` returns with the
  console task in `Pop()`, so the program never ends. `CommandsReturn` excepts these two.
* A register while connected is refused only after it was sent: `participant_id_` is
  overwritten, and the coordinator connects to the port once more. The next receiver may accept
  that connection instead of its own (`IdNamesConnection` excepts it).
* What a receiver has received and not yet logged when it is cancelled is lost.
* `WaitForCompletion(task)` returns before `CleanUp` has closed the port, so the coordinator's
  next connection may go to the listener that is about to close.

## 6. What is not modelled

* `message_passing::Client`: its `Send` waits as `Server`'s does, with one queue and one
  sender. Composed with `Server` it would say what a reconnection does to a queued message.
* The name server. Its code is unfinished: every message is sent bare and parsed as a
  `BootstrapMessage` or `NameServerMessage`, in which no field is then set (the FIXME at
  `bootstrap.cpp:25`), so no server enters the ring; `id_` is never set; keys are written to
  places that empty repeated fields do not have; the middle of a range wraps below zero
  (`nameserver.cpp:266`). What is left is a bootstrap server alone, which is sequential.
* Argument and configuration handling, the text of command lines, logging, and the code that
  protobuf generates. `ChangeDir`, `UpDir`, `List` and `GetCurrentDir` touch nothing that is
  shared; `FtpServer` keeps only how they end.
* A message that arrives in pieces is modelled in `Receiving` only; FTP and the participant
  read whole messages, apart from the parts that make `CleanUp()` go on. What follows when a
  connection ends, or a `recv()` times out, inside a message is left out there, and so is a
  connection that is reset.
