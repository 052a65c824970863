------------------------------- MODULE Server -------------------------------
(***************************************************************************)
(* message_passing::Server with its ServerTask and the tasks of its        *)
(* clients (src/common/message_passing: server.cpp, tasks/server_task.cpp, *)
(* tasks/sender_task.cpp).  The server task accepts clients and starts a   *)
(* sender and a receiver for each; Send() puts a message on the queue of   *)
(* its destination's sender and waits for the result.                      *)
(*                                                                         *)
(* A descriptor is a number: close() frees it and accept() takes the       *)
(* lowest free one.  The tasks are run by ThreadPool, and the queues have  *)
(* no limit (module Queue), so a Push or a Pop is one step.  Each client   *)
(* connects once: another connection has another port, hence another       *)
(* endpoint.  What the receivers read is in module Receiving.              *)
(***************************************************************************)
EXTENDS Integers, SequencesExt, FiniteSets

CONSTANTS
    Clients, NoClient,
    Callers,        \* threads that call Send() and SendAsync()
    MaxFd,          \* bound: descriptors for clients
    MaxSends        \* bound: messages

ASSUME ServerAssumption ==
    /\ NoClient \notin Clients /\ IsFiniteSet(Clients)
    /\ MaxFd \in Nat /\ MaxSends \in Nat

Fd == 1..MaxFd
NoFd == 0
MessageId == 1..MaxSends
NoMessage == 0

VARIABLES
    peer,           \* the client's end of its connection
    backlog,        \* clients that connect and have not been accepted
    owner,          \* the client a descriptor is connected to
    listening,      \* server_socket_ is open
    pc, ret,        \* where ServerTask is, and what RunAtomic() returns
    status,         \* its status in the pool
    new_client,     \* client_endpoint
    cancelled,      \* tasks cancelled, the server task included
    tasks,          \* tasks_
    fd,             \* of the tasks of a client
    running,        \* tasks of clients that have not ended
    send_queues, queue,     \* the keys of send_queues_, and each client's queue
    spc, smsg,      \* where each SenderTask is, and its message
    message_id, send_results,
    call,           \* where each caller is
    messages,       \* [to, async] of each message
    returned,       \* what Send() returned for it
    written,        \* what was written to each client's connection
    destructor,
    killed          \* SIGPIPE has ended the process

net == <<peer, backlog, owner, listening>>
server == <<pc, ret, status, new_client, cancelled, tasks, fd, running, send_queues>>
senders == <<queue, spc, smsg>>
calls == <<message_id, send_results, call, messages, returned>>
vars == <<net, server, senders, calls, written, destructor, killed>>

ServerTask == <<"server", NoClient>>
SenderTask(c) == <<"sender", c>>
ReceiverTask(c) == <<"receiver", c>>
ClientTask == {"sender", "receiver"} \X Clients
Result == {"none", "sent", "failed"}

(* The members hold values of their types, and every task that runs for a   *)
(* client is in tasks_, where CleanUp will find it.                         *)
TypeOK ==
    /\ peer \in [Clients -> {"away", "open", "closed", "reset"}]
    /\ backlog \subseteq Clients
    /\ owner \in [Fd -> Clients \cup {NoClient}] /\ listening \in BOOLEAN
    /\ pc \in {"set_up", "close_disconnected", "accept", "callback", "update",
               "cancel_tasks", "close", "ended"}
    /\ ret \in {"RUNNING", "FAILED"} /\ status \in {"RUNNING", "FAILED", "CANCELLED"}
    /\ new_client \in Clients \cup {NoClient}
    /\ cancelled \subseteq ClientTask \cup {ServerTask}
    /\ tasks \subseteq ClientTask /\ running \subseteq tasks
    /\ fd \in [Clients -> Fd \cup {NoFd}]
    /\ send_queues \subseteq Clients /\ queue \in [Clients -> Seq(MessageId)]
    /\ spc \in [Clients -> {"pop", "send", "callback"}]
    /\ smsg \in [Clients -> [id : MessageId \cup {NoMessage}, result : Result]]
    /\ message_id \in 0..MaxSends /\ send_results \in [MessageId -> Result]
    /\ call \in [Callers -> [at : {"idle", "push", "wait"}, id : MessageId \cup {NoMessage}]]
    /\ messages \in [MessageId -> [to : Clients \cup {NoClient}, async : BOOLEAN]]
    /\ returned \in [MessageId -> Result]
    /\ written \in [Clients -> Seq(MessageId)]
    /\ destructor \in {"none", "waiting", "returned"}
    /\ killed \in BOOLEAN

NotInSend == [id |-> NoMessage, result |-> "none"]
NotCalling == [at |-> "idle", id |-> NoMessage]

(* The constructor has added the server task to the pool. *)
Init ==
    /\ peer = [c \in Clients |-> "away"] /\ backlog = {}
    /\ owner = [f \in Fd |-> NoClient] /\ listening = FALSE
    /\ pc = "set_up" /\ ret = "RUNNING" /\ status = "RUNNING" /\ new_client = NoClient
    /\ cancelled = {} /\ tasks = {} /\ running = {} /\ send_queues = {}
    /\ fd = [c \in Clients |-> NoFd] /\ queue = [c \in Clients |-> <<>>]
    /\ spc = [c \in Clients |-> "pop"] /\ smsg = [c \in Clients |-> NotInSend]
    /\ message_id = 0 /\ send_results = [i \in MessageId |-> "none"]
    /\ call = [k \in Callers |-> NotCalling]
    /\ messages = [i \in MessageId |-> [to |-> NoClient, async |-> FALSE]]
    /\ returned = [i \in MessageId |-> "none"]
    /\ written = [c \in Clients |-> <<>>]
    /\ destructor = "none" /\ killed = FALSE

-----------------------------------------------------------------------------
(* Clients. *)

Connects(c) ==
    /\ ~killed /\ listening /\ peer[c] = "away"
    /\ peer' = [peer EXCEPT ![c] = "open"]
    /\ backlog' = backlog \cup {c}
    /\ UNCHANGED <<owner, listening, server, senders, calls, written, destructor, killed>>

Disconnects(c) ==
    /\ ~killed /\ peer[c] = "open"
    /\ peer' = [peer EXCEPT ![c] = "closed"]
    /\ UNCHANGED <<backlog, owner, listening, server, senders, calls, written, destructor, killed>>

-----------------------------------------------------------------------------
(* ServerTask, in a thread of the pool. *)

At(label) == pc = label /\ ~killed

(* Lines 88-97. *)
SetUp ==
    /\ At("set_up")
    /\ \/ listening' = TRUE /\ ret' = "RUNNING"
       \/ listening' = FALSE /\ ret' = "FAILED"
    /\ pc' = "update"
    /\ UNCHANGED <<peer, backlog, owner, status, new_client, cancelled, tasks, fd, running,
                   send_queues, senders, calls, written, destructor, killed>>

Close(fds) == owner' = [f \in Fd |-> IF f \in fds THEN NoClient ELSE owner[f]]

(* Mutant: a client is forgotten as soon as one of its tasks has ended. *)
DeletableClients == {t \in tasks : \E u \in tasks \ running : u[2] = t[2]}

(* Lines 157-167: the tasks whose status is not RUNNING. *)
Deletable == tasks \ running

(* CloseDisconnected. *)
CloseDisconnected ==
    /\ At("close_disconnected")
    /\ Close({fd[t[2]] : t \in Deletable})
    /\ tasks' = tasks \ Deletable
    /\ pc' = "accept"
    /\ UNCHANGED <<peer, backlog, listening, ret, status, new_client, cancelled, fd, running,
                   send_queues, senders, calls, written, destructor, killed>>

FreeFds == {f \in Fd : owner[f] = NoClient}

(* RunAtomic, lines 104-126: accept() and the tasks of the client. *)
Accept(c) ==
    /\ At("accept") /\ c \in backlog /\ FreeFds # {}
    /\ backlog' = backlog \ {c}
    /\ owner' = [owner EXCEPT ![Min(FreeFds)] = c]
    /\ fd' = [fd EXCEPT ![c] = Min(FreeFds)]
    /\ running' = running \cup {SenderTask(c), ReceiverTask(c)}
    /\ tasks' = tasks \cup {SenderTask(c), ReceiverTask(c)}
    /\ new_client' = c
    /\ pc' = "callback"
    /\ UNCHANGED <<peer, listening, ret, status, cancelled, send_queues, senders, calls,
                   written, destructor, killed>>

(* The time is up, or select() or accept() has failed, as the latter does   *)
(* when no descriptor is left.                                              *)
AcceptFails ==
    /\ At("accept")
    /\ \/ backlog = {} /\ ret' = "RUNNING"
       \/ ret' = "FAILED"
    /\ pc' = "update"
    /\ UNCHANGED <<net, status, new_client, cancelled, tasks, fd, running, send_queues,
                   senders, calls, written, destructor, killed>>

(* Line 129: new_client_callback_, server.cpp:17-23. *)
NewClientCallback ==
    /\ At("callback")
    /\ send_queues' = send_queues \cup {new_client}
    /\ ret' = "RUNNING" /\ pc' = "update" /\ new_client' = NoClient
    /\ UNCHANGED <<net, status, cancelled, tasks, fd, running, senders, calls, written,
                   destructor, killed>>

(* ThreadPool::UpdateTaskStatus. *)
UpdateTaskStatus ==
    /\ At("update")
    /\ status' = IF ServerTask \in cancelled THEN "CANCELLED" ELSE ret
    /\ pc' = IF status' = "RUNNING" THEN "close_disconnected" ELSE "cancel_tasks"
    /\ UNCHANGED <<net, ret, new_client, cancelled, tasks, fd, running, send_queues, senders,
                   calls, written, destructor, killed>>

(* CleanUp, lines 138-140. *)
CleanUpCancels ==
    /\ At("cancel_tasks")
    /\ cancelled' = cancelled \cup tasks
    /\ pc' = "close"
    /\ UNCHANGED <<net, ret, status, new_client, tasks, fd, running, send_queues, senders,
                   calls, written, destructor, killed>>

(* Lines 144-146. *)
TaskFds == {fd[t[2]] : t \in tasks}

(* Lines 144-149; clients that were not accepted are refused. *)
CleanUpCloses ==
    /\ At("close")
    /\ Close(TaskFds)
    /\ listening' = FALSE /\ backlog' = {}
    /\ pc' = "ended"
    /\ UNCHANGED <<peer, ret, status, new_client, cancelled, tasks, fd, running, send_queues,
                   senders, calls, written, destructor, killed>>

ServerRuns ==
    \/ SetUp \/ CloseDisconnected \/ (\E c \in Clients : Accept(c)) \/ AcceptFails
    \/ NewClientCallback \/ UpdateTaskStatus \/ CleanUpCancels \/ CleanUpCloses

-----------------------------------------------------------------------------
(* The tasks of a client. *)

(* A ReceiverTask ends when its client has gone, or when it was cancelled    *)
(* and recv() has returned, if only because its descriptor was closed.       *)
ReceiverEnds(c) ==
    /\ ~killed /\ ReceiverTask(c) \in running
    /\ peer[c] # "open" \/ ReceiverTask(c) \in cancelled
    /\ running' = running \ {ReceiverTask(c)}
    /\ UNCHANGED <<net, pc, ret, status, new_client, cancelled, tasks, fd, send_queues,
                   senders, calls, written, destructor, killed>>

(* A cancelled SenderTask ends between two rounds of RunAtomic(). *)
SenderEnds(c) ==
    /\ ~killed /\ SenderTask(c) \in running /\ spc[c] = "pop"
    /\ SenderTask(c) \in cancelled
    /\ running' = running \ {SenderTask(c)}
    /\ UNCHANGED <<net, pc, ret, status, new_client, cancelled, tasks, fd, send_queues,
                   senders, calls, written, destructor, killed>>

SenderAt(c, label) == ~killed /\ SenderTask(c) \in running /\ spc[c] = label

(* SenderTask::RunAtomic, lines 31-34. *)
SenderPops(c) ==
    /\ SenderAt(c, "pop") /\ queue[c] # <<>>
    /\ queue' = [queue EXCEPT ![c] = Tail(@)]
    /\ smsg' = [smsg EXCEPT ![c] = [id |-> Head(queue[c]), result |-> "none"]]
    /\ spc' = [spc EXCEPT ![c] = "send"]
    /\ UNCHANGED <<net, server, calls, written, destructor, killed>>

(* The client the descriptor of c's sender is connected to now. *)
Connected(c) == owner[fd[c]]

(* Mutant: the result is reported also if the message goes back. *)
RetryAndReport == "callback"

(* Lines 40-46. *)
AfterRetry == "pop"

(* Lines 40-46: send() timed out, and the message goes back to the queue.    *)
(* No socket of the repository has a send timeout today (utils.cpp sets the   *)
(* one of recv() only); the branch is modelled as the code has it.            *)
SendTimesOut(c) ==
    /\ SenderAt(c, "send") /\ Connected(c) # NoClient
    /\ queue' = [queue EXCEPT ![c] = Append(@, smsg[c].id)]
    /\ spc' = [spc EXCEPT ![c] = AfterRetry]
    /\ smsg' = [smsg EXCEPT ![c] =
                  IF AfterRetry = "pop" THEN NotInSend ELSE [@ EXCEPT !.result = "failed"]]
    /\ UNCHANGED <<net, server, calls, written, destructor, killed>>

(* Mutant: a result is also reported when nobody waits for it. *)
AlwaysReports(c) == TRUE

(* Line 53. *)
Reports(c) == ~messages[smsg[c].id].async

(* Mutant: a task whose send failed ends, as a receiver does. *)
EndsOnFailure(c, result) == result = "failed"

(* Lines 49-57: RUNNING, whatever send() returned. *)
SenderFails(c, result) == FALSE

(* Lines 36-57.  The first write after the client has gone succeeds, and the *)
(* next one raises SIGPIPE.                                                  *)
SendMessage(c) ==
    LET d == Connected(c)
        result == IF d = NoClient THEN "failed" ELSE "sent"
    IN  /\ SenderAt(c, "send")
        /\ killed' = (d # NoClient /\ peer[d] = "reset")
        /\ written' = IF result = "sent" /\ ~killed'
                      THEN [written EXCEPT ![d] = Append(@, smsg[c].id)] ELSE written
        /\ peer' = IF d # NoClient /\ peer[d] = "closed"
                   THEN [peer EXCEPT ![d] = "reset"] ELSE peer
        /\ smsg' = [smsg EXCEPT ![c] = IF Reports(c) THEN [@ EXCEPT !.result = result] ELSE NotInSend]
        /\ spc' = [spc EXCEPT ![c] = IF Reports(c) THEN "callback" ELSE "pop"]
        /\ running' = IF SenderFails(c, result) THEN running \ {SenderTask(c)} ELSE running
        /\ UNCHANGED <<backlog, owner, listening, pc, ret, status, new_client, cancelled,
                       tasks, fd, send_queues, queue, calls, destructor>>

(* Line 55: send_callback_, server.cpp:25-32. *)
SendCallback(c) ==
    /\ ~killed /\ spc[c] = "callback"
    /\ send_results' = [send_results EXCEPT ![smsg[c].id] = smsg[c].result]
    /\ spc' = [spc EXCEPT ![c] = "pop"] /\ smsg' = [smsg EXCEPT ![c] = NotInSend]
    /\ UNCHANGED <<net, server, queue, message_id, call, messages, returned, written,
                   destructor, killed>>

-----------------------------------------------------------------------------
(* Calls of the server's user. *)

(* Lines 124-133. *)
EnsureConnected == status = "RUNNING"

(* DispatchSend, lines 79-93: a call that finds the server task ended        *)
(* returns -1 at once and changes nothing.                                   *)
Send(k, c, async) ==
    /\ ~killed /\ destructor = "none"
    /\ call[k].at = "idle" /\ EnsureConnected /\ message_id < MaxSends
    /\ message_id' = message_id + 1
    /\ messages' = [messages EXCEPT ![message_id'] = [to |-> c, async |-> async]]
    /\ call' = [call EXCEPT ![k] = [at |-> "push", id |-> message_id']]
    /\ UNCHANGED <<net, server, senders, send_results, returned, written, destructor, killed>>

(* Lines 86-89: the message cannot be serialized; its id is used up. *)
SerializeFails(k) ==
    /\ ~killed /\ destructor = "none"
    /\ call[k].at = "idle" /\ EnsureConnected /\ message_id < MaxSends
    /\ message_id' = message_id + 1
    /\ returned' = [returned EXCEPT ![message_id'] = "failed"]
    /\ UNCHANGED <<net, server, senders, send_results, call, messages, written, destructor, killed>>

Destination(k) == messages[call[k].id].to

(* Lines 95-110, under send_queue_mutex_: the message goes to the sender of *)
(* its destination, or Send() returns -1 because there is none.             *)
DispatchSend(k) ==
    LET i == call[k].id
        known == Destination(k) \in send_queues
    IN  /\ ~killed /\ call[k].at = "push"
        /\ queue' = IF known THEN [queue EXCEPT ![Destination(k)] = Append(@, i)] ELSE queue
        /\ call' = [call EXCEPT ![k] =
                      IF known /\ ~messages[i].async THEN [@ EXCEPT !.at = "wait"] ELSE NotCalling]
        /\ returned' = IF known THEN returned ELSE [returned EXCEPT ![i] = "failed"]
        /\ UNCHANGED <<net, server, spc, smsg, message_id, send_results, messages, written,
                       destructor, killed>>

(* Lines 55-69: the result is there, and is erased. *)
SendReturns(k) ==
    LET i == call[k].id
    IN  /\ ~killed /\ call[k].at = "wait" /\ send_results[i] # "none"
        /\ returned' = [returned EXCEPT ![i] = send_results[i]]
        /\ send_results' = [send_results EXCEPT ![i] = "none"]
        /\ call' = [call EXCEPT ![k] = NotCalling]
        /\ UNCHANGED <<net, server, senders, message_id, messages, written, destructor, killed>>

(* ~Server(), lines 37-39; nobody may be in a call. *)
Destroy ==
    /\ ~killed /\ destructor = "none" /\ \A k \in Callers : call[k].at = "idle"
    /\ destructor' = "waiting"
    /\ cancelled' = cancelled \cup {ServerTask}
    /\ UNCHANGED <<net, pc, ret, status, new_client, tasks, fd, running, send_queues, senders,
                   calls, written, killed>>

(* Line 43: WaitForCompletion() returns. *)
DestroyReturns ==
    /\ ~killed /\ destructor = "waiting" /\ status # "RUNNING"
    /\ destructor' = "returned"
    /\ UNCHANGED <<net, server, senders, calls, written, killed>>

-----------------------------------------------------------------------------
Next ==
    \/ ServerRuns \/ Destroy \/ DestroyReturns
    \/ \E c \in Clients :
          \/ Connects(c) \/ Disconnects(c)
          \/ ReceiverEnds(c) \/ SenderEnds(c)
          \/ SenderPops(c) \/ SendTimesOut(c) \/ SendMessage(c) \/ SendCallback(c)
    \/ \E k \in Callers :
          \/ \E c \in Clients, async \in BOOLEAN : Send(k, c, async)
          \/ SerializeFails(k) \/ DispatchSend(k) \/ SendReturns(k)

Spec == Init /\ [][Next]_vars

-----------------------------------------------------------------------------
(* Where in what was written i is: a client and a place. *)
PlacesOf(i) == {e \in Clients \X MessageId :
                   e[2] <= Len(written[e[1]]) /\ written[e[1]][e[2]] = i}
Times(i) == Cardinality(PlacesOf(i))

(* A message is written at most once, however often its send is tried; it   *)
(* was if Send() reports success, and never will be if it reports failure   *)
(* (sender_task.cpp:36-57, server.cpp:44-69).                               *)
ResultTellsTruth ==
    \A i \in MessageId :
        /\ Times(i) <= 1
        /\ returned[i] = "sent" => Times(i) = 1
        /\ returned[i] = "failed" => Times(i) = 0

(* A result is kept only for a call that waits for it, so send_results_ does *)
(* not grow and no call gets the result of another (server.cpp:57-66).       *)
ResultsAreCollected ==
    \A i \in MessageId :
        send_results[i] # "none" => \E k \in Callers : call[k] = [at |-> "wait", id |-> i]

(* While the server runs, nobody closes the descriptor a receiver reads     *)
(* from, although the senders of clients that left still have its number;   *)
(* and when it has cleaned up, none is open (server_task.cpp:134-173).      *)
DescriptorsAreKept ==
    /\ pc # "ended" => \A c \in Clients : ReceiverTask(c) \in running => owner[fd[c]] = c
    /\ pc = "ended" => \A f \in Fd : owner[f] = NoClient

(* A Send() that waits has its result, or a sender that will report it: the *)
(* message is in the queue or the hands of the destination's sender, which   *)
(* goes on as long as the server task does, also for a client that has left *)
(* (sender_task.cpp:28-58, server.cpp:55-62).                                *)
WaitersAreServed ==
    \A k \in Callers : call[k].at = "wait" =>
        LET i == call[k].id
            c == Destination(k)
        IN  \/ send_results[i] # "none"
            \/ /\ i \in Range(queue[c]) \/ smsg[c].id = i
               /\ SenderTask(c) \in running \/ status # "RUNNING"

(* Calls and results meet: every result has its waiting call, and every     *)
(* waiting call has its result or somebody who will bring it.               *)
ResultsMeetCalls == ResultsAreCollected /\ WaitersAreServed

(* server.h:43-45: a message goes to its destination; Send() "Will also return *)
(* -1 if the specified node is not connected."                                *)
SentToDestination ==
    \A c \in Clients : \A n \in DOMAIN written[c] : messages[written[c][n]].to = c
=============================================================================
