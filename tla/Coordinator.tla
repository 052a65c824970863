---------------------------- MODULE Coordinator ----------------------------
(***************************************************************************)
(* The coordinator of project 3 (src/project3/coordinator): a CoordinatorTask*)
(* per accepted connection reads one request and handles it, all tasks at  *)
(* the same time, over the shared ParticipantManager, MessengerManager,    *)
(* MessageLog and message queue.  Every call that takes a mutex of one of  *)
(* those is one step; nothing is locked from one call to the next.         *)
(*                                                                         *)
(* A message is the task that received it.  A file descriptor to a         *)
(* participant is a connection of its own, named by whoever made it; a     *)
(* descriptor number is not reused.                                        *)
(***************************************************************************)
EXTENDS Integers, Sequences, FiniteSets

CONSTANTS
    Participants,   \* participant processes
    Members,        \* those that have registered before the first step
    Active,         \* those that make requests; the others only receive
    Tasks,          \* bound: the connections the driver accepts
    Requests,       \* the kinds of request made
    Quitters,       \* participants that may close the connection they receive on
    NoFd,           \* a descriptor that is not a connection: 0 or uninitialized
    IdModulus,      \* 2^32 in the program
    Threshold,      \* td_
    MaxTime         \* bound: the clock

RequestKinds == {"register", "deregister", "disconnect", "reconnect", "multicast"}

ASSUME SetsAssumption ==
    /\ IsFiniteSet(Participants) /\ IsFiniteSet(Tasks)
    /\ Participants \cap Tasks = {} /\ NoFd \notin Participants \cup Tasks
    /\ Members \subseteq Participants /\ Active \subseteq Participants
    /\ Quitters \subseteq Participants
    /\ Requests \subseteq RequestKinds
ASSUME NumbersAssumption ==
    /\ IdModulus \in Nat /\ IdModulus > Cardinality(Members) + Cardinality(Tasks)
    /\ Threshold \in Nat /\ MaxTime \in Nat \ {0}

VARIABLES
    id_,            \* Coordinator::id_
    id_to_participant,
    connected_participants,
    messengers,     \* the Messenger objects in messengers_
    messenger,      \* their participant_: a copy made when they were created
    msg_queue,
    coordinator_messages,   \* when each message was logged; 0: it was not
    now,            \* steady_clock
    open,           \* the descriptors of the coordinator that are open
    peer,           \* the other end of each connection
    sent,           \* what has reached the other end
    pc, loc,        \* where each task is, and its locals
    my_id,          \* participant_id_ of each participant; 0 before it registers
    killed,         \* SIGPIPE or a freed messenger has ended the coordinator
    overtaken       \* history: ids that a request to leave found unknown

manager == <<id_to_participant, connected_participants>>
mgr == <<messengers, messenger>>
net == <<open, peer, sent>>
vars == <<id_, manager, mgr, msg_queue, coordinator_messages, now, net, pc, loc, my_id, killed, overtaken>>

Id == 0..(IdModulus - 1)
Makers == Participants \cup Tasks
Fd == Makers \cup {NoFd}
Time == 0..MaxTime
Participant == [id : Id, sock_fd : Fd, disconnect_time : Time]
Unknown == [known : {FALSE}, connected : {FALSE}, sock_fd : {NoFd}, disconnect_time : {0}]
Known == [known : {TRUE}, connected : BOOLEAN, sock_fd : Makers, disconnect_time : Time]

(* When the members registered, earlier than the first reading of the clock; *)
(* no message is older, so the epoch is the same time.                       *)
StartTime == 0

(* A value-initialized Participant{} and an absent key of id_to_participant_. *)
NoParticipant == [id |-> 0, sock_fd |-> NoFd, disconnect_time |-> 0]
Absent == [known |-> FALSE, connected |-> FALSE, sock_fd |-> NoFd, disconnect_time |-> 0]

(* The locals of a task that has not begun or has ended. *)
NoLocals ==
    [kind |-> "none", by |-> NoFd, id |-> 0, participant |-> NoParticipant,
     duplicate |-> FALSE, messenger |-> NoFd, msg |-> NoFd, todo |-> {}, missed |-> {},
     reconnection_time |-> 0]

(* The members hold values of their types; a participant that is known has a *)
(* connection, whatever became of the attempts to connect to it.             *)
TypeOK ==
    /\ id_ \in Id
    /\ id_to_participant \in [Id -> Unknown \cup Known]
    /\ connected_participants \subseteq Id
    /\ messengers \subseteq Makers /\ messenger \in [Makers -> Participant]
    /\ msg_queue \in Seq(Tasks)
    /\ coordinator_messages \in [Tasks -> Time]
    /\ now \in Time
    /\ open \subseteq Makers
    /\ peer \in [Makers -> {"none", "open", "closed", "reset"}]
    /\ sent \in [Makers -> Seq(Tasks)]
    /\ pc \in [Tasks -> {"idle", "generate", "increment", "check", "id", "respond", "connect",
                         "enter", "add", "find", "find_messenger", "copy", "leave", "close",
                         "delete", "clock", "missed", "send_missed", "push", "pop", "next", "send", "log", "done"}]
    /\ loc \in [Tasks ->
          [kind : RequestKinds \cup {"none"}, by : Participants \cup {NoFd}, id : Id,
           participant : Participant, duplicate : BOOLEAN, messenger : Fd,
           msg : Tasks \cup {NoFd}, todo : SUBSET Makers, missed : SUBSET Tasks,
           reconnection_time : Time]]
    /\ my_id \in [Participants -> Id]
    /\ killed \in BOOLEAN
    /\ overtaken \subseteq Id

(* The members have registered, in some order, and nothing else has happened. *)
Init ==
    /\ \E ids \in [Members -> 1..Cardinality(Members)] :
          /\ \A p, q \in Members : ids[p] = ids[q] => p = q
          /\ my_id = [p \in Participants |-> IF p \in Members THEN ids[p] ELSE 0]
          /\ id_to_participant = [i \in Id |->
                IF \E p \in Members : ids[p] = i
                THEN [known |-> TRUE, connected |-> TRUE, disconnect_time |-> StartTime,
                      sock_fd |-> CHOOSE p \in Members : ids[p] = i]
                ELSE Absent]
          /\ messenger = [x \in Makers |->
                IF x \in Members
                THEN [id |-> ids[x], sock_fd |-> x, disconnect_time |-> StartTime]
                ELSE NoParticipant]
    /\ connected_participants = 1..Cardinality(Members)
    /\ id_ = Cardinality(Members)
    /\ messengers = Members
    /\ msg_queue = <<>>
    /\ coordinator_messages = [m \in Tasks |-> 0]
    /\ now = StartTime + 1
    /\ open = Members
    /\ peer = [x \in Makers |-> IF x \in Members THEN "open" ELSE "none"]
    /\ sent = [x \in Makers |-> <<>>]
    /\ pc = [t \in Tasks |-> "idle"] /\ loc = [t \in Tasks |-> NoLocals]
    /\ killed = FALSE
    /\ overtaken = {}

-----------------------------------------------------------------------------
(* steady_clock::now(): the clock may or may not have moved on. *)
ReadClock == now' \in {now, now + 1} \cap Time

At(t, label) == pc[t] = label /\ ~killed
Goto(t, label) == pc' = [pc EXCEPT ![t] = label]

(* The request is handled: the task ends, and its locals with it. *)
Ended(t) == [NoLocals EXCEPT !.kind = loc[t].kind, !.by = loc[t].by]
Done(t) == Goto(t, "done") /\ loc' = [loc EXCEPT ![t] = Ended(t)]

InProgress(t) == pc[t] \notin {"idle", "done"}

(* Participant::Start waits for the answer to a Register (participant.cpp:46). *)
AwaitsResponse(p) ==
    \E t \in Tasks :
        pc[t] \in {"generate", "increment", "check", "id", "respond"} /\ loc[t].by = p /\ loc[t].kind = "register"

(* The order participants keep among their requests.  Other requests are    *)
(* sent without waiting for the coordinator.                                *)
MayRequest(p, kind) ==
    /\ kind = "register" \/ my_id[p] # 0
    /\ ~AwaitsResponse(p)

FirstLabel ==
    [register |-> "generate", deregister |-> "find", disconnect |-> "find",
     reconnect |-> "find", multicast |-> "push"]

(* CoordinatorDriver::Start accepts a connection and adds a task for it,    *)
(* which reads the request and dispatches on it.                            *)
Accept(t, p, kind) ==
    /\ At(t, "idle") /\ MayRequest(p, kind)
    /\ loc' = [loc EXCEPT ![t].kind = kind, ![t].by = p, ![t].id = my_id[p]]
    /\ Goto(t, FirstLabel[kind])
    /\ UNCHANGED <<id_, manager, mgr, msg_queue, coordinator_messages, now, net, my_id, killed, overtaken>>

(* The participant sends nothing, or what cannot be parsed: ReadNextMessage *)
(* or DispatchMessage gives up.                                             *)
AcceptNothing(t) ==
    /\ At(t, "idle")
    /\ Done(t)
    /\ UNCHANGED <<id_, manager, mgr, msg_queue, coordinator_messages, now, net, my_id, killed, overtaken>>

(* The receiving end of a connection goes away, as when its process quits. *)
PeerCloses(x) ==
    /\ peer[x] = "open" /\ ~killed
    /\ (IF x \in Tasks THEN loc[x].by ELSE x) \in Quitters
    /\ peer' = [peer EXCEPT ![x] = "closed"]
    /\ UNCHANGED <<id_, manager, mgr, msg_queue, coordinator_messages, now, open, sent,
                   pc, loc, my_id, killed, overtaken>>
-----------------------------------------------------------------------------
(* Sockets. *)

(* send() with flags 0 of m on fd: a descriptor that is not open fails, a   *)
(* connection whose peer is gone takes one message for nothing, and the     *)
(* next one raises SIGPIPE, which the program does not handle.              *)
Send(fd, m) ==
    /\ sent' = IF fd \in open /\ peer[fd] = "open"
               THEN [sent EXCEPT ![fd] = Append(@, m)] ELSE sent
    /\ peer' = IF fd \in open /\ peer[fd] = "closed"
               THEN [peer EXCEPT ![fd] = "reset"] ELSE peer
    /\ killed' = (fd \in open /\ peer[fd] = "reset")
    /\ UNCHANGED open

SendFails(fd) == fd \notin open

-----------------------------------------------------------------------------
(* MessengerManager. *)

(* The tasks that walk messengers_ without its mutex: BroadcastMessage      *)
(* (messenger_manager.cpp:31), and GetMessengers, which copies it (line 26).*)
Broadcasting(t) == pc[t] \in {"next", "send", "log"}
Iterators == {s \in Tasks : Broadcasting(s) \/ pc[s] = "copy"}

(* A walk that another task has changed under it.  An insertion may rehash, *)
(* so the rest of the walk may leave out or repeat anybody.  An erased      *)
(* element is left out of a broadcast, unless the loop is at it: then its   *)
(* successor is read from freed memory.  A copy may have it or have been at *)
(* it.                                                                      *)
AfterInsertion(s) == {[loc[s] EXCEPT !.todo = rest] : rest \in SUBSET messengers'}
AfterErasure(s, erased) ==
    CASE erased = {} -> {loc[s]}
      [] pc[s] = "copy" -> {loc[s]} \cup AfterInsertion(s)
      [] Broadcasting(s) /\ loc[s].messenger \in erased -> AfterInsertion(s)
      [] OTHER -> {[loc[s] EXCEPT !.todo = @ \ erased]}

(* Who may be reading from the freed element. *)
AtErased(s, erased) == erased # {} /\ (pc[s] = "copy" \/ loc[s].messenger \in erased)

(* AddMessenger: the task's new messenger with a copy of its participant. *)
AddMessenger(t) ==
    /\ At(t, "add")
    /\ messengers' = messengers \cup {t}
    /\ messenger' = [messenger EXCEPT ![t] = loc[t].participant]
    /\ Goto(t, IF loc[t].kind = "register" THEN "done" ELSE "clock")
    /\ \E others \in [Iterators -> UNION {AfterInsertion(s) : s \in Iterators}] :
          /\ \A s \in Iterators : others[s] \in AfterInsertion(s)
          /\ loc' = [s \in Tasks |->
                IF s \in Iterators THEN others[s]
                ELSE IF s = t /\ loc[t].kind = "register" THEN Ended(t) ELSE loc[s]]
    /\ UNCHANGED <<id_, manager, msg_queue, coordinator_messages, now, net, my_id, killed, overtaken>>

(* Mutant: every messenger of the participant is deleted. *)
DeletedWithNamesakes(t) ==
    {x \in messengers : x = loc[t].messenger \/ messenger[x].id = loc[t].id}

(* Line 22 erases the messenger that DetermineMessenger found, if any. *)
Deleted(t) == messengers \cap {loc[t].messenger}

(* DeleteMessenger, and close(client_fd_): the request is handled. *)
DeleteMessenger(t) ==
    /\ At(t, "delete")
    /\ messengers' = messengers \ Deleted(t)
    /\ Goto(t, "done")
    /\ \E others \in [Iterators -> UNION {AfterErasure(s, Deleted(t)) : s \in Iterators}] :
          /\ \A s \in Iterators : others[s] \in AfterErasure(s, Deleted(t))
          /\ loc' = [s \in Tasks |->
                IF s \in Iterators THEN others[s] ELSE IF s = t THEN Ended(t) ELSE loc[s]]
    /\ killed' \in {FALSE, \E s \in Iterators : AtErased(s, Deleted(t))}
    /\ UNCHANGED <<id_, manager, messenger, msg_queue, coordinator_messages, now, net, my_id, overtaken>>

(* GetMessengers begins to copy the set. *)
GetMessengers(t) ==
    /\ At(t, "find_messenger")
    /\ loc' = [loc EXCEPT ![t].todo = messengers]
    /\ Goto(t, "copy")
    /\ UNCHANGED <<id_, manager, mgr, msg_queue, coordinator_messages, now, net, my_id, killed, overtaken>>

(* DetermineMessenger: some messenger of the participant in the copy, or null. *)
DetermineMessenger(t) ==
    /\ At(t, "copy")
    /\ LET found == {x \in loc[t].todo : messenger[x].id = loc[t].id}
       IN  \E x \in IF found = {} THEN {NoFd} ELSE found :
              loc' = [loc EXCEPT ![t].messenger = x, ![t].todo = {}]
    /\ Goto(t, "leave")
    /\ UNCHANGED <<id_, manager, mgr, msg_queue, coordinator_messages, now, net, my_id, killed, overtaken>>

-----------------------------------------------------------------------------
(* Registration. *)

(* Line 211. *)
NextId(n) == (n + 1) % IdModulus

(* id_++ has no lock and is not atomic: it reads the counter ... *)
GenerateID(t) ==
    /\ At(t, "generate")
    /\ loc' = [loc EXCEPT ![t].id = id_]
    /\ Goto(t, "increment")
    /\ UNCHANGED <<id_, manager, mgr, msg_queue, coordinator_messages, now, net, my_id, killed, overtaken>>

(* ... and writes it. *)
IncrementID(t) ==
    /\ At(t, "increment")
    /\ id_' = NextId(loc[t].id)
    /\ Goto(t, "check")
    /\ UNCHANGED <<manager, mgr, msg_queue, coordinator_messages, now, net, loc, my_id, killed, overtaken>>

(* Lines 213-222: duplicate keeps its value when nobody is connected. *)
CheckID(t) ==
    /\ At(t, "check")
    /\ LET duplicate == IF connected_participants = {} THEN loc[t].duplicate
                        ELSE id_ \in connected_participants
       IN  /\ loc' = [loc EXCEPT ![t].duplicate = duplicate]
           /\ Goto(t, IF duplicate THEN "generate" ELSE "id")
    /\ UNCHANGED <<id_, manager, mgr, msg_queue, coordinator_messages, now, net, my_id, killed, overtaken>>

(* Lines 224 and 122-126: the counter is read once more for the answer. *)
ReturnID(t) ==
    /\ At(t, "id")
    /\ ReadClock
    /\ loc' = [loc EXCEPT ![t].id = 0, ![t].participant =
          [id |-> id_, sock_fd |-> NoFd, disconnect_time |-> now']]
    /\ Goto(t, "respond")
    /\ UNCHANGED <<id_, manager, mgr, msg_queue, coordinator_messages, net, my_id, killed, overtaken>>

(* Lines 131-133: the participant has its answer before it is registered. *)
SendRegistrationResponse(t) ==
    /\ At(t, "respond")
    /\ my_id' = [my_id EXCEPT ![loc[t].by] = loc[t].participant.id]
    /\ Goto(t, "connect")
    /\ UNCHANGED <<id_, manager, mgr, msg_queue, coordinator_messages, now, net, loc, killed, overtaken>>

(* DetermineParticipant: a copy of what is known, or Participant{}. *)
DetermineParticipant(t) ==
    /\ At(t, "find")
    /\ LET i == loc[t].id
           p == id_to_participant[i]
       IN  /\ loc' = [loc EXCEPT ![t].participant =
              IF p.known
              THEN [id |-> i, sock_fd |-> p.sock_fd, disconnect_time |-> p.disconnect_time]
              ELSE NoParticipant]
           /\ overtaken' = IF p.known \/ loc[t].kind = "reconnect" THEN overtaken
                           ELSE overtaken \cup {i}
    /\ Goto(t, IF loc[t].kind = "reconnect" THEN "connect" ELSE "find_messenger")
    /\ UNCHANGED <<id_, manager, mgr, msg_queue, coordinator_messages, now, net, my_id, killed>>

(* Mutant: the result of ConnectToParticipant is ignored. *)
EnterAnyway == "enter"

(* registrar.cpp:118 and 131: without a connection the manager is not told. *)
AfterFailedConnect == "add"

(* ConnectToParticipant: three attempts; one to Participant{} has no address *)
(* and fails.  Only the local copy gets the new descriptor.                  *)
ConnectToParticipant(t) ==
    /\ At(t, "connect")
    /\ \/ /\ loc[t].kind = "register" \/ loc[t].participant.sock_fd # NoFd
          /\ open' = open \cup {t}
          /\ peer' = [peer EXCEPT ![t] = "open"]
          /\ loc' = [loc EXCEPT ![t].participant.sock_fd = t]
          /\ Goto(t, "enter")
       \/ /\ Goto(t, AfterFailedConnect)
          /\ UNCHANGED <<open, peer, loc>>
    /\ UNCHANGED <<id_, manager, mgr, msg_queue, coordinator_messages, now, sent, my_id, killed, overtaken>>

(* ParticipantManager::RegisterParticipant. *)
RegisterParticipant(t) ==
    /\ At(t, "enter") /\ loc[t].kind = "register"
    /\ LET p == loc[t].participant
       IN  /\ id_to_participant' = [id_to_participant EXCEPT ![p.id] =
                [known |-> TRUE, connected |-> TRUE, sock_fd |-> p.sock_fd,
                 disconnect_time |-> p.disconnect_time]]
           /\ connected_participants' = connected_participants \cup {p.id}
    /\ Goto(t, "add")
    /\ UNCHANGED <<id_, mgr, msg_queue, coordinator_messages, now, net, loc, my_id, killed, overtaken>>

(* ParticipantManager::ReconnectParticipant keeps the old descriptor. *)
ReconnectParticipant(t) ==
    /\ At(t, "enter") /\ loc[t].kind = "reconnect"
    /\ LET i == loc[t].participant.id
       IN  \/ /\ id_to_participant[i].known
              /\ id_to_participant' = [id_to_participant EXCEPT ![i].connected = TRUE]
              /\ connected_participants' = connected_participants \cup {i}
           \/ /\ ~id_to_participant[i].known
              /\ UNCHANGED manager
    /\ Goto(t, "add")
    /\ UNCHANGED <<id_, mgr, msg_queue, coordinator_messages, now, net, loc, my_id, killed, overtaken>>

(* ParticipantManager::DeregisterParticipant. *)
DeregisterParticipant(t) ==
    /\ At(t, "leave") /\ loc[t].kind = "deregister"
    /\ id_to_participant' = [id_to_participant EXCEPT ![loc[t].participant.id] = Absent]
    /\ connected_participants' = connected_participants \ {loc[t].participant.id}
    /\ Goto(t, "close")
    /\ UNCHANGED <<id_, mgr, msg_queue, coordinator_messages, now, net, loc, my_id, killed, overtaken>>

(* Registrar::DeregisterParticipant, registrar.cpp:141. *)
CloseSocket(t) ==
    /\ At(t, "close")
    /\ open' = open \ {loc[t].participant.sock_fd}
    /\ Goto(t, "delete")
    /\ UNCHANGED <<id_, manager, mgr, msg_queue, coordinator_messages, now, peer, sent, loc,
                   my_id, killed, overtaken>>

(* Mutant: the entry is not marked. *)
StillMarked(i) == [id_to_participant EXCEPT ![i].disconnect_time = now']

(* ParticipantManager::DisconnectParticipant, lines 48-51. *)
MarkDisconnected(i) ==
    [id_to_participant EXCEPT ![i].connected = FALSE, ![i].disconnect_time = now']

(* ParticipantManager::DisconnectParticipant. *)
DisconnectParticipant(t) ==
    /\ At(t, "leave") /\ loc[t].kind = "disconnect"
    /\ LET i == loc[t].participant.id
       IN  \/ /\ i \in connected_participants
              /\ ReadClock
              /\ id_to_participant' = MarkDisconnected(i)
              /\ connected_participants' = connected_participants \ {i}
           \/ /\ i \notin connected_participants
              /\ UNCHANGED <<manager, now>>
    /\ Goto(t, "delete")
    /\ UNCHANGED <<id_, mgr, msg_queue, coordinator_messages, net, loc, my_id, killed, overtaken>>

-----------------------------------------------------------------------------
(* Missed messages. *)

(* MessageLog::GetMissedMessages. *)
GetMissedMessages(disconnection_time, reconnection_time) ==
    {m \in Tasks :
        /\ coordinator_messages[m] # 0
        /\ coordinator_messages[m] > disconnection_time
        /\ reconnection_time - coordinator_messages[m] <= Threshold}

(* Line 180 of coordinator.cpp. *)
ReconnectionTime(t) ==
    /\ At(t, "clock")
    /\ ReadClock
    /\ loc' = [loc EXCEPT ![t].reconnection_time = now']
    /\ Goto(t, "missed")
    /\ UNCHANGED <<id_, manager, mgr, msg_queue, coordinator_messages, net, my_id, killed, overtaken>>

(* The range of the loop in Messenger::SendMissedMessages. *)
FindMissedMessages(t) ==
    /\ At(t, "missed")
    /\ loc' = [loc EXCEPT ![t].missed =
          GetMissedMessages(messenger[t].disconnect_time, loc[t].reconnection_time)]
    /\ Goto(t, "send_missed")
    /\ UNCHANGED <<id_, manager, mgr, msg_queue, coordinator_messages, now, net, my_id, killed, overtaken>>

(* One turn of that loop, in the order of an unordered_set; it ends when a  *)
(* send fails.                                                              *)
SendMissedMessages(t) ==
    /\ At(t, "send_missed")
    /\ \/ /\ loc[t].missed = {}
          /\ Done(t)
          /\ UNCHANGED <<net, killed>>
       \/ \E m \in loc[t].missed :
             /\ Send(messenger[t].sock_fd, m)
             /\ \/ SendFails(messenger[t].sock_fd) /\ Done(t)
                \/ /\ ~SendFails(messenger[t].sock_fd)
                   /\ loc' = [loc EXCEPT ![t].missed = @ \ {m}]
                   /\ UNCHANGED pc
    /\ UNCHANGED <<id_, manager, mgr, msg_queue, coordinator_messages, now, my_id, overtaken>>

-----------------------------------------------------------------------------
(* Multicast. *)

(* Mutant: the message is broadcast without being queued. *)
QueueWithout(m) == msg_queue

(* Line 199. *)
QueueWith(m) == Append(msg_queue, m)

Push(t) ==
    /\ At(t, "push")
    /\ msg_queue' = QueueWith(t)
    /\ Goto(t, "pop")
    /\ UNCHANGED <<id_, manager, mgr, coordinator_messages, now, net, loc, my_id, killed, overtaken>>

(* Mutant: the message stays in the queue. *)
QueueKept == msg_queue

QueueWithoutFirst == Tail(msg_queue)

(* Line 200, and the beginning of BroadcastMessage: the first message in    *)
(* the queue, which may be another task's.                                  *)
Pop(t) ==
    /\ At(t, "pop")
    /\ msg_queue # <<>>
    /\ loc' = [loc EXCEPT ![t].msg = Head(msg_queue), ![t].todo = messengers]
    /\ msg_queue' = QueueWithoutFirst
    /\ Goto(t, "next")
    /\ UNCHANGED <<id_, manager, mgr, coordinator_messages, now, net, my_id, killed, overtaken>>

(* Lines 31-33: the next messenger, if its participant is connected. *)
NextMessenger(t) ==
    /\ At(t, "next")
    /\ \/ loc[t].todo = {} /\ Done(t)
       \/ \E x \in loc[t].todo :
             /\ loc' = [loc EXCEPT ![t].todo = @ \ {x}, ![t].messenger = x]
             /\ Goto(t, IF messenger[x].id \in connected_participants THEN "send" ELSE "next")
    /\ UNCHANGED <<id_, manager, mgr, msg_queue, coordinator_messages, now, net, my_id, killed, overtaken>>

(* Line 34, Messenger::SendMessage; the result is not looked at. *)
SendMessage(t) ==
    /\ At(t, "send")
    /\ Send(messenger[loc[t].messenger].sock_fd, loc[t].msg)
    /\ Goto(t, IF coordinator_messages[loc[t].msg] = 0 THEN "log" ELSE "next")
    /\ UNCHANGED <<id_, manager, mgr, msg_queue, coordinator_messages, now, loc, my_id, overtaken>>

(* Lines 39-42, Messenger::LogMessage: after the first send only. *)
LogMessage(t) ==
    /\ At(t, "log")
    /\ ReadClock
    /\ coordinator_messages' = [coordinator_messages EXCEPT ![loc[t].msg] = now']
    /\ Goto(t, "next")
    /\ UNCHANGED <<id_, manager, mgr, msg_queue, net, loc, my_id, killed, overtaken>>

-----------------------------------------------------------------------------
HandleRegister(t) ==
    GenerateID(t) \/ IncrementID(t) \/ CheckID(t) \/ ReturnID(t)
        \/ SendRegistrationResponse(t) \/ RegisterParticipant(t)

HandleLeave(t) ==
    GetMessengers(t) \/ DetermineMessenger(t) \/ DeregisterParticipant(t) \/ CloseSocket(t)
        \/ DisconnectParticipant(t) \/ DeleteMessenger(t)

HandleReconnect(t) ==
    ReconnectParticipant(t) \/ ReconnectionTime(t) \/ FindMissedMessages(t)
        \/ SendMissedMessages(t)

HandleMulticast(t) == Push(t) \/ Pop(t) \/ NextMessenger(t) \/ SendMessage(t) \/ LogMessage(t)

Handle(t) ==
    \/ HandleRegister(t) \/ HandleLeave(t) \/ HandleReconnect(t) \/ HandleMulticast(t)
    \/ DetermineParticipant(t) \/ ConnectToParticipant(t) \/ AddMessenger(t)

Next ==
    \/ \E t \in Tasks, p \in Active, kind \in Requests : Accept(t, p, kind)
    \/ \E t \in Tasks : AcceptNothing(t) \/ Handle(t)
    \/ \E x \in Makers : PeerCloses(x)

Spec == Init /\ [][Next]_vars

(* The thread pool runs every task (AddedTaskStarts of module ThreadPool),  *)
(* connect() and send() return.                                             *)
FairSpec == Spec /\ \A t \in Tasks : WF_vars(Handle(t))

-----------------------------------------------------------------------------
(* The two records of who is connected agree, although four handlers change *)
(* them (participant_manager.cpp:11-75): the flag in id_to_participant_ and *)
(* the set that BroadcastMessage and GenerateID consult.                    *)
ManagerAgrees ==
    \A i \in Id : i \in connected_participants <=> id_to_participant[i].connected

(* Every connected participant has a messenger or is about to get one, so   *)
(* that a broadcast is to all active participants (messenger_manager.h:16), *)
(* also while it disconnects, reconnects or deregisters several times at    *)
(* once (coordinator.cpp:135-139, 147-150, 159-162 and 171-177) and while   *)
(* participants register under one id (lines 208-224).  One case is         *)
(* excepted, in which the code does lose the messenger: the answer to a     *)
(* registration is sent before the manager is told (line 132), and a        *)
(* request to leave that overtakes it finds nobody to take off the manager, *)
(* but deletes the messenger of the id that it finds later.                 *)
ConnectedHasMessenger ==
    \A i \in connected_participants \ overtaken :
        \/ \E x \in messengers : messenger[x].id = i
        \/ \E t \in Tasks : pc[t] = "add" /\ loc[t].participant.id = i

Count(s, m) == Cardinality({i \in DOMAIN s : s[i] = m})
Settled == ~killed /\ \A t \in Tasks : ~InProgress(t)

(* While nobody joins or leaves, every multicast reaches every member that  *)
(* is still there once, however the tasks exchange their messages in the    *)
(* queue (coordinator.cpp:199-201) and whoever has quit without a word      *)
(* (messenger_manager.cpp:31-44).                                           *)
EveryMessageOnce ==
    (\A t \in Tasks : loc[t].kind \in {"none", "multicast"}) =>
        \A p \in Members \ Quitters, m \in Tasks :
            /\ Count(sent[p], m) <= 1
            /\ Settled /\ loc[m].kind = "multicast" => Count(sent[p], m) = 1

(* The search for a free id looks at a flag that nothing will change while  *)
(* nobody is connected (lines 209 and 213-222).                             *)
SearchesInVain(t) == loc[t].duplicate /\ connected_participants = {}

(* Every request that was accepted is handled to its end: no task waits for *)
(* ever in Pop() because others took its message (coordinator.cpp:199-200), *)
(* and the search for a free id ends (lines 208-224), also when others      *)
(* search, join and leave at the same time.  The code does have one endless *)
(* search, which is excepted: the participants have left one after the      *)
(* other since the flag was set, and it keeps its last value.               *)
RequestsEnd ==
    \A t \in Tasks : InProgress(t) ~> (pc[t] = "done" \/ killed \/ SearchesInVain(t))

-----------------------------------------------------------------------------
(* What the documentation says and the code does not do. *)

(* messenger.h:44-45: "Sends all missed messages satisfying the time        *)
(* threshold to this messenger's participant."  When all is settled, a      *)
(* participant that has reconnected has been sent, on one of its            *)
(* connections, every message that was logged after it had disconnected.    *)
MissedMessagesAreSent ==
    Settled =>
        \A t \in messengers \cap Tasks, m \in Tasks :
            /\ messenger[t].id \in connected_participants /\ messenger[t].sock_fd = t
            /\ messenger[t].disconnect_time > StartTime
            /\ coordinator_messages[m] > messenger[t].disconnect_time
            => \E x \in open : messenger[x].id = messenger[t].id /\ Count(sent[x], m) > 0
=============================================================================
