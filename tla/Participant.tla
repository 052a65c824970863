---------------------------- MODULE Participant ----------------------------
(***************************************************************************)
(* A participant of project 3 (src/project3/participant): the thread that  *)
(* reads commands, the console task that prints, and the task that receives*)
(* the multicasts, on a pool of threads.  The user always names one port.  *)
(*                                                                         *)
(* The coordinator is external: it answers a register, connects to the     *)
(* port if somebody listens on it, sends multicasts on what it has         *)
(* connected, may close a connection whose participant leaves, and may go  *)
(* away.  A request, the connection made for it and the registration it    *)
(* asks for have the request's number.                                     *)
(***************************************************************************)
EXTENDS Integers, FiniteSets

CONSTANTS
    MaxCommands,    \* bound: the commands the user types
    MaxMessages     \* bound: the multicasts sent on one connection

ASSUME BoundsAssumption == MaxCommands \in Nat \ {0} /\ MaxMessages \in Nat

Commands == 1..MaxCommands
None == 0
(* deregister and disconnect, which differ at the coordinator, are "leave". *)
Kinds == {"register", "reconnect", "leave", "msend"}

VARIABLES
    pc,             \* where Participant::Start is
    kind,           \* input_parser_.req_ of the command being carried out
    typed,          \* how many commands have been typed
    connected,      \* connected_
    participant_id, \* input_parser_.participant_id_
    current,        \* multicast_receiver_: the command that created it
    cancelled,      \* cancelled_tasks_
    closing,        \* should_close_ of the pool
    console_pc,     \* where the console task is
    console,        \* there are lines in its queue
    task,           \* where each receiver task is
    listening,      \* those whose server_fd_ is open
    backlog,        \* the connections nobody has accepted yet, by listener
    messenger,      \* messenger_fd_ of each receiver
    received,       \* how many messages it has received
    parsed,         \* those of them that are in its parser
    request,        \* what the coordinator does with each request
    registration,   \* the registration that each connection is for
    up,             \* the coordinator runs
    sent, logged,   \* multicasts sent on each connection; those of them logged
    stray           \* history: a connection was asked for that has no receiver

main == <<pc, kind, typed, connected, participant_id, current, stray>>
pool == <<cancelled, closing>>
printing == <<console_pc, console>>
receivers == <<task, listening, messenger, received, parsed, logged>>
coordinator == <<request, registration, up, sent>>
vars == <<main, pool, printing, receivers, backlog, coordinator>>

ConsoleTask == None     \* its handle among those of the receivers

(* The members hold values of their types, and a receiver reads from at most *)
(* one connection.                                                           *)
TypeOK ==
    /\ pc \in {"prompt", "answer", "dispatch", "wait", "bye", "closing", "ended"}
    /\ kind \in Kinds \cup {"quit", "none"}
    /\ typed \in 0..MaxCommands
    /\ connected \in BOOLEAN /\ up \in BOOLEAN /\ closing \in BOOLEAN /\ stray \in BOOLEAN
    /\ participant_id \in Commands \cup {None} /\ current \in Commands \cup {None}
    /\ cancelled \subseteq Commands \cup {ConsoleTask}
    /\ console_pc \in {"check", "pop", "done"} /\ console \in BOOLEAN
    /\ task \in [Commands -> {"none", "new", "accept", "check", "run", "ending", "stopped", "done"}]
    /\ listening \subseteq Commands
    /\ backlog \in [Commands -> SUBSET Commands]
    /\ messenger \in [Commands -> Commands \cup {None}]
    /\ received \in [Commands -> 0..MaxMessages] /\ parsed \in [Commands -> 0..MaxMessages]
    /\ request \in [Commands -> {"none", "sent", "connect", "open", "closed", "leave", "over"}]
    /\ registration \in [Commands -> Commands \cup {None}]
    /\ sent \in [Commands -> 0..MaxMessages] /\ logged \in [Commands -> 0..MaxMessages]

(* The configuration was loaded and Start has added the console task. *)
Init ==
    /\ pc = "prompt" /\ kind = "none" /\ typed = 0
    /\ connected = FALSE /\ participant_id = None /\ current = None /\ stray = FALSE
    /\ cancelled = {} /\ closing = FALSE
    /\ console_pc = "check" /\ console = FALSE
    /\ task = [n \in Commands |-> "none"]
    /\ listening = {}
    /\ backlog = [n \in Commands |-> {}]
    /\ messenger = [n \in Commands |-> None]
    /\ received = [n \in Commands |-> 0] /\ parsed = [n \in Commands |-> 0]
    /\ request = [n \in Commands |-> "none"]
    /\ registration = [n \in Commands |-> None]
    /\ up = TRUE
    /\ sent = [n \in Commands |-> 0] /\ logged = [n \in Commands |-> 0]

-----------------------------------------------------------------------------
(* Participant::Start. *)

(* A command word that is not known. *)
TypeInvalid ==
    /\ pc = "prompt" /\ typed < MaxCommands
    /\ typed' = typed + 1
    /\ console' = TRUE
    /\ UNCHANGED <<pc, kind, connected, participant_id, current, stray, pool, console_pc,
                   receivers, backlog, coordinator>>

(* InputParser::CreateReq and ConnectAndSend: the request has gone to the   *)
(* coordinator before connected_ is looked at.                              *)
TypeRequest(k) ==
    LET n == typed + 1
    IN  /\ pc = "prompt" /\ typed < MaxCommands
        /\ up
        /\ typed' = n /\ kind' = k
        /\ request' = [request EXCEPT ![n] =
              CASE k = "register" -> "sent" [] k = "reconnect" -> "connect"
                [] k = "leave" -> "leave" [] OTHER -> "over"]
        /\ registration' = [registration EXCEPT ![n] =
              IF k = "register" THEN n ELSE participant_id]
        /\ stray' = (stray \/ (connected /\ k \in {"register", "reconnect"}))
        /\ pc' = IF k = "register" THEN "answer" ELSE "dispatch"
        /\ UNCHANGED <<connected, participant_id, current, pool, printing, receivers, backlog,
                       up, sent>>

(* The connection or the send fails: Start returns, and the console task is *)
(* left to the destructor of the pool.                                      *)
TypeInVain ==
    /\ pc = "prompt" /\ typed < MaxCommands
    /\ ~up
    /\ typed' = typed + 1
    /\ pc' = "closing"
    /\ UNCHANGED <<kind, connected, participant_id, current, stray, pool, printing,
                   receivers, backlog, coordinator>>

(* Mutant: the answer is not looked at. *)
IdAsBefore == participant_id

(* Line 49. *)
IdInResponse == typed

(* WaitForMessage: the answer, or the default value 0 without one. *)
WaitForMessage ==
    /\ pc = "answer"
    /\ \/ request[typed] # "sent" /\ participant_id' = IdInResponse
       \/ request[typed] = "sent" /\ ~up /\ participant_id' = None
    /\ pc' = "dispatch"
    /\ UNCHANGED <<kind, typed, connected, current, stray, pool, printing, receivers, backlog,
                   coordinator>>

(* The switch in Start up to its end, or up to WaitForCompletion. *)
Listen ==
    /\ pc = "dispatch" /\ kind \in {"register", "reconnect"}
    /\ \/ connected /\ UNCHANGED <<connected, current, task>>
       \/ /\ ~connected
          /\ connected' = TRUE /\ current' = typed
          /\ task' = [task EXCEPT ![typed] = "new"]
    /\ console' = TRUE
    /\ pc' = "prompt"
    /\ UNCHANGED <<kind, typed, participant_id, stray, pool, console_pc, listening, messenger,
                   received, parsed, logged, backlog, coordinator>>

Leave ==
    /\ pc = "dispatch" /\ kind = "leave"
    /\ \/ /\ connected
          /\ cancelled' = cancelled \cup {current}
          /\ pc' = "wait"
          /\ UNCHANGED console
       \/ /\ ~connected
          /\ console' = TRUE
          /\ pc' = "prompt"
          /\ UNCHANGED cancelled
    /\ UNCHANGED <<kind, typed, connected, participant_id, current, stray, closing, console_pc, receivers,
                   backlog, coordinator>>

MSend ==
    /\ pc = "dispatch" /\ kind = "msend"
    /\ pc' = "prompt"
    /\ UNCHANGED <<kind, typed, connected, participant_id, current, stray, pool, printing,
                   receivers, backlog, coordinator>>

(* Mutant: Start does not wait for the task it has cancelled. *)
NotWaitedFor(n) == TRUE

(* Its status is no longer RUNNING; CleanUp may still be to come. *)
HasStopped(n) == task[n] \in {"stopped", "done"}

WaitForCompletion ==
    /\ pc = "wait" /\ HasStopped(current)
    /\ connected' = FALSE
    /\ console' = TRUE
    /\ pc' = "prompt"
    /\ UNCHANGED <<kind, typed, participant_id, current, stray, pool, console_pc, receivers,
                   backlog, coordinator>>

(* Mutant: nothing is sent to the console task. *)
NoLine == console

(* "Bye!", on line 30. *)
LastLine == TRUE

(* quit cancels the console task ... *)
TypeQuit ==
    /\ pc = "prompt" /\ typed < MaxCommands
    /\ typed' = typed + 1
    /\ cancelled' = cancelled \cup {ConsoleTask}
    /\ kind' = "quit"
    /\ pc' = "bye"
    /\ UNCHANGED <<connected, participant_id, current, stray, closing, printing, receivers,
                   backlog, coordinator>>

(* ... and then sends it a line, so that it comes back from Pop. *)
Bye ==
    /\ pc = "bye"
    /\ console' = LastLine
    /\ pc' = "closing"
    /\ UNCHANGED <<kind, typed, connected, participant_id, current, stray, pool, console_pc,
                   receivers, backlog, coordinator>>

(* ~ThreadPool cancels the tasks it knows ... *)
ClosePool ==
    /\ pc = "closing" /\ ~closing
    /\ closing' = TRUE
    /\ cancelled' = cancelled \cup {ConsoleTask} \cup {n \in Commands : task[n] # "none"}
    /\ UNCHANGED <<main, printing, receivers, backlog, coordinator>>

(* ... and joins the threads of those that it has started. *)
JoinThreads ==
    /\ pc = "closing" /\ closing
    /\ console_pc = "done"
    /\ \A n \in Commands : task[n] \in {"none", "new", "done"}
    /\ pc' = "ended"
    /\ UNCHANGED <<kind, typed, connected, participant_id, current, stray, pool, printing,
                   receivers, backlog, coordinator>>

-----------------------------------------------------------------------------
(* ConsoleTask. *)

ConsoleCheck ==
    /\ console_pc = "check"
    /\ console_pc' = IF ConsoleTask \in cancelled THEN "done" ELSE "pop"
    /\ UNCHANGED <<main, pool, console, receivers, backlog, coordinator>>

(* RunAtomic prints the line it has waited for and those behind it. *)
PrintLine ==
    /\ console_pc = "pop" /\ console
    /\ console' = FALSE
    /\ console_pc' = "check"
    /\ UNCHANGED <<main, pool, receivers, backlog, coordinator>>

-----------------------------------------------------------------------------
(* MulticastReceiver. *)

Step(n, label) == task' = [task EXCEPT ![n] = label]

(* SetUp: the port may be shared with a listener that is not closed yet     *)
(* (SO_REUSEPORT), and may belong to another process.                       *)
SetUpListenerSocket(n) ==
    /\ task[n] = "new" /\ ~closing
    /\ \/ Step(n, "accept") /\ listening' = listening \cup {n} /\ UNCHANGED stray
       \/ Step(n, "ending") /\ stray' = TRUE /\ UNCHANGED listening
    /\ UNCHANGED <<pc, kind, typed, connected, participant_id, current, pool, printing,
                   messenger, received, parsed, logged, backlog, coordinator>>

(* accept() has no timeout. *)
Accept(n) ==
    /\ task[n] = "accept"
    /\ \E c \in backlog[n] :
          /\ messenger' = [messenger EXCEPT ![n] = c]
          /\ backlog' = [backlog EXCEPT ![n] = @ \ {c}]
    /\ Step(n, "check")
    /\ UNCHANGED <<main, pool, printing, listening, received, parsed, logged, coordinator>>

(* The pool looks for a cancellation between two iterations. *)
UpdateTaskStatus(n) ==
    /\ \/ task[n] = "check" /\ Step(n, IF n \in cancelled THEN "stopped" ELSE "run")
       \/ task[n] = "ending" /\ Step(n, "stopped")
    /\ UNCHANGED <<main, pool, printing, listening, messenger, received, parsed, logged, backlog,
                   coordinator>>

(* Mutant: the rest of what was received is dropped with the first message. *)
NoneLeft(n) == 0

(* GetMessage takes one message and leaves the rest in the parser. *)
LeftInParser(n) == parsed[n] - 1

LogMessage(n) ==
    /\ task[n] = "run" /\ parsed[n] > 0
    /\ parsed' = [parsed EXCEPT ![n] = LeftInParser(n)]
    /\ logged' = [logged EXCEPT ![messenger[n]] = @ + 1]
    /\ console' = TRUE
    /\ Step(n, "check")
    /\ UNCHANGED <<main, pool, console_pc, listening, messenger, received, backlog,
                   coordinator>>

(* Mutant: the buffer is not cut to what was read (line 77) and holds what  *)
(* was received before.                                                     *)
ReadAgain(n) == sent[messenger[n]]

(* What is in the socket of n: TCP delivers what was sent before a close. *)
Unread(n) == sent[messenger[n]] - received[n]

(* recv: some of what has arrived, or a timeout, or the end of the stream. *)
ReceiveData(n) ==
    /\ task[n] = "run" /\ parsed[n] = 0
    /\ \/ \E k \in 1..Unread(n) :
             /\ received' = [received EXCEPT ![n] = @ + k]
             /\ parsed' = [parsed EXCEPT ![n] = k]
             /\ Step(n, "check")
       \/ /\ Unread(n) = 0
          /\ Step(n, IF request[messenger[n]] = "open" THEN "check" ELSE "ending")
          /\ UNCHANGED <<received, parsed>>
    /\ UNCHANGED <<main, pool, printing, listening, messenger, logged, backlog, coordinator>>

(* The connections in the backlog of a listener are reset with it. *)
CleanUp(n) ==
    /\ task[n] = "stopped"
    /\ Step(n, "done")
    /\ listening' = listening \ {n}
    /\ backlog' = [backlog EXCEPT ![n] = {}]
    /\ UNCHANGED <<main, pool, printing, messenger, received, parsed, logged, coordinator>>

RunReceiver(n) ==
    SetUpListenerSocket(n) \/ Accept(n) \/ UpdateTaskStatus(n) \/ LogMessage(n) \/ ReceiveData(n)
        \/ CleanUp(n)

-----------------------------------------------------------------------------
(* The coordinator, external to this module. *)

SendRegistrationResponse(n) ==
    /\ up /\ request[n] = "sent"
    /\ request' = [request EXCEPT ![n] = "connect"]
    /\ UNCHANGED <<main, pool, printing, receivers, backlog, registration, up, sent>>

(* The last of its attempts to connect fails when nobody listens. *)
ConnectToParticipant(n) ==
    /\ up /\ request[n] = "connect"
    /\ \/ \E l \in listening :
             /\ request' = [request EXCEPT ![n] = "open"]
             /\ backlog' = [backlog EXCEPT ![l] = @ \cup {n}]
       \/ /\ listening = {}
          /\ request' = [request EXCEPT ![n] = "over"]
          /\ UNCHANGED backlog
    /\ UNCHANGED <<main, pool, printing, receivers, registration, up, sent>>

SendMulticast(n) ==
    /\ up /\ request[n] = "open" /\ sent[n] < MaxMessages
    /\ sent' = [sent EXCEPT ![n] = @ + 1]
    /\ UNCHANGED <<main, pool, printing, receivers, backlog, request, registration, up>>

(* A disconnect leaves the connection of the participant open, a deregister *)
(* closes it.                                                               *)
LeaveGroup(n) ==
    /\ up /\ request[n] = "leave"
    /\ \/ request' = [request EXCEPT ![n] = "over"]
       \/ \E c \in Commands :
             /\ request[c] = "open" /\ registration[c] = registration[n]
             /\ request' = [request EXCEPT ![n] = "over", ![c] = "closed"]
    /\ UNCHANGED <<main, pool, printing, receivers, backlog, registration, up, sent>>

CoordinatorDies ==
    /\ up
    /\ up' = FALSE
    /\ request' = [n \in Commands |-> IF request[n] = "open" THEN "closed" ELSE request[n]]
    /\ UNCHANGED <<main, pool, printing, receivers, backlog, registration, sent>>

-----------------------------------------------------------------------------
Type == TypeInvalid \/ TypeInVain \/ TypeQuit \/ \E k \in Kinds : TypeRequest(k)

Start == WaitForMessage \/ Listen \/ Leave \/ MSend \/ WaitForCompletion \/ Bye \/ ClosePool
            \/ JoinThreads

RunConsole == ConsoleCheck \/ PrintLine

Answer(n) == SendRegistrationResponse(n) \/ ConnectToParticipant(n)

Next ==
    \/ Type \/ Start \/ RunConsole \/ CoordinatorDies
    \/ \E n \in Commands :
          RunReceiver(n) \/ Answer(n) \/ SendMulticast(n) \/ LeaveGroup(n)

Spec == Init /\ [][Next]_vars

(* Every thread runs, and the coordinator answers and connects while it is  *)
(* up.  Nobody has to type a command or to send a multicast.                *)
FairSpec ==
    /\ Spec
    /\ WF_vars(Start) /\ WF_vars(RunConsole)
    /\ \A n \in Commands : WF_vars(RunReceiver(n)) /\ WF_vars(Answer(n))

-----------------------------------------------------------------------------
(* When Start is at the prompt and not connected, no receiver that it has   *)
(* created can still log a message, and never do two of them receive at     *)
(* once (participant.cpp:54-59 and 74-76).                                  *)
Receives(n) == task[n] \in {"accept", "check", "run"}
OneReceiver ==
    /\ pc = "prompt" /\ ~connected => \A n \in Commands : ~Receives(n)
    /\ \A m, n \in Commands : Receives(m) /\ Receives(n) => m = n

(* The id that a participant presents to the coordinator is the one its     *)
(* connection belongs to, unless the coordinator was asked for a connection *)
(* that no receiver waits for: by a register or reconnect while connected,  *)
(* which is sent before connected_ is looked at (participant.cpp:36, 49 and *)
(* 52), or because the port could not be had.                               *)
IdNamesConnection ==
    ~stray /\ pc = "prompt" /\ connected /\ messenger[current] # None
        => registration[messenger[current]] = participant_id

(* What the coordinator has sent on a connection that the receiver reads is *)
(* logged, to the last message, also when the coordinator has died since,   *)
(* unless the receiver was cancelled (multicast_receiver_task.cpp:49-81).   *)
Behind ==
    \E n \in Commands :
        /\ n \notin cancelled /\ messenger[n] # None
        /\ logged[messenger[n]] < sent[messenger[n]]
MulticastsAreLogged == []<>(~Behind)

(* The ways in which a command never returns: the receiver to wait for is   *)
(* in accept() and nobody connects; or a request could not be sent, Start   *)
(* has returned, and the console task is in Pop() (participant.cpp:37-42).  *)
Stuck ==
    \/ pc \in {"wait", "closing"} /\ \E n \in Commands : task[n] = "accept" /\ backlog[n] = {}
    \/ pc = "closing" /\ kind # "quit" /\ console_pc = "pop" /\ ~console

(* Apart from those, every command returns to the prompt and quit ends the  *)
(* program: the console task leaves Pop() after it was cancelled            *)
(* (participant.cpp:26-33), and the pool joins its threads.                 *)
CommandsReturn == []<>(pc \in {"prompt", "ended"}) \/ <>[]Stuck
=============================================================================
