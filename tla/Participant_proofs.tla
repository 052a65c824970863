------------------------ MODULE Participant_proofs ------------------------
(***************************************************************************)
(* Proofs about module Participant, for any number of commands and of      *)
(* multicasts: TypeOK, OneReceiver and IdNamesConnection are invariants.   *)
(*                                                                         *)
(* That logged stays in its type rests on every message being logged once, *)
(* so on every connection having one reader (Connections, Counts).  That a *)
(* receiver reads the connection of its own command rests on the order of  *)
(* what Start does: a connection is asked for only when no receiver is     *)
(* alive, and a receiver that could be waited for has accepted one         *)
(* (AliveIsCurrent, InOrder).                                              *)
(***************************************************************************)
EXTENDS Participant, TLAPS

(* The coordinator has connected for request c. *)
Made(c) == request[c] \in {"open", "closed"}

(* Receiver n has not accepted a connection. *)
Fresh(n) == task[n] \in {"none", "new", "accept"}

(* A command that has not been typed has left no trace, and the one being  *)
(* carried out has no receiver yet.                                        *)
Untyped ==
    /\ current <= typed
    /\ \A n \in Commands : n > typed => request[n] = "none" /\ task[n] = "none"
    /\ pc \in {"answer", "dispatch"} => typed > 0 /\ task[typed] = "none"
    /\ \A n \in Commands : task[n] \in {"none", "new"} => n \notin listening /\ backlog[n] = {}

(* A connection that was made is in one backlog or has one reader. *)
AreMade == \A n, c \in Commands : c \in backlog[n] \/ messenger[n] = c => Made(c)
NotAccepted == \A m, n, c \in Commands : c \in backlog[m] => messenger[n] # c
OneBacklog == \A m, n, c \in Commands : c \in backlog[m] /\ c \in backlog[n] => m = n
OneReader ==
    \A m, n \in Commands : messenger[m] = messenger[n] => messenger[m] = None \/ m = n
Connections == AreMade /\ NotAccepted /\ OneBacklog /\ OneReader

(* A message that was received is in the parser or was logged. *)
NothingYet ==
    \A n \in Commands : Fresh(n) => messenger[n] = None /\ received[n] = 0 /\ parsed[n] = 0
HasMessenger == \A n \in Commands : task[n] \in {"check", "run"} => messenger[n] # None
Counted ==
    \A n \in Commands : messenger[n] # None =>
        /\ logged[messenger[n]] = received[n] - parsed[n]
        /\ received[n] <= sent[messenger[n]]
NoneLogged == \A c \in Commands : (\A n \in Commands : messenger[n] # c) => logged[c] = 0
Counts == NothingYet /\ HasMessenger /\ Counted /\ NoneLogged

(* Only the last receiver may be alive, and only while connected_. *)
Alive(n) == task[n] \in {"new", "accept", "check", "run", "ending"}
AliveIsCurrent == \A n \in Commands : Alive(n) => connected /\ n = current

(* A command that asks for a connection is being carried out. *)
Asking == pc \in {"answer", "dispatch"} /\ kind \in {"register", "reconnect"}

(* Request n is for the id that the participant has, or will have no answer. *)
Belongs(n) == registration[n] = participant_id \/ (request[n] = "sent" /\ ~up)

(* As long as nothing is stray, the coordinator connects only for the       *)
(* command being carried out or for the receiver that is alive, and a       *)
(* receiver accepts no connection but its own.                              *)
AskedInTime ==
    /\ Asking => ~connected
    /\ pc = "answer" => kind = "register" /\ registration[typed] = typed
    /\ pc = "dispatch" /\ Asking => Belongs(typed)
    /\ connected => current # None /\ Belongs(current)
AnswerIsAwaited ==
    \A i \in Commands : request[i] \in {"sent", "connect"} =>
        (Asking /\ i = typed) \/ (connected /\ i = current)
OwnConnection ==
    /\ \A n, i \in Commands : task[n] = "accept" /\ i \in backlog[n] => i = n
    /\ \A n \in Commands : messenger[n] \in {None, n}
    /\ \A n \in Commands : messenger[n] = None => Fresh(n)
InOrder == ~stray => AskedInTime /\ AnswerIsAwaited /\ OwnConnection

(* The inductive invariant. *)
IInv == TypeOK /\ Untyped /\ Connections /\ Counts /\ AliveIsCurrent /\ InOrder

USE DEF None, ConsoleTask, main, pool, printing, receivers, coordinator

(* How commands are numbered. *)
LEMMA Numbers ==
    /\ MaxMessages \in Nat /\ MaxCommands \in Nat /\ Commands \subseteq Nat /\ 0 \notin Commands
    /\ \A n \in 0..MaxCommands : n = 0 \/ n \in Commands
    /\ \A n \in 0..MaxCommands : n < MaxCommands => n + 1 \in Commands
    /\ \A n \in Commands : n \in 0..MaxCommands
  BY BoundsAssumption DEF Commands

USE Numbers

(* The states in which Start begins satisfy the invariant. *)
LEMMA InitInv == Init => IInv
<1> SUFFICES ASSUME Init PROVE IInv
  OBVIOUS
<1>1. TypeOK
  <2>1. typed \in 0..MaxCommands /\ received \in [Commands -> 0..MaxMessages]
    BY DEF Init
  <2>2. parsed \in [Commands -> 0..MaxMessages] /\ sent \in [Commands -> 0..MaxMessages]
    BY DEF Init
  <2>3. logged \in [Commands -> 0..MaxMessages]
    BY DEF Init
  <2>4. backlog \in [Commands -> SUBSET Commands] /\ messenger \in [Commands -> Commands \cup {0}]
    BY DEF Init
  <2>5. registration \in [Commands -> Commands \cup {0}]
    BY DEF Init
  <2>6. /\ pc \in {"prompt", "answer", "dispatch", "wait", "bye", "closing", "ended"}
        /\ console_pc \in {"check", "pop", "done"} /\ kind \in Kinds \cup {"quit", "none"}
        /\ participant_id \in Commands \cup {None} /\ current \in Commands \cup {None}
    BY DEF Init
  <2>7. /\ cancelled \subseteq Commands \cup {ConsoleTask} /\ listening \subseteq Commands
        /\ task \in [Commands -> {"none", "new", "accept", "check", "run", "ending", "stopped", "done"}]
    BY DEF Init
  <2>8. request \in [Commands -> {"none", "sent", "connect", "open", "closed", "leave", "over"}]
    BY DEF Init
  <2>. QED
    BY <2>1, <2>2, <2>3, <2>4, <2>5, <2>6, <2>7, <2>8, Zenon DEF Init, TypeOK
<1>2. Untyped
  BY DEF Init, Untyped
<1>3. Connections
  BY DEF Init, Connections, AreMade, NotAccepted, OneBacklog, OneReader
<1>4. Counts
  BY DEF Init, Counts, NothingYet, HasMessenger, Counted, NoneLogged
<1>5. AliveIsCurrent
  BY DEF Init, AliveIsCurrent, Alive
<1>6. InOrder
  BY DEF Init, InOrder, AskedInTime, AnswerIsAwaited, OwnConnection, Asking, Fresh
<1>. QED
  BY <1>1, <1>2, <1>3, <1>4, <1>5, <1>6 DEF IInv

(* What the invariant says of a receiver that is receiving. *)
LEMMA Reading ==
    ASSUME TypeOK, Counts, NEW n \in Commands, task[n] \in {"check", "run"}
    PROVE  /\ messenger[n] \in Commands
           /\ received[n] \in 0..MaxMessages /\ parsed[n] \in 0..MaxMessages
           /\ sent[messenger[n]] \in 0..MaxMessages
           /\ logged[messenger[n]] = received[n] - parsed[n]
           /\ received[n] <= sent[messenger[n]]
<1>1. messenger[n] \in Commands
  BY DEF TypeOK, Counts, HasMessenger
<1>2. received[n] \in 0..MaxMessages /\ parsed[n] \in 0..MaxMessages
  BY DEF TypeOK
<1>3. sent[messenger[n]] \in 0..MaxMessages
  BY <1>1 DEF TypeOK
<1>. QED
  BY <1>1, <1>2, <1>3 DEF Counts, Counted

(* The types are kept: no message is logged twice. *)
LEMMA TypeStep == TypeOK /\ Untyped /\ Connections /\ Counts /\ [Next]_vars => TypeOK'
<1> SUFFICES ASSUME TypeOK /\ Untyped /\ Connections /\ Counts, [Next]_vars PROVE TypeOK'
  OBVIOUS
<1>1. CASE TypeInvalid
  BY <1>1 DEF TypeInvalid, Kinds, TypeOK
<1>2. CASE TypeInVain
  BY <1>2 DEF TypeInVain, TypeOK
<1>3. CASE TypeQuit
  BY <1>3 DEF TypeQuit, TypeOK
<1>4. CASE \E k \in Kinds : TypeRequest(k)
  BY <1>4 DEF TypeRequest, Kinds, TypeOK
<1>5. CASE WaitForMessage
  BY <1>5 DEF WaitForMessage, IdInResponse, TypeOK
<1>6. CASE Listen
  <2>1. task' \in [Commands -> {"none", "new", "accept", "check", "run", "ending", "stopped", "done"}]
        /\ current' \in Commands \cup {0}
    BY <1>6 DEF Listen, TypeOK
  <2>. QED
    BY <2>1, <1>6, ZenonT(40) DEF Listen, TypeOK
<1>7. CASE Leave
  BY <1>7 DEF Leave, TypeOK
<1>8. CASE MSend
  BY <1>8 DEF MSend, TypeOK
<1>9. CASE WaitForCompletion
  BY <1>9 DEF WaitForCompletion, HasStopped, TypeOK
<1>10. CASE Bye
  BY <1>10 DEF Bye, LastLine, TypeOK
<1>11. CASE ClosePool
  BY <1>11 DEF ClosePool, TypeOK
<1>12. CASE JoinThreads
  BY <1>12 DEF JoinThreads, TypeOK
<1>13. CASE ConsoleCheck
  BY <1>13 DEF ConsoleCheck, TypeOK
<1>14. CASE PrintLine
  BY <1>14, Zenon DEF PrintLine, TypeOK
<1>15. CASE CoordinatorDies
  <2>1. request' \in [Commands -> {"none", "sent", "connect", "open", "closed", "leave", "over"}]
    BY <1>15 DEF CoordinatorDies, TypeOK
  <2>. QED
    BY <2>1, <1>15, ZenonT(40) DEF CoordinatorDies, TypeOK
<1>16. ASSUME NEW n \in Commands, SetUpListenerSocket(n) PROVE TypeOK'
  <2>1. /\ task' \in [Commands -> {"none", "new", "accept", "check", "run", "ending", "stopped", "done"}]
        /\ listening' \subseteq Commands
    BY <1>16 DEF SetUpListenerSocket, Step, TypeOK
  <2>. QED
    BY <2>1, <1>16, ZenonT(40) DEF SetUpListenerSocket, Step, TypeOK
<1>17. ASSUME NEW n \in Commands, Accept(n) PROVE TypeOK'
  BY <1>17 DEF Accept, Step, TypeOK
<1>18. ASSUME NEW n \in Commands, UpdateTaskStatus(n) PROVE TypeOK'
  BY <1>18 DEF UpdateTaskStatus, Step, TypeOK
<1>19. ASSUME NEW n \in Commands, LogMessage(n) PROVE TypeOK'
  <2>1. task' \in [Commands -> {"none", "new", "accept", "check", "run", "ending", "stopped", "done"}]
    BY <1>19 DEF LogMessage, Step, TypeOK
  <2>2. parsed' \in [Commands -> 0..MaxMessages]
    BY <1>19 DEF LogMessage, LeftInParser, TypeOK
  <2>3. parsed[n] > 0 /\ task[n] \in {"check", "run"}
    BY <1>19 DEF LogMessage
  <2>4. parsed[n] \in 1..MaxMessages /\ received[n] \in 0..MaxMessages
    BY <1>19, <2>3 DEF TypeOK
  <2>5. logged[messenger[n]] \in 0..MaxMessages /\ logged[messenger[n]] = received[n] - parsed[n]
    BY <1>19, <2>3, Reading DEF TypeOK
  <2>6. logged[messenger[n]] + 1 \in 0..MaxMessages
    BY <1>19, <2>4, <2>5, BoundsAssumption
  <2>7. logged' \in [Commands -> 0..MaxMessages]
    BY <1>19, <2>3, <2>6, Reading DEF LogMessage, TypeOK
  <2>. QED
    BY <2>1, <2>2, <2>3, <2>4, <2>5, <2>6, <2>7, <1>19, ZenonT(40)
       DEF LogMessage, LeftInParser, Step, TypeOK
<1>20. ASSUME NEW n \in Commands, ReceiveData(n) PROVE TypeOK'
  <2>1. task' \in [Commands -> {"none", "new", "accept", "check", "run", "ending", "stopped", "done"}]
    BY <1>20 DEF ReceiveData, Step, TypeOK
  <2>2. \A k \in 1..Unread(n) : k \in 0..MaxMessages /\ received[n] + k \in 0..MaxMessages
    BY <1>20, Reading DEF ReceiveData, Unread
  <2>3. parsed' \in [Commands -> 0..MaxMessages] /\ received' \in [Commands -> 0..MaxMessages]
    BY <1>20, <2>2 DEF ReceiveData, TypeOK
  <2>. QED
    BY <2>1, <2>2, <2>3, <1>20, ZenonT(40) DEF ReceiveData, Unread, Step, TypeOK
<1>21. ASSUME NEW n \in Commands, CleanUp(n) PROVE TypeOK'
  BY <1>21 DEF CleanUp, Step, TypeOK
<1>22. ASSUME NEW n \in Commands, SendRegistrationResponse(n) PROVE TypeOK'
  BY <1>22 DEF SendRegistrationResponse, TypeOK
<1>23. ASSUME NEW n \in Commands, ConnectToParticipant(n) PROVE TypeOK'
  BY <1>23 DEF ConnectToParticipant, TypeOK
<1>24. ASSUME NEW n \in Commands, SendMulticast(n) PROVE TypeOK'
  BY <1>24 DEF SendMulticast, TypeOK
<1>25. ASSUME NEW n \in Commands, LeaveGroup(n) PROVE TypeOK'
  BY <1>25 DEF LeaveGroup, TypeOK
<1>26. CASE UNCHANGED vars
  BY <1>26 DEF vars, TypeOK
<1>27. QED
  BY <1>1, <1>2, <1>3, <1>4, <1>5, <1>6, <1>7, <1>8, <1>9, <1>10, <1>11, <1>12, <1>13,
     <1>14, <1>15, <1>16, <1>17, <1>18, <1>19, <1>20, <1>21, <1>22, <1>23, <1>24,
     <1>25, <1>26
     DEF Next, Type, Start, RunConsole, RunReceiver, Answer

(* Commands are numbered as they are typed. *)
LEMMA UntypedStep == TypeOK /\ Untyped /\ [Next]_vars => Untyped'
<1> SUFFICES ASSUME TypeOK /\ Untyped, [Next]_vars PROVE Untyped'
  OBVIOUS
<1>1. CASE TypeInvalid
  BY <1>1 DEF TypeInvalid, Kinds, TypeOK, Untyped
<1>2. CASE TypeInVain
  BY <1>2 DEF TypeInVain, TypeOK, Untyped
<1>3. CASE TypeQuit
  BY <1>3 DEF TypeQuit, TypeOK, Untyped
<1>4. CASE \E k \in Kinds : TypeRequest(k)
  BY <1>4 DEF TypeRequest, Kinds, TypeOK, Untyped
<1>5. CASE WaitForMessage
  BY <1>5 DEF WaitForMessage, IdInResponse, TypeOK, Untyped
<1>6. CASE Listen
  BY <1>6 DEF Listen, TypeOK, Untyped
<1>7. CASE Leave
  BY <1>7 DEF Leave, TypeOK, Untyped
<1>8. CASE MSend
  BY <1>8 DEF MSend, TypeOK, Untyped
<1>9. CASE WaitForCompletion
  BY <1>9 DEF WaitForCompletion, HasStopped, TypeOK, Untyped
<1>10. CASE Bye
  BY <1>10 DEF Bye, LastLine, TypeOK, Untyped
<1>11. CASE ClosePool
  BY <1>11 DEF ClosePool, TypeOK, Untyped
<1>12. CASE JoinThreads
  BY <1>12 DEF JoinThreads, TypeOK, Untyped
<1>13. CASE ConsoleCheck
  BY <1>13 DEF ConsoleCheck, TypeOK, Untyped
<1>14. CASE PrintLine
  BY <1>14 DEF PrintLine, TypeOK, Untyped
<1>15. CASE CoordinatorDies
  BY <1>15 DEF CoordinatorDies, TypeOK, Untyped
<1>16. ASSUME NEW n \in Commands, SetUpListenerSocket(n) PROVE Untyped'
  BY <1>16 DEF SetUpListenerSocket, Step, TypeOK, Untyped
<1>17. ASSUME NEW n \in Commands, Accept(n) PROVE Untyped'
  BY <1>17 DEF Accept, Step, TypeOK, Untyped
<1>18. ASSUME NEW n \in Commands, UpdateTaskStatus(n) PROVE Untyped'
  BY <1>18 DEF UpdateTaskStatus, Step, TypeOK, Untyped
<1>19. ASSUME NEW n \in Commands, LogMessage(n) PROVE Untyped'
  BY <1>19 DEF LogMessage, LeftInParser, Step, TypeOK, Untyped
<1>20. ASSUME NEW n \in Commands, ReceiveData(n) PROVE Untyped'
  BY <1>20 DEF ReceiveData, Unread, Step, TypeOK, Untyped
<1>21. ASSUME NEW n \in Commands, CleanUp(n) PROVE Untyped'
  BY <1>21 DEF CleanUp, Step, TypeOK, Untyped
<1>22. ASSUME NEW n \in Commands, SendRegistrationResponse(n) PROVE Untyped'
  BY <1>22 DEF SendRegistrationResponse, TypeOK, Untyped
<1>23. ASSUME NEW n \in Commands, ConnectToParticipant(n) PROVE Untyped'
  BY <1>23 DEF ConnectToParticipant, TypeOK, Untyped
<1>24. ASSUME NEW n \in Commands, SendMulticast(n) PROVE Untyped'
  BY <1>24 DEF SendMulticast, TypeOK, Untyped
<1>25. ASSUME NEW n \in Commands, LeaveGroup(n) PROVE Untyped'
  BY <1>25 DEF LeaveGroup, TypeOK, Untyped
<1>26. CASE UNCHANGED vars
  BY <1>26 DEF vars, TypeOK, Untyped
<1>27. QED
  BY <1>1, <1>2, <1>3, <1>4, <1>5, <1>6, <1>7, <1>8, <1>9, <1>10, <1>11, <1>12, <1>13,
     <1>14, <1>15, <1>16, <1>17, <1>18, <1>19, <1>20, <1>21, <1>22, <1>23, <1>24,
     <1>25, <1>26
     DEF Next, Type, Start, RunConsole, RunReceiver, Answer

(* A connection is in one place. *)
LEMMA ConnectionsStep == TypeOK /\ Untyped /\ Connections /\ Counts /\ [Next]_vars => Connections'
<1> SUFFICES ASSUME TypeOK /\ Untyped /\ Connections /\ Counts, [Next]_vars PROVE Connections'
  OBVIOUS
<1>0. UNCHANGED <<messenger, backlog, request>>
      => Connections'
  BY DEF TypeOK, Connections, AreMade, NotAccepted, OneBacklog, OneReader, Made
<1>1. CASE TypeInvalid
  BY <1>0, <1>1 DEF TypeInvalid, Kinds
<1>2. CASE TypeInVain
  BY <1>0, <1>2 DEF TypeInVain
<1>3. CASE TypeQuit
  BY <1>0, <1>3 DEF TypeQuit
<1>4. CASE \E k \in Kinds : TypeRequest(k)
  <2>1. AreMade'
    BY <1>4 DEF TypeRequest, Kinds, TypeOK, Untyped, Connections, AreMade, Made
  <2>2. NotAccepted'
    BY <1>4
       DEF TypeRequest, Kinds, TypeOK, Connections, NotAccepted, AreMade, Made,
           OneBacklog
  <2>3. OneBacklog'
    BY <1>4 DEF TypeRequest, Kinds, TypeOK, Connections, OneBacklog, AreMade, Made
  <2>4. OneReader'
    BY <1>4 DEF TypeRequest, Kinds, TypeOK, Connections, OneReader, NotAccepted
  <2>. QED
    BY <2>1, <2>2, <2>3, <2>4 DEF Connections
<1>5. CASE WaitForMessage
  BY <1>0, <1>5 DEF WaitForMessage, IdInResponse
<1>6. CASE Listen
  BY <1>0, <1>6 DEF Listen
<1>7. CASE Leave
  BY <1>0, <1>7 DEF Leave
<1>8. CASE MSend
  BY <1>0, <1>8 DEF MSend
<1>9. CASE WaitForCompletion
  BY <1>0, <1>9 DEF WaitForCompletion, HasStopped
<1>10. CASE Bye
  BY <1>0, <1>10 DEF Bye, LastLine
<1>11. CASE ClosePool
  BY <1>0, <1>11 DEF ClosePool
<1>12. CASE JoinThreads
  BY <1>0, <1>12 DEF JoinThreads
<1>13. CASE ConsoleCheck
  BY <1>0, <1>13 DEF ConsoleCheck
<1>14. CASE PrintLine
  BY <1>0, <1>14 DEF PrintLine
<1>15. CASE CoordinatorDies
  <2>1. AreMade'
    BY <1>15 DEF CoordinatorDies, TypeOK, Untyped, Connections, AreMade, Made
  <2>2. NotAccepted'
    BY <1>15
       DEF CoordinatorDies, TypeOK, Connections, NotAccepted, AreMade, Made, OneBacklog
  <2>3. OneBacklog'
    BY <1>15 DEF CoordinatorDies, TypeOK, Connections, OneBacklog, AreMade, Made
  <2>4. OneReader'
    BY <1>15 DEF CoordinatorDies, TypeOK, Connections, OneReader, NotAccepted
  <2>. QED
    BY <2>1, <2>2, <2>3, <2>4 DEF Connections
<1>16. ASSUME NEW n \in Commands, SetUpListenerSocket(n) PROVE Connections'
  BY <1>0, <1>16 DEF SetUpListenerSocket, Step
<1>17. ASSUME NEW n \in Commands, Accept(n) PROVE Connections'
  <2>0. PICK c \in backlog[n] : /\ messenger' = [messenger EXCEPT ![n] = c]
                                /\ backlog' = [backlog EXCEPT ![n] = @ \ {c}]
    BY <1>17 DEF Accept
  <2>a. c \in Commands /\ UNCHANGED <<request, received, parsed, logged, sent>>
    BY <1>17 DEF Accept, printing, coordinator, TypeOK
  <2>b. \A m \in Commands : messenger'[m] = IF m = n THEN c ELSE messenger[m]
    BY <2>0 DEF TypeOK
  <2>c. \A m \in Commands : backlog'[m] = IF m = n THEN backlog[m] \ {c} ELSE backlog[m]
    BY <2>0 DEF TypeOK
  <2>d. \A m \in Commands : task'[m] = IF m = n THEN "check" ELSE task[m]
    BY <1>17 DEF Accept, Step, TypeOK
  <2>e. messenger[n] = 0 /\ received[n] = 0 /\ parsed[n] = 0
    BY <1>17 DEF Accept, Counts, NothingYet, Fresh
  <2>f. \A m \in Commands : messenger[m] # c
    BY <2>a DEF Connections, NotAccepted
  <2>1. AreMade'
    BY <2>a, <2>b, <2>c, <2>d, <2>e DEF Connections, AreMade, Made
  <2>2. NotAccepted'
    <3>1. \A m \in Commands : c \notin backlog'[m]
      BY <2>a, <2>c DEF Connections, OneBacklog
    <3>2. \A m \in Commands : backlog'[m] \subseteq backlog[m]
      BY <2>c
    <3>3. ASSUME NEW k \in Commands, NEW m \in Commands, NEW d \in Commands, d \in backlog'[k]
          PROVE  messenger'[m] # d
      <4>1. d \in backlog[k] /\ d # c
        BY <3>1, <3>2, <3>3
      <4>2. messenger[m] # d
        BY <4>1 DEF Connections, NotAccepted
      <4>. QED
        BY <2>b, <4>1, <4>2
    <3>. QED
      BY <3>3 DEF NotAccepted
  <2>3. OneBacklog'
    BY <2>a, <2>b, <2>c, <2>d, <2>e DEF Connections, OneBacklog
  <2>4. OneReader'
    BY <2>b, <2>f DEF Connections, OneReader
  <2>. QED
    BY <2>1, <2>2, <2>3, <2>4 DEF Connections
<1>18. ASSUME NEW n \in Commands, UpdateTaskStatus(n) PROVE Connections'
  BY <1>0, <1>18 DEF UpdateTaskStatus, Step
<1>19. ASSUME NEW n \in Commands, LogMessage(n) PROVE Connections'
  BY <1>0, <1>19 DEF LogMessage, LeftInParser, Step
<1>20. ASSUME NEW n \in Commands, ReceiveData(n) PROVE Connections'
  BY <1>0, <1>20 DEF ReceiveData, Unread, Step
<1>21. ASSUME NEW n \in Commands, CleanUp(n) PROVE Connections'
  <2>1. AreMade'
    BY <1>21 DEF CleanUp, Step, TypeOK, Untyped, Connections, AreMade, Made
  <2>2. NotAccepted'
    BY <1>21
       DEF CleanUp, Step, TypeOK, Connections, NotAccepted, AreMade, Made, OneBacklog
  <2>3. OneBacklog'
    BY <1>21 DEF CleanUp, Step, TypeOK, Connections, OneBacklog, AreMade, Made
  <2>4. OneReader'
    BY <1>21 DEF CleanUp, Step, TypeOK, Connections, OneReader, NotAccepted
  <2>. QED
    BY <2>1, <2>2, <2>3, <2>4 DEF Connections
<1>22. ASSUME NEW n \in Commands, SendRegistrationResponse(n) PROVE Connections'
  <2>1. AreMade'
    BY <1>22 DEF SendRegistrationResponse, TypeOK, Untyped, Connections, AreMade, Made
  <2>2. NotAccepted'
    BY <1>22
       DEF SendRegistrationResponse, TypeOK, Connections, NotAccepted, AreMade, Made,
           OneBacklog
  <2>3. OneBacklog'
    BY <1>22
       DEF SendRegistrationResponse, TypeOK, Connections, OneBacklog, AreMade, Made
  <2>4. OneReader'
    BY <1>22 DEF SendRegistrationResponse, TypeOK, Connections, OneReader, NotAccepted
  <2>. QED
    BY <2>1, <2>2, <2>3, <2>4 DEF Connections
<1>23. ASSUME NEW n \in Commands, ConnectToParticipant(n) PROVE Connections'
  <2>1. AreMade'
    BY <1>23 DEF ConnectToParticipant, TypeOK, Untyped, Connections, AreMade, Made
  <2>2. NotAccepted'
    BY <1>23
       DEF ConnectToParticipant, TypeOK, Connections, NotAccepted, AreMade, Made,
           OneBacklog
  <2>3. OneBacklog'
    BY <1>23 DEF ConnectToParticipant, TypeOK, Connections, OneBacklog, AreMade, Made
  <2>4. OneReader'
    BY <1>23 DEF ConnectToParticipant, TypeOK, Connections, OneReader, NotAccepted
  <2>. QED
    BY <2>1, <2>2, <2>3, <2>4 DEF Connections
<1>24. ASSUME NEW n \in Commands, SendMulticast(n) PROVE Connections'
  BY <1>0, <1>24 DEF SendMulticast
<1>25. ASSUME NEW n \in Commands, LeaveGroup(n) PROVE Connections'
  <2>1. AreMade'
    BY <1>25 DEF LeaveGroup, TypeOK, Untyped, Connections, AreMade, Made
  <2>2. NotAccepted'
    BY <1>25 DEF LeaveGroup, TypeOK, Connections, NotAccepted, AreMade, Made, OneBacklog
  <2>3. OneBacklog'
    BY <1>25 DEF LeaveGroup, TypeOK, Connections, OneBacklog, AreMade, Made
  <2>4. OneReader'
    BY <1>25 DEF LeaveGroup, TypeOK, Connections, OneReader, NotAccepted
  <2>. QED
    BY <2>1, <2>2, <2>3, <2>4 DEF Connections
<1>26. CASE UNCHANGED vars
  BY <1>0, <1>26 DEF vars
<1>27. QED
  BY <1>1, <1>2, <1>3, <1>4, <1>5, <1>6, <1>7, <1>8, <1>9, <1>10, <1>11, <1>12, <1>13,
     <1>14, <1>15, <1>16, <1>17, <1>18, <1>19, <1>20, <1>21, <1>22, <1>23, <1>24,
     <1>25, <1>26
     DEF Next, Type, Start, RunConsole, RunReceiver, Answer

(* A message is counted once. *)
LEMMA CountsStep == TypeOK /\ Untyped /\ Connections /\ Counts /\ [Next]_vars => Counts'
<1> SUFFICES ASSUME TypeOK /\ Untyped /\ Connections /\ Counts, [Next]_vars PROVE Counts'
  OBVIOUS
<1>0. UNCHANGED <<task, messenger, received, parsed, logged, sent>>
      => Counts'
  BY DEF TypeOK, Counts, NothingYet, HasMessenger, Counted, NoneLogged, Fresh
<1>1. CASE TypeInvalid
  BY <1>0, <1>1 DEF TypeInvalid, Kinds
<1>2. CASE TypeInVain
  BY <1>0, <1>2 DEF TypeInVain
<1>3. CASE TypeQuit
  BY <1>0, <1>3 DEF TypeQuit
<1>4. CASE \E k \in Kinds : TypeRequest(k)
  BY <1>0, <1>4 DEF TypeRequest, Kinds
<1>5. CASE WaitForMessage
  BY <1>0, <1>5 DEF WaitForMessage, IdInResponse
<1>6. CASE Listen
  <2>1. NothingYet'
    BY <1>6 DEF Listen, TypeOK, Untyped, Counts, NothingYet, Fresh
  <2>2. HasMessenger'
    BY <1>6 DEF Listen, TypeOK, Untyped, Counts, HasMessenger, NothingYet, Fresh
  <2>3. Counted'
    BY <1>6
       DEF Listen, TypeOK, Untyped, Connections, OneReader, NotAccepted, Counts,
           Counted, HasMessenger, NothingYet, NoneLogged, Fresh
  <2>4. NoneLogged'
    BY <1>6
       DEF Listen, TypeOK, Connections, NotAccepted, Counts, NoneLogged, HasMessenger,
           NothingYet, Fresh
  <2>. QED
    BY <2>1, <2>2, <2>3, <2>4 DEF Counts
<1>7. CASE Leave
  BY <1>0, <1>7 DEF Leave
<1>8. CASE MSend
  BY <1>0, <1>8 DEF MSend
<1>9. CASE WaitForCompletion
  BY <1>0, <1>9 DEF WaitForCompletion, HasStopped
<1>10. CASE Bye
  BY <1>0, <1>10 DEF Bye, LastLine
<1>11. CASE ClosePool
  BY <1>0, <1>11 DEF ClosePool
<1>12. CASE JoinThreads
  BY <1>0, <1>12 DEF JoinThreads
<1>13. CASE ConsoleCheck
  BY <1>0, <1>13 DEF ConsoleCheck
<1>14. CASE PrintLine
  BY <1>0, <1>14 DEF PrintLine
<1>15. CASE CoordinatorDies
  BY <1>0, <1>15 DEF CoordinatorDies
<1>16. ASSUME NEW n \in Commands, SetUpListenerSocket(n) PROVE Counts'
  <2>1. NothingYet'
    BY <1>16 DEF SetUpListenerSocket, Step, TypeOK, Untyped, Counts, NothingYet, Fresh
  <2>2. HasMessenger'
    BY <1>16
       DEF SetUpListenerSocket, Step, TypeOK, Untyped, Counts, HasMessenger,
           NothingYet, Fresh
  <2>3. Counted'
    BY <1>16
       DEF SetUpListenerSocket, Step, TypeOK, Untyped, Connections, OneReader,
           NotAccepted, Counts, Counted, HasMessenger, NothingYet, NoneLogged, Fresh
  <2>4. NoneLogged'
    BY <1>16
       DEF SetUpListenerSocket, Step, TypeOK, Connections, NotAccepted, Counts,
           NoneLogged, HasMessenger, NothingYet, Fresh
  <2>. QED
    BY <2>1, <2>2, <2>3, <2>4 DEF Counts
<1>17. ASSUME NEW n \in Commands, Accept(n) PROVE Counts'
  <2>0. PICK c \in backlog[n] : /\ messenger' = [messenger EXCEPT ![n] = c]
                                /\ backlog' = [backlog EXCEPT ![n] = @ \ {c}]
    BY <1>17 DEF Accept
  <2>a. c \in Commands /\ UNCHANGED <<request, received, parsed, logged, sent>>
    BY <1>17 DEF Accept, printing, coordinator, TypeOK
  <2>b. \A m \in Commands : messenger'[m] = IF m = n THEN c ELSE messenger[m]
    BY <2>0 DEF TypeOK
  <2>c. \A m \in Commands : backlog'[m] = IF m = n THEN backlog[m] \ {c} ELSE backlog[m]
    BY <2>0 DEF TypeOK
  <2>d. \A m \in Commands : task'[m] = IF m = n THEN "check" ELSE task[m]
    BY <1>17 DEF Accept, Step, TypeOK
  <2>e. messenger[n] = 0 /\ received[n] = 0 /\ parsed[n] = 0
    BY <1>17 DEF Accept, Counts, NothingYet, Fresh
  <2>f. \A m \in Commands : messenger[m] # c
    BY <2>a DEF Connections, NotAccepted
  <2>1. NothingYet'
    BY <2>a, <2>b, <2>c, <2>d, <2>e DEF Counts, NothingYet, Fresh
  <2>2. HasMessenger'
    BY <2>a, <2>b, <2>c, <2>d, <2>e DEF Counts, HasMessenger
  <2>3. Counted'
    BY <2>a, <2>b, <2>c, <2>d, <2>e
       DEF TypeOK, Connections, NotAccepted, Counts, Counted, NoneLogged
  <2>4. NoneLogged'
    BY <2>a, <2>b, <2>c, <2>d, <2>e DEF Counts, NoneLogged
  <2>. QED
    BY <2>1, <2>2, <2>3, <2>4 DEF Counts
<1>18. ASSUME NEW n \in Commands, UpdateTaskStatus(n) PROVE Counts'
  <2>1. NothingYet'
    BY <1>18 DEF UpdateTaskStatus, Step, TypeOK, Untyped, Counts, NothingYet, Fresh
  <2>2. HasMessenger'
    BY <1>18
       DEF UpdateTaskStatus, Step, TypeOK, Untyped, Counts, HasMessenger, NothingYet,
           Fresh
  <2>3. Counted'
    BY <1>18
       DEF UpdateTaskStatus, Step, TypeOK, Untyped, Connections, OneReader,
           NotAccepted, Counts, Counted, HasMessenger, NothingYet, NoneLogged, Fresh
  <2>4. NoneLogged'
    BY <1>18
       DEF UpdateTaskStatus, Step, TypeOK, Connections, NotAccepted, Counts,
           NoneLogged, HasMessenger, NothingYet, Fresh
  <2>. QED
    BY <2>1, <2>2, <2>3, <2>4 DEF Counts
<1>19. ASSUME NEW n \in Commands, LogMessage(n) PROVE Counts'
  <2>1. NothingYet'
    BY <1>19
       DEF LogMessage, LeftInParser, Step, TypeOK, Untyped, Counts, NothingYet, Fresh
  <2>2. HasMessenger'
    BY <1>19
       DEF LogMessage, LeftInParser, Step, TypeOK, Untyped, Counts, HasMessenger,
           NothingYet, Fresh
  <2>3. Counted'
    BY <1>19
       DEF LogMessage, LeftInParser, Step, TypeOK, Untyped, Connections, OneReader,
           NotAccepted, Counts, Counted, HasMessenger, NothingYet, NoneLogged, Fresh
  <2>4. NoneLogged'
    BY <1>19
       DEF LogMessage, LeftInParser, Step, TypeOK, Connections, NotAccepted, Counts,
           NoneLogged, HasMessenger, NothingYet, Fresh
  <2>. QED
    BY <2>1, <2>2, <2>3, <2>4 DEF Counts
<1>20. ASSUME NEW n \in Commands, ReceiveData(n) PROVE Counts'
  <2>1. NothingYet'
    BY <1>20 DEF ReceiveData, Unread, Step, TypeOK, Untyped, Counts, NothingYet, Fresh
  <2>2. HasMessenger'
    BY <1>20
       DEF ReceiveData, Unread, Step, TypeOK, Untyped, Counts, HasMessenger,
           NothingYet, Fresh
  <2>3. Counted'
    <3>1. UNCHANGED <<messenger, logged, sent>> /\ parsed[n] = 0
      BY <1>20 DEF ReceiveData, coordinator
    <3>2. CASE UNCHANGED <<received, parsed>>
      BY <3>1, <3>2 DEF Counts, Counted
    <3>3. ASSUME NEW k \in 1..Unread(n), received' = [received EXCEPT ![n] = @ + k],
                 parsed' = [parsed EXCEPT ![n] = k]
          PROVE  Counted'
      <4>1. \A m \in Commands \ {n} : received'[m] = received[m] /\ parsed'[m] = parsed[m]
        BY <3>3 DEF TypeOK
      <4>2. received'[n] = received[n] + k /\ parsed'[n] = k
        BY <3>3 DEF TypeOK
      <4>3. /\ logged[messenger[n]] = received'[n] - parsed'[n]
            /\ received'[n] <= sent[messenger[n]]
        BY <1>20, <3>1, <4>2, Reading DEF ReceiveData, Unread
      <4>. QED
        BY <3>1, <4>1, <4>3 DEF Counts, Counted
    <3>. QED
      BY <1>20, <3>2, <3>3 DEF ReceiveData
  <2>4. NoneLogged'
    BY <1>20
       DEF ReceiveData, Unread, Step, TypeOK, Connections, NotAccepted, Counts,
           NoneLogged, HasMessenger, NothingYet, Fresh
  <2>. QED
    BY <2>1, <2>2, <2>3, <2>4 DEF Counts
<1>21. ASSUME NEW n \in Commands, CleanUp(n) PROVE Counts'
  <2>1. NothingYet'
    BY <1>21 DEF CleanUp, Step, TypeOK, Untyped, Counts, NothingYet, Fresh
  <2>2. HasMessenger'
    BY <1>21 DEF CleanUp, Step, TypeOK, Untyped, Counts, HasMessenger, NothingYet, Fresh
  <2>3. Counted'
    BY <1>21
       DEF CleanUp, Step, TypeOK, Untyped, Connections, OneReader, NotAccepted, Counts,
           Counted, HasMessenger, NothingYet, NoneLogged, Fresh
  <2>4. NoneLogged'
    BY <1>21
       DEF CleanUp, Step, TypeOK, Connections, NotAccepted, Counts, NoneLogged,
           HasMessenger, NothingYet, Fresh
  <2>. QED
    BY <2>1, <2>2, <2>3, <2>4 DEF Counts
<1>22. ASSUME NEW n \in Commands, SendRegistrationResponse(n) PROVE Counts'
  BY <1>0, <1>22 DEF SendRegistrationResponse
<1>23. ASSUME NEW n \in Commands, ConnectToParticipant(n) PROVE Counts'
  BY <1>0, <1>23 DEF ConnectToParticipant
<1>24. ASSUME NEW n \in Commands, SendMulticast(n) PROVE Counts'
  <2>1. NothingYet'
    BY <1>24 DEF SendMulticast, TypeOK, Untyped, Counts, NothingYet, Fresh
  <2>2. HasMessenger'
    BY <1>24 DEF SendMulticast, TypeOK, Untyped, Counts, HasMessenger, NothingYet, Fresh
  <2>3. Counted'
    BY <1>24
       DEF SendMulticast, TypeOK, Untyped, Connections, OneReader, NotAccepted, Counts,
           Counted, HasMessenger, NothingYet, NoneLogged, Fresh
  <2>4. NoneLogged'
    BY <1>24
       DEF SendMulticast, TypeOK, Connections, NotAccepted, Counts, NoneLogged,
           HasMessenger, NothingYet, Fresh
  <2>. QED
    BY <2>1, <2>2, <2>3, <2>4 DEF Counts
<1>25. ASSUME NEW n \in Commands, LeaveGroup(n) PROVE Counts'
  BY <1>0, <1>25 DEF LeaveGroup
<1>26. CASE UNCHANGED vars
  BY <1>0, <1>26 DEF vars
<1>27. QED
  BY <1>1, <1>2, <1>3, <1>4, <1>5, <1>6, <1>7, <1>8, <1>9, <1>10, <1>11, <1>12, <1>13,
     <1>14, <1>15, <1>16, <1>17, <1>18, <1>19, <1>20, <1>21, <1>22, <1>23, <1>24,
     <1>25, <1>26
     DEF Next, Type, Start, RunConsole, RunReceiver, Answer

(* Start creates a receiver only when the last one has stopped. *)
LEMMA AliveStep == TypeOK /\ Untyped /\ AliveIsCurrent /\ [Next]_vars => AliveIsCurrent'
<1> SUFFICES ASSUME TypeOK /\ Untyped /\ AliveIsCurrent, [Next]_vars PROVE AliveIsCurrent'
  OBVIOUS
<1>0. UNCHANGED <<task, connected, current>>
      => AliveIsCurrent'
  BY DEF TypeOK, Untyped, AliveIsCurrent, Alive
<1>1. CASE TypeInvalid
  BY <1>0, <1>1 DEF TypeInvalid, Kinds
<1>2. CASE TypeInVain
  BY <1>0, <1>2 DEF TypeInVain
<1>3. CASE TypeQuit
  BY <1>0, <1>3 DEF TypeQuit
<1>4. CASE \E k \in Kinds : TypeRequest(k)
  BY <1>0, <1>4 DEF TypeRequest, Kinds
<1>5. CASE WaitForMessage
  BY <1>0, <1>5 DEF WaitForMessage, IdInResponse
<1>6. CASE Listen
  BY <1>6 DEF Listen, TypeOK, Untyped, AliveIsCurrent, Alive
<1>7. CASE Leave
  BY <1>0, <1>7 DEF Leave
<1>8. CASE MSend
  BY <1>0, <1>8 DEF MSend
<1>9. CASE WaitForCompletion
  BY <1>9 DEF WaitForCompletion, HasStopped, TypeOK, Untyped, AliveIsCurrent, Alive
<1>10. CASE Bye
  BY <1>0, <1>10 DEF Bye, LastLine
<1>11. CASE ClosePool
  BY <1>0, <1>11 DEF ClosePool
<1>12. CASE JoinThreads
  BY <1>0, <1>12 DEF JoinThreads
<1>13. CASE ConsoleCheck
  BY <1>0, <1>13 DEF ConsoleCheck
<1>14. CASE PrintLine
  BY <1>0, <1>14 DEF PrintLine
<1>15. CASE CoordinatorDies
  BY <1>0, <1>15 DEF CoordinatorDies
<1>16. ASSUME NEW n \in Commands, SetUpListenerSocket(n) PROVE AliveIsCurrent'
  BY <1>16 DEF SetUpListenerSocket, Step, TypeOK, Untyped, AliveIsCurrent, Alive
<1>17. ASSUME NEW n \in Commands, Accept(n) PROVE AliveIsCurrent'
  BY <1>17 DEF Accept, Step, TypeOK, Untyped, AliveIsCurrent, Alive
<1>18. ASSUME NEW n \in Commands, UpdateTaskStatus(n) PROVE AliveIsCurrent'
  BY <1>18 DEF UpdateTaskStatus, Step, TypeOK, Untyped, AliveIsCurrent, Alive
<1>19. ASSUME NEW n \in Commands, LogMessage(n) PROVE AliveIsCurrent'
  BY <1>19 DEF LogMessage, LeftInParser, Step, TypeOK, Untyped, AliveIsCurrent, Alive
<1>20. ASSUME NEW n \in Commands, ReceiveData(n) PROVE AliveIsCurrent'
  BY <1>20 DEF ReceiveData, Unread, Step, TypeOK, Untyped, AliveIsCurrent, Alive
<1>21. ASSUME NEW n \in Commands, CleanUp(n) PROVE AliveIsCurrent'
  BY <1>21 DEF CleanUp, Step, TypeOK, Untyped, AliveIsCurrent, Alive
<1>22. ASSUME NEW n \in Commands, SendRegistrationResponse(n) PROVE AliveIsCurrent'
  BY <1>0, <1>22 DEF SendRegistrationResponse
<1>23. ASSUME NEW n \in Commands, ConnectToParticipant(n) PROVE AliveIsCurrent'
  BY <1>0, <1>23 DEF ConnectToParticipant
<1>24. ASSUME NEW n \in Commands, SendMulticast(n) PROVE AliveIsCurrent'
  BY <1>0, <1>24 DEF SendMulticast
<1>25. ASSUME NEW n \in Commands, LeaveGroup(n) PROVE AliveIsCurrent'
  BY <1>0, <1>25 DEF LeaveGroup
<1>26. CASE UNCHANGED vars
  BY <1>0, <1>26 DEF vars
<1>27. QED
  BY <1>1, <1>2, <1>3, <1>4, <1>5, <1>6, <1>7, <1>8, <1>9, <1>10, <1>11, <1>12, <1>13,
     <1>14, <1>15, <1>16, <1>17, <1>18, <1>19, <1>20, <1>21, <1>22, <1>23, <1>24,
     <1>25, <1>26
     DEF Next, Type, Start, RunConsole, RunReceiver, Answer

(* Requests and receivers keep in step unless something is stray. *)
LEMMA OrderStep == IInv /\ [Next]_vars => InOrder'
<1> SUFFICES ASSUME IInv, [Next]_vars PROVE InOrder'
  OBVIOUS
<1> USE DEF IInv, TypeOK, Untyped, Connections, AreMade, Made, Counts,
            NothingYet, HasMessenger, Fresh, AliveIsCurrent, Alive, InOrder,
            AskedInTime, AnswerIsAwaited, OwnConnection, Asking, Belongs
<1>0. UNCHANGED <<pc, kind, typed, connected, participant_id, current, stray,
                 task, backlog, messenger, request, registration, up>>
      => InOrder'
  OBVIOUS
<1>1. CASE TypeInvalid
  <2>1. (~stray => AskedInTime)'
    BY <1>1 DEF TypeInvalid, Kinds
  <2>2. (~stray => AnswerIsAwaited)'
    BY <1>1 DEF TypeInvalid, Kinds
  <2>3. (~stray => OwnConnection)'
    BY <1>1 DEF TypeInvalid, Kinds
  <2>. QED
    BY <2>1, <2>2, <2>3
<1>2. CASE TypeInVain
  <2>1. (~stray => AskedInTime)'
    BY <1>2 DEF TypeInVain
  <2>2. (~stray => AnswerIsAwaited)'
    BY <1>2 DEF TypeInVain
  <2>3. (~stray => OwnConnection)'
    BY <1>2 DEF TypeInVain
  <2>. QED
    BY <2>1, <2>2, <2>3
<1>3. CASE TypeQuit
  <2>1. (~stray => AskedInTime)'
    BY <1>3 DEF TypeQuit
  <2>2. (~stray => AnswerIsAwaited)'
    BY <1>3 DEF TypeQuit
  <2>3. (~stray => OwnConnection)'
    BY <1>3 DEF TypeQuit
  <2>. QED
    BY <2>1, <2>2, <2>3
<1>4. CASE \E k \in Kinds : TypeRequest(k)
  <2>1. (~stray => AskedInTime)'
    BY <1>4 DEF TypeRequest, Kinds
  <2>2. (~stray => AnswerIsAwaited)'
    BY <1>4 DEF TypeRequest, Kinds
  <2>3. (~stray => OwnConnection)'
    BY <1>4 DEF TypeRequest, Kinds
  <2>. QED
    BY <2>1, <2>2, <2>3
<1>5. CASE WaitForMessage
  <2>1. (~stray => AskedInTime)'
    BY <1>5 DEF WaitForMessage, IdInResponse
  <2>2. (~stray => AnswerIsAwaited)'
    BY <1>5 DEF WaitForMessage, IdInResponse
  <2>3. (~stray => OwnConnection)'
    BY <1>5 DEF WaitForMessage, IdInResponse
  <2>. QED
    BY <2>1, <2>2, <2>3
<1>6. CASE Listen
  <2>1. (~stray => AskedInTime)'
    BY <1>6 DEF Listen
  <2>2. (~stray => AnswerIsAwaited)'
    BY <1>6 DEF Listen
  <2>3. (~stray => OwnConnection)'
    BY <1>6 DEF Listen
  <2>. QED
    BY <2>1, <2>2, <2>3
<1>7. CASE Leave
  <2>1. (~stray => AskedInTime)'
    BY <1>7 DEF Leave
  <2>2. (~stray => AnswerIsAwaited)'
    BY <1>7 DEF Leave
  <2>3. (~stray => OwnConnection)'
    BY <1>7 DEF Leave
  <2>. QED
    BY <2>1, <2>2, <2>3
<1>8. CASE MSend
  <2>1. (~stray => AskedInTime)'
    BY <1>8 DEF MSend
  <2>2. (~stray => AnswerIsAwaited)'
    BY <1>8 DEF MSend
  <2>3. (~stray => OwnConnection)'
    BY <1>8 DEF MSend
  <2>. QED
    BY <2>1, <2>2, <2>3
<1>9. CASE WaitForCompletion
  <2>1. (~stray => AskedInTime)'
    BY <1>9 DEF WaitForCompletion, HasStopped
  <2>2. (~stray => AnswerIsAwaited)'
    BY <1>9 DEF WaitForCompletion, HasStopped
  <2>3. (~stray => OwnConnection)'
    BY <1>9 DEF WaitForCompletion, HasStopped
  <2>. QED
    BY <2>1, <2>2, <2>3
<1>10. CASE Bye
  <2>1. (~stray => AskedInTime)'
    BY <1>10 DEF Bye, LastLine
  <2>2. (~stray => AnswerIsAwaited)'
    BY <1>10 DEF Bye, LastLine
  <2>3. (~stray => OwnConnection)'
    BY <1>10 DEF Bye, LastLine
  <2>. QED
    BY <2>1, <2>2, <2>3
<1>11. CASE ClosePool
  BY <1>0, <1>11 DEF ClosePool
<1>12. CASE JoinThreads
  <2>1. (~stray => AskedInTime)'
    BY <1>12 DEF JoinThreads
  <2>2. (~stray => AnswerIsAwaited)'
    BY <1>12 DEF JoinThreads
  <2>3. (~stray => OwnConnection)'
    BY <1>12 DEF JoinThreads
  <2>. QED
    BY <2>1, <2>2, <2>3
<1>13. CASE ConsoleCheck
  BY <1>0, <1>13 DEF ConsoleCheck
<1>14. CASE PrintLine
  BY <1>0, <1>14 DEF PrintLine
<1>15. CASE CoordinatorDies
  <2>1. (~stray => AskedInTime)'
    BY <1>15 DEF CoordinatorDies
  <2>2. (~stray => AnswerIsAwaited)'
    BY <1>15 DEF CoordinatorDies
  <2>3. (~stray => OwnConnection)'
    BY <1>15 DEF CoordinatorDies
  <2>. QED
    BY <2>1, <2>2, <2>3
<1>16. ASSUME NEW n \in Commands, SetUpListenerSocket(n) PROVE InOrder'
  <2>1. (~stray => AskedInTime)'
    BY <1>16 DEF SetUpListenerSocket, Step
  <2>2. (~stray => AnswerIsAwaited)'
    BY <1>16 DEF SetUpListenerSocket, Step
  <2>3. (~stray => OwnConnection)'
    BY <1>16 DEF SetUpListenerSocket, Step
  <2>. QED
    BY <2>1, <2>2, <2>3
<1>17. ASSUME NEW n \in Commands, Accept(n) PROVE InOrder'
  <2>1. (~stray => AskedInTime)'
    BY <1>17 DEF Accept, Step
  <2>2. (~stray => AnswerIsAwaited)'
    BY <1>17 DEF Accept, Step
  <2>3. (~stray => OwnConnection)'
    BY <1>17 DEF Accept, Step
  <2>. QED
    BY <2>1, <2>2, <2>3
<1>18. ASSUME NEW n \in Commands, UpdateTaskStatus(n) PROVE InOrder'
  <2>1. (~stray => AskedInTime)'
    BY <1>18 DEF UpdateTaskStatus, Step
  <2>2. (~stray => AnswerIsAwaited)'
    BY <1>18 DEF UpdateTaskStatus, Step
  <2>3. (~stray => OwnConnection)'
    BY <1>18 DEF UpdateTaskStatus, Step
  <2>. QED
    BY <2>1, <2>2, <2>3
<1>19. ASSUME NEW n \in Commands, LogMessage(n) PROVE InOrder'
  <2>1. (~stray => AskedInTime)'
    BY <1>19 DEF LogMessage, LeftInParser, Step
  <2>2. (~stray => AnswerIsAwaited)'
    BY <1>19 DEF LogMessage, LeftInParser, Step
  <2>3. (~stray => OwnConnection)'
    BY <1>19 DEF LogMessage, LeftInParser, Step
  <2>. QED
    BY <2>1, <2>2, <2>3
<1>20. ASSUME NEW n \in Commands, ReceiveData(n) PROVE InOrder'
  <2>1. (~stray => AskedInTime)'
    BY <1>20 DEF ReceiveData, Unread, Step
  <2>2. (~stray => AnswerIsAwaited)'
    BY <1>20 DEF ReceiveData, Unread, Step
  <2>3. (~stray => OwnConnection)'
    BY <1>20 DEF ReceiveData, Unread, Step
  <2>. QED
    BY <2>1, <2>2, <2>3
<1>21. ASSUME NEW n \in Commands, CleanUp(n) PROVE InOrder'
  <2>1. (~stray => AskedInTime)'
    BY <1>21 DEF CleanUp, Step
  <2>2. (~stray => AnswerIsAwaited)'
    BY <1>21 DEF CleanUp, Step
  <2>3. (~stray => OwnConnection)'
    BY <1>21 DEF CleanUp, Step
  <2>. QED
    BY <2>1, <2>2, <2>3
<1>22. ASSUME NEW n \in Commands, SendRegistrationResponse(n) PROVE InOrder'
  <2>1. (~stray => AskedInTime)'
    BY <1>22 DEF SendRegistrationResponse
  <2>2. (~stray => AnswerIsAwaited)'
    BY <1>22 DEF SendRegistrationResponse
  <2>3. (~stray => OwnConnection)'
    BY <1>22 DEF SendRegistrationResponse
  <2>. QED
    BY <2>1, <2>2, <2>3
<1>23. ASSUME NEW n \in Commands, ConnectToParticipant(n) PROVE InOrder'
  <2>1. (~stray => AskedInTime)'
    BY <1>23 DEF ConnectToParticipant
  <2>2. (~stray => AnswerIsAwaited)'
    BY <1>23 DEF ConnectToParticipant
  <2>3. (~stray => OwnConnection)'
    BY <1>23 DEF ConnectToParticipant
  <2>. QED
    BY <2>1, <2>2, <2>3
<1>24. ASSUME NEW n \in Commands, SendMulticast(n) PROVE InOrder'
  BY <1>0, <1>24 DEF SendMulticast
<1>25. ASSUME NEW n \in Commands, LeaveGroup(n) PROVE InOrder'
  <2>1. (~stray => AskedInTime)'
    BY <1>25 DEF LeaveGroup
  <2>2. (~stray => AnswerIsAwaited)'
    BY <1>25 DEF LeaveGroup
  <2>3. (~stray => OwnConnection)'
    BY <1>25 DEF LeaveGroup
  <2>. QED
    BY <2>1, <2>2, <2>3
<1>26. CASE UNCHANGED vars
  BY <1>0, <1>26 DEF vars
<1>27. QED
  BY <1>1, <1>2, <1>3, <1>4, <1>5, <1>6, <1>7, <1>8, <1>9, <1>10, <1>11, <1>12, <1>13,
     <1>14, <1>15, <1>16, <1>17, <1>18, <1>19, <1>20, <1>21, <1>22, <1>23, <1>24,
     <1>25, <1>26
     DEF Next, Type, Start, RunConsole, RunReceiver, Answer

(* The invariant is inductive. *)
THEOREM IInvHolds == Spec => []IInv
<1>1. IInv /\ [Next]_vars => IInv'
  BY TypeStep, UntypedStep, ConnectionsStep, CountsStep, AliveStep, OrderStep DEF IInv
<1>. QED
  BY InitInv, <1>1, PTL DEF Spec

(* Every member keeps its type; in particular no multicast is logged twice  *)
(* (MulticastReceiver::RunAtomic).                                          *)
THEOREM TypeCorrect == Spec => []TypeOK
<1>1. IInv => TypeOK
  BY DEF IInv
<1>. QED
  BY IInvHolds, <1>1, PTL

(* Start waits for a receiver before it forgets it: two never receive at    *)
(* once, and none receives at the prompt of a participant that is not       *)
(* connected (participant.cpp:54-59 and 74-76).                             *)
THEOREM OneReceiverHolds == Spec => []OneReceiver
<1>1. IInv => OneReceiver
  BY DEF IInv, AliveIsCurrent, Alive, OneReceiver, Receives
<1>. QED
  BY IInvHolds, <1>1, PTL

(* The id that the participant presents is the one its connection is for,   *)
(* unless a connection was asked for that no receiver waits for.            *)
THEOREM IdNamesConnectionHolds == Spec => []IdNamesConnection
<1>1. IInv => IdNamesConnection
  BY DEF IInv, TypeOK, Connections, AreMade, Made, InOrder, AskedInTime, OwnConnection,
         Belongs,
         IdNamesConnection
<1>. QED
  BY IInvHolds, <1>1, PTL
=============================================================================
