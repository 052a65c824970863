--------------------------- MODULE Server_proofs ---------------------------
(***************************************************************************)
(* Proofs about Server, for any number of clients, callers, descriptors    *)
(* and messages: descriptors are kept and closed, results meet the calls   *)
(* that wait for them, and a result tells whether the message was written. *)
(***************************************************************************)
EXTENDS Server, FiniteSetTheorems, TLAPS

-----------------------------------------------------------------------------
(* The inductive invariant. *)

(* What is known of the network and of the server task, and of the calls. *)
ServerType ==
    /\ peer \in [Clients -> {"away", "open", "closed", "reset"}]
    /\ backlog \subseteq Clients
    /\ owner \in [Fd -> Clients \cup {NoClient}] /\ listening \in BOOLEAN
    /\ pc \in {"set_up", "close_disconnected", "accept", "callback", "update",
               "cancel_tasks", "close", "ended"}
    /\ ret \in {"RUNNING", "FAILED"} /\ status \in {"RUNNING", "FAILED", "CANCELLED"}
    /\ new_client \in Clients \cup {NoClient}
    /\ cancelled \subseteq ClientTask \cup {ServerTask}
    /\ tasks \subseteq ClientTask /\ running \subseteq tasks
    /\ fd \in [Clients -> Fd \cup {NoFd}]
    /\ send_queues \subseteq Clients
    /\ destructor \in {"none", "waiting", "returned"}
    /\ killed \in BOOLEAN

CallType ==
    /\ queue \in [Clients -> Seq(MessageId)]
    /\ spc \in [Clients -> {"pop", "send", "callback"}]
    /\ smsg \in [Clients -> [id : MessageId \cup {NoMessage}, result : Result]]
    /\ message_id \in 0..MaxSends /\ send_results \in [MessageId -> Result]
    /\ call \in [Callers -> [at : {"idle", "push", "wait"}, id : MessageId \cup {NoMessage}]]
    /\ messages \in [MessageId -> [to : Clients \cup {NoClient}, async : BOOLEAN]]
    /\ returned \in [MessageId -> Result]
    /\ written \in [Clients -> Seq(MessageId)]

(* The type invariant: that of the server and its tasks, and that of the    *)
(* calls.                                                                   *)
LEMMA TypeParts == TypeOK <=> ServerType /\ CallType
BY DEF TypeOK, ServerType, CallType

(* A client that was announced has a sender in tasks_, with a descriptor,    *)
(* and nobody cancels a sender before CleanUp does, when the status of the   *)
(* server task has been set.                                                 *)
TaskInv ==
    /\ pc = "callback" => new_client \in Clients /\ SenderTask(new_client) \in tasks
    /\ \A c \in send_queues : SenderTask(c) \in tasks
    /\ \A c \in Clients : SenderTask(c) \in tasks => fd[c] \in Fd
    /\ pc \notin {"close", "ended"} =>
          /\ cancelled \subseteq {ServerTask}
          /\ \A c \in Clients : SenderTask(c) \in tasks => SenderTask(c) \in running
    /\ pc \in {"cancel_tasks", "close", "ended"} <=> status # "RUNNING"

(* The receivers in tasks_ and the descriptors that are open match one to    *)
(* one, and a client in the backlog has none yet.                            *)
DescriptorInv ==
    /\ \A c \in Clients : c \in backlog \/ peer[c] = "away" => \A f \in Fd : owner[f] # c
    /\ \A c \in backlog : peer[c] # "away"
    /\ pc # "ended" =>
         \A c \in Clients : ReceiverTask(c) \in tasks => fd[c] \in Fd /\ owner[fd[c]] = c
    /\ pc # "ended" =>
         \A f \in Fd : owner[f] # NoClient =>
                          ReceiverTask(owner[f]) \in tasks /\ fd[owner[f]] = f
    /\ pc = "ended" => \A f \in Fd : owner[f] = NoClient

ServerInv == ServerType /\ TaskInv /\ DescriptorInv

NoRepeats(s) == \A m, n \in DOMAIN s : s[m] = s[n] => m = n

(* The messages c's sender has to send or is sending. *)
Held(c) == Range(queue[c]) \cup ({smsg[c].id} \ {NoMessage})

(* Some call waits for the result of i. *)
Waits(i) == \E k \in Callers : call[k] = [at |-> "wait", id |-> i]

(* A sender that is not between two messages has one, which is not in its    *)
(* queue too, and reports a result only of a message somebody may wait for.  *)
SenderInv ==
    \A c \in Clients :
        /\ NoRepeats(queue[c]) /\ smsg[c].id \notin Range(queue[c])
        /\ spc[c] = "pop" <=> smsg[c].id = NoMessage
        /\ spc[c] = "callback" => smsg[c].result # "none" /\ ~messages[smsg[c].id].async

(* No two senders hold the same message, and no message is held before its   *)
(* caller has pushed it.                                                     *)
HeldInv ==
    /\ \A c \in Clients : \A i \in Held(c) : i <= message_id
    /\ \A c, d \in Clients : c # d => Held(c) \cap Held(d) = {}
    /\ \A k \in Callers :
          call[k].at = "push" => \A c \in Clients : call[k].id \notin Held(c)

CallerInv ==
    /\ \A k \in Callers : /\ call[k].at = "idle" <=> call[k].id = NoMessage
                          /\ call[k].id <= message_id
    /\ \A k, l \in Callers : k # l /\ call[k].id = call[l].id => call[k].id = NoMessage

(* A result is kept for a call that waits, and its message is with no sender. *)
ResultInv ==
    \A i \in MessageId :
        /\ send_results[i] # "none" => Waits(i) /\ \A c \in Clients : i \notin Held(c)
        /\ returned[i] # "none" => /\ i <= message_id
                                   /\ \A c \in Clients : i \notin Held(c)
                                   /\ \A k \in Callers : call[k].id # i

(* A synchronous message that a sender holds has a call that waits for it,   *)
(* and a call that waits has its result or its message is held by the sender *)
(* of its destination.                                                       *)
WaitInv ==
    /\ \A c \in Clients : \A i \in Held(c) : ~messages[i].async => Waits(i)
    /\ \A k \in Callers : call[k].at = "wait" =>
         ~messages[call[k].id].async /\ Destination(k) \in Clients \cap send_queues
    /\ \A k \in Callers, c \in Clients : call[k].at = "wait" /\ Destination(k) = c =>
         send_results[call[k].id] # "none" \/ call[k].id \in Held(c)

MeetInv == CallType /\ SenderInv /\ HeldInv /\ CallerInv /\ ResultInv /\ WaitInv

(* i was written to some connection. *)
IsWritten(i) == \E c \in Clients : i \in Range(written[c])

(* Nobody will write i any more. *)
Settled(i) ==
    /\ i <= message_id
    /\ \A c \in Clients : i \notin Range(queue[c])
    /\ \A c \in Clients : smsg[c].id = i => spc[c] = "callback" /\ smsg[c].result = "sent"
    /\ \A k \in Callers : call[k].id = i => call[k].at # "push"

(* No message is written twice, and one that was written is with nobody who  *)
(* could write it again.                                                     *)
OnceInv ==
    /\ \A c \in Clients : NoRepeats(written[c])
    /\ \A c, d \in Clients : c # d => Range(written[c]) \cap Range(written[d]) = {}
    /\ \A i \in MessageId : IsWritten(i) => Settled(i)

(* A result, wherever it is on its way to the caller, tells whether the      *)
(* message was written; the one write that SIGPIPE stops is not reported.    *)
TruthInv ==
    /\ \A i \in MessageId :
          /\ send_results[i] = "sent" \/ returned[i] = "sent" => IsWritten(i)
          /\ send_results[i] = "failed" \/ returned[i] = "failed" => ~IsWritten(i)
    /\ ~killed => \A c \in Clients :
          spc[c] = "callback" /\ smsg[c].result = "sent" => IsWritten(smsg[c].id)

WriteInv == OnceInv /\ TruthInv

-----------------------------------------------------------------------------
(* Tasks and descriptors. *)

LEMMA TaskFacts ==
    /\ \A c \in Clients : SenderTask(c) \in ClientTask /\ ReceiverTask(c) \in ClientTask
    /\ \A c, d \in Clients :
         /\ SenderTask(c) = SenderTask(d) <=> c = d
         /\ ReceiverTask(c) = ReceiverTask(d) <=> c = d
         /\ SenderTask(c) # ReceiverTask(d)
    /\ ServerTask \notin ClientTask
    /\ \A c \in Clients : SenderTask(c) # ServerTask /\ ReceiverTask(c) # ServerTask
    /\ \A c \in Clients : SenderTask(c)[2] = c /\ ReceiverTask(c)[2] = c
    /\ \A t \in ClientTask : t[2] \in Clients /\ (t = SenderTask(t[2]) \/ t = ReceiverTask(t[2]))
BY ServerAssumption DEF SenderTask, ReceiverTask, ClientTask, ServerTask

(* A server that is not set up has nothing open. *)
LEMMA ServerInit == Init => ServerInv
<1> SUFFICES ASSUME Init PROVE ServerInv
  OBVIOUS
<1>1. ServerType
  BY DEF Init, ServerType
<1>2. TaskInv
  BY DEF Init, TaskInv
<1>3. DescriptorInv
  BY ServerAssumption DEF Init, DescriptorInv
<1> QED
  BY <1>1, <1>2, <1>3 DEF ServerInv

(* A step that leaves net and server alone. *)
LEMMA ServerFrame ==
    ASSUME ServerInv, UNCHANGED <<net, server>>, destructor' \in {"none", "waiting", "returned"},
           killed' \in BOOLEAN
    PROVE  ServerInv'
BY DEF ServerInv, ServerType, TaskInv, DescriptorInv, net, server

(* What the clients do on their side. *)
LEMMA ConnectsStep ==
    ASSUME ServerInv, NEW c \in Clients, Connects(c) \/ Disconnects(c) PROVE ServerInv'
<1> USE DEF Connects, Disconnects, server
<1>1. ServerType'
  BY DEF ServerInv, ServerType
<1>2. TaskInv'
  BY DEF ServerInv, TaskInv
<1>3. DescriptorInv'
  BY DEF ServerInv, ServerType, DescriptorInv
<1> QED
  BY <1>1, <1>2, <1>3 DEF ServerInv

(* The listening socket is opened. *)
LEMMA SetUpStep == ASSUME ServerInv, SetUp PROVE ServerInv'
<1> USE DEF SetUp, At
<1>1. ServerType'
  BY DEF ServerInv, ServerType
<1>2. TaskInv'
  BY DEF ServerInv, TaskInv
<1>3. DescriptorInv'
  BY DEF ServerInv, DescriptorInv
<1> QED
  BY <1>1, <1>2, <1>3 DEF ServerInv

(* Only receivers are deleted, and each closes the descriptor it owns. *)
LEMMA CloseDisconnectedStep == ASSUME ServerInv, CloseDisconnected PROVE ServerInv'
<1> DEFINE gone == {fd[t[2]] : t \in Deletable}
<1>1. /\ pc = "close_disconnected" /\ pc' = "accept"
      /\ owner' = [f \in Fd |-> IF f \in gone THEN NoClient ELSE owner[f]]
      /\ tasks' = tasks \ Deletable
      /\ UNCHANGED <<peer, backlog, listening, ret, status, new_client, cancelled, fd, running,
                     send_queues, senders, calls, written, destructor, killed>>
  BY DEF CloseDisconnected, At, Close
<1>2. \A c \in Clients : SenderTask(c) \notin Deletable
  BY <1>1, TaskFacts DEF Deletable, ServerInv, TaskInv, ServerType
<1>3. \A t \in Deletable : t[2] \in Clients /\ t = ReceiverTask(t[2]) /\ t \in tasks
  BY <1>2, TaskFacts DEF Deletable, ServerInv, ServerType
<1>4. \A f \in gone : \E c \in Clients : ReceiverTask(c) \in Deletable /\ fd[c] = f
  BY <1>3
<1>5. \A c \in Clients : ReceiverTask(c) \in Deletable => fd[c] \in gone
  BY TaskFacts
<1> HIDE DEF gone
<1>6. ServerType'
  BY <1>1 DEF ServerInv, ServerType, Deletable
<1>7. TaskInv'
  BY <1>1, <1>2, TaskFacts DEF ServerInv, TaskInv, ServerType
<1>8. \A c \in Clients : ReceiverTask(c) \in tasks' => fd[c] \notin gone
  BY <1>1, <1>4, TaskFacts DEF ServerInv, DescriptorInv, ServerType, Deletable
<1>9. \A f \in Fd : owner'[f] # NoClient => owner'[f] = owner[f] /\ f \notin gone
  BY <1>1
<1>10. DescriptorInv'
  BY <1>1, <1>5, <1>8, <1>9, TaskFacts, ServerAssumption
  DEF ServerInv, DescriptorInv, ServerType
<1> QED
  BY <1>6, <1>7, <1>10 DEF ServerInv

(* The lowest free descriptor is a free one. *)
LEMMA MinFree ==
    ASSUME FreeFds # {}
    PROVE  Min(FreeFds) \in FreeFds
<1>1. FreeFds \subseteq Nat
  BY DEF FreeFds, Fd
<1>2. \E x \in FreeFds : \A y \in FreeFds : x <= y
  <2>1. PICK x \in FreeFds : \A y \in FreeFds : <<y, x>> \notin OpToRel(<, Nat)
    BY <1>1, NatLessThanWellFounded, WFMin
  <2>2. \A y \in FreeFds : ~(y < x)
    BY <1>1, <2>1 DEF OpToRel
  <2> QED
    BY <1>1, <2>2
<1> QED
  BY <1>2 DEF Min

(* accept() takes a descriptor nobody has for a client nobody has. *)
LEMMA AcceptStep == ASSUME ServerInv, NEW c \in Clients, Accept(c) PROVE ServerInv'
<1> DEFINE m == Min(FreeFds)
<1>1. /\ c \in backlog /\ pc = "accept" /\ pc' = "callback"
      /\ backlog' = backlog \ {c}
      /\ owner' = [owner EXCEPT ![m] = c]
      /\ fd' = [fd EXCEPT ![c] = m]
      /\ running' = running \cup {SenderTask(c), ReceiverTask(c)}
      /\ tasks' = tasks \cup {SenderTask(c), ReceiverTask(c)}
      /\ new_client' = c
      /\ UNCHANGED <<peer, listening, ret, status, cancelled, send_queues, senders, calls,
                     written, destructor, killed>>
  BY DEF Accept, At
<1>2. m \in Fd /\ owner[m] = NoClient
  BY MinFree DEF Accept, FreeFds
<1> HIDE DEF m
<1>3. ServerType'
  BY <1>1, <1>2, TaskFacts DEF ServerInv, ServerType
<1>4. TaskInv'
  BY <1>1, <1>2, TaskFacts DEF ServerInv, TaskInv, ServerType
<1>5. \A f \in Fd : owner[f] # c
  BY <1>1 DEF ServerInv, DescriptorInv, ServerType
<1>6. DescriptorInv'
  <2>1. \A d \in Clients : d \in backlog' \/ peer'[d] = "away" => \A f \in Fd : owner'[f] # d
    BY <1>1, <1>2 DEF ServerInv, DescriptorInv, ServerType
  <2>2. \A d \in Clients : ReceiverTask(d) \in tasks' => fd'[d] \in Fd /\ owner'[fd'[d]] = d
    BY <1>1, <1>2, TaskFacts, ServerAssumption DEF ServerInv, DescriptorInv, ServerType
  <2>3. \A f \in Fd : owner'[f] # NoClient =>
                         ReceiverTask(owner'[f]) \in tasks' /\ fd'[owner'[f]] = f
    BY <1>1, <1>2, <1>5, TaskFacts DEF ServerInv, DescriptorInv, ServerType
  <2> QED
    BY <1>1, <2>1, <2>2, <2>3 DEF ServerInv, DescriptorInv
<1> QED
  BY <1>3, <1>4, <1>6 DEF ServerInv

(* The other ways out of accept(). *)
LEMMA AcceptFailsStep ==
    ASSUME ServerInv, AcceptFails \/ NewClientCallback \/ UpdateTaskStatus PROVE ServerInv'
<1> USE DEF AcceptFails, NewClientCallback, UpdateTaskStatus, At, net
<1>1. ServerType'
  BY DEF ServerInv, ServerType, TaskInv
<1>2. TaskInv'
  <2>1. CASE AcceptFails
    BY <2>1 DEF ServerInv, TaskInv
  <2>2. CASE NewClientCallback
    BY <2>2 DEF ServerInv, TaskInv
  <2>3. CASE UpdateTaskStatus
    BY <2>3 DEF ServerInv, ServerType, TaskInv
  <2> QED
    BY <2>1, <2>2, <2>3
<1>3. DescriptorInv'
  BY DEF ServerInv, DescriptorInv
<1> QED
  BY <1>1, <1>2, <1>3 DEF ServerInv

(* CleanUp cancels the tasks of every client, then closes what is left open. *)
LEMMA CleanUpStep == ASSUME ServerInv, CleanUpCancels \/ CleanUpCloses PROVE ServerInv'
<1>1. CASE CleanUpCancels
  <2> USE <1>1 DEF CleanUpCancels, At, net
  <2>1. ServerType'
    BY DEF ServerInv, ServerType
  <2>2. TaskInv'
    BY DEF ServerInv, ServerType, TaskInv
  <2>3. DescriptorInv'
    BY DEF ServerInv, DescriptorInv
  <2> QED
    BY <2>1, <2>2, <2>3 DEF ServerInv
<1>2. CASE CleanUpCloses
  <2>1. \A f \in Fd : owner[f] # NoClient => f \in TaskFds
    <3> SUFFICES ASSUME NEW f \in Fd, owner[f] # NoClient PROVE f \in TaskFds
      OBVIOUS
    <3>1. owner[f] \in Clients /\ ReceiverTask(owner[f]) \in tasks /\ fd[owner[f]] = f
      BY <1>2 DEF CleanUpCloses, At, ServerInv, DescriptorInv, ServerType
    <3> QED
      BY <3>1, TaskFacts DEF TaskFds
  <2>2. \A f \in Fd : owner'[f] = NoClient
    BY <1>2, <2>1 DEF CleanUpCloses, Close
  <2>3. ServerType'
    BY <1>2, <2>2 DEF CleanUpCloses, Close, ServerInv, ServerType
  <2>4. TaskInv'
    BY <1>2 DEF CleanUpCloses, At, ServerInv, ServerType, TaskInv
  <2>5. DescriptorInv'
    BY <1>2, <2>2, ServerAssumption DEF CleanUpCloses, ServerInv, ServerType, DescriptorInv
  <2> QED
    BY <2>3, <2>4, <2>5 DEF ServerInv
<1> QED
  BY <1>1, <1>2

(* A task of a client ends by itself. *)
LEMMA TaskEndsStep ==
    ASSUME ServerInv, NEW c \in Clients, ReceiverEnds(c) \/ SenderEnds(c) PROVE ServerInv'
<1> USE DEF ReceiverEnds, SenderEnds, net
<1>1. ServerType'
  BY DEF ServerInv, ServerType
<1>2. TaskInv'
  BY TaskFacts DEF ServerInv, ServerType, TaskInv
<1>3. DescriptorInv'
  BY DEF ServerInv, DescriptorInv
<1> QED
  BY <1>1, <1>2, <1>3 DEF ServerInv

(* send() may turn a closed connection into a reset one. *)
LEMMA SendMessageServerStep ==
    ASSUME ServerInv, NEW c \in Clients, SendMessage(c) PROVE ServerInv'
<1> DEFINE d == Connected(c)
<1>1. SenderTask(c) \in running /\ fd[c] \in Fd /\ d \in Clients \cup {NoClient}
  BY DEF SendMessage, SenderAt, Connected, ServerInv, ServerType, TaskInv
<1>2. /\ killed' \in BOOLEAN
      /\ peer' = (IF d # NoClient /\ peer[d] = "closed" THEN [peer EXCEPT ![d] = "reset"] ELSE peer)
      /\ running' = running
      /\ UNCHANGED <<backlog, owner, listening, pc, ret, status, new_client, cancelled,
                     tasks, fd, send_queues, queue, calls, destructor>>
  BY DEF SendMessage, SenderFails
<1> HIDE DEF d
<1>3. /\ peer' \in [Clients -> {"away", "open", "closed", "reset"}]
      /\ \A e \in Clients : peer'[e] = "away" <=> peer[e] = "away"
  BY <1>1, <1>2 DEF ServerInv, ServerType
<1>4. ServerType'
  BY <1>2, <1>3 DEF ServerInv, ServerType
<1>5. TaskInv'
  BY <1>2 DEF ServerInv, TaskInv
<1>6. DescriptorInv'
  BY <1>2, <1>3 DEF ServerInv, ServerType, DescriptorInv
<1> QED
  BY <1>4, <1>5, <1>6 DEF ServerInv

(* The destructor. *)
LEMMA DestroyStep == ASSUME ServerInv, Destroy \/ DestroyReturns PROVE ServerInv'
<1>1. CASE Destroy
  <2> USE <1>1 DEF Destroy, net
  <2>1. ServerType'
    BY DEF ServerInv, ServerType
  <2>2. TaskInv'
    BY DEF ServerInv, TaskInv
  <2>3. DescriptorInv'
    BY DEF ServerInv, DescriptorInv
  <2> QED
    BY <2>1, <2>2, <2>3 DEF ServerInv
<1>2. CASE DestroyReturns
  BY <1>2, ServerFrame DEF DestroyReturns, ServerInv, ServerType
<1> QED
  BY <1>1, <1>2

(* Every step; those of the calls change nothing the invariant is about. *)
LEMMA ServerStep == ServerInv /\ [Next]_vars => ServerInv'
<1> SUFFICES ASSUME ServerInv, [Next]_vars PROVE ServerInv'
  OBVIOUS
<1>1. CASE ServerRuns
  BY <1>1, SetUpStep, CloseDisconnectedStep, AcceptStep, AcceptFailsStep, CleanUpStep
  DEF ServerRuns
<1>2. ASSUME NEW c \in Clients, SenderPops(c) \/ SendTimesOut(c) \/ SendCallback(c)
      PROVE  ServerInv'
  BY <1>2, ServerFrame DEF SenderPops, SendTimesOut, SendCallback, ServerInv, ServerType
<1>3. ASSUME NEW k \in Callers,
             \/ \E c \in Clients, async \in BOOLEAN : Send(k, c, async)
             \/ SerializeFails(k) \/ DispatchSend(k) \/ SendReturns(k)
      PROVE  ServerInv'
  BY <1>3, ServerFrame
  DEF Send, SerializeFails, DispatchSend, SendReturns, ServerInv, ServerType
<1>4. CASE UNCHANGED vars
  BY <1>4, ServerFrame DEF vars, ServerInv, ServerType
<1> QED
  BY <1>1, <1>2, <1>3, <1>4, ConnectsStep, TaskEndsStep, SendMessageServerStep, DestroyStep
  DEF Next

(* While the server runs, nobody closes the descriptor a receiver reads      *)
(* from, and when it has cleaned up none is open, whatever the order in      *)
(* which clients come and go and descriptors are used again                  *)
(* (server_task.cpp:134-173).                                                *)
THEOREM DescriptorsAreKeptHolds == Spec => []DescriptorsAreKept
<1>1. ServerInv => DescriptorsAreKept
  BY DEF ServerInv, ServerType, DescriptorInv, DescriptorsAreKept
<1> QED
  BY <1>1, ServerInit, ServerStep, PTL DEF Spec

-----------------------------------------------------------------------------
(* Messages and results. *)

LEMMA IdFacts ==
    /\ MessageId \subseteq Nat /\ NoMessage \notin MessageId
    /\ \A n \in 0..MaxSends : n < MaxSends => n + 1 \in MessageId /\ n + 1 \in 0..MaxSends
    /\ 0 \in 0..MaxSends
BY ServerAssumption DEF MessageId, NoMessage

(* What is in a queue after push_back. *)
LEMMA RangeAppend ==
    ASSUME NEW S, NEW s \in Seq(S), NEW x \in S
    PROVE  /\ Range(Append(s, x)) = Range(s) \cup {x}
           /\ NoRepeats(s) /\ x \notin Range(s) => NoRepeats(Append(s, x))
<1>1. /\ Len(Append(s, x)) = Len(s) + 1 /\ Append(s, x)[Len(s) + 1] = x
      /\ \A n \in 1..Len(s) : Append(s, x)[n] = s[n]
      /\ DOMAIN Append(s, x) = 1..(Len(s) + 1) /\ DOMAIN s = 1..Len(s) /\ Len(s) \in Nat
  OBVIOUS
<1>2. Range(Append(s, x)) = Range(s) \cup {x}
  BY <1>1 DEF Range
<1>3. ASSUME NoRepeats(s), x \notin Range(s) PROVE NoRepeats(Append(s, x))
  <2>1. \A n \in 1..Len(s) : s[n] # x
    BY <1>1, <1>3 DEF Range
  <2> QED
    BY <1>1, <1>3, <2>1 DEF NoRepeats
<1> QED
  BY <1>2, <1>3

(* What is in a queue after pop_front. *)
LEMMA RangeTail ==
    ASSUME NEW S, NEW s \in Seq(S), s # <<>>
    PROVE  /\ Tail(s) \in Seq(S) /\ Head(s) \in S /\ Head(s) \in Range(s)
           /\ NoRepeats(s) => /\ Range(Tail(s)) = Range(s) \ {Head(s)}
                              /\ NoRepeats(Tail(s))
<1>1. /\ Tail(s) \in Seq(S) /\ Head(s) = s[1] /\ Len(s) \in Nat /\ Len(s) # 0
      /\ DOMAIN s = 1..Len(s) /\ DOMAIN Tail(s) = 1..(Len(s) - 1)
      /\ \A n \in 1..(Len(s) - 1) : Tail(s)[n] = s[n + 1]
  OBVIOUS
<1>2. Head(s) \in S /\ Head(s) \in Range(s)
  BY <1>1 DEF Range
<1>3. ASSUME NoRepeats(s) PROVE NoRepeats(Tail(s))
  BY <1>1, <1>3 DEF NoRepeats
<1>4. ASSUME NoRepeats(s) PROVE Range(Tail(s)) = Range(s) \ {Head(s)}
  <2>1. \A n \in 1..Len(s) : s[n] = s[1] => n = 1
    BY <1>1, <1>4 DEF NoRepeats
  <2>2. \A n \in 2..Len(s) : n - 1 \in 1..(Len(s) - 1) /\ Tail(s)[n - 1] = s[n]
    BY <1>1
  <2>3. Range(Tail(s)) = {s[n] : n \in 2..Len(s)}
    <3>1. \A n \in 1..(Len(s) - 1) : Tail(s)[n] \in {s[m] : m \in 2..Len(s)}
      <4> TAKE n \in 1..(Len(s) - 1)
      <4>1. n + 1 \in 2..Len(s) /\ Tail(s)[n] = s[n + 1]
        BY <1>1
      <4> QED
        BY <4>1
    <3>2. \A n \in 2..Len(s) : s[n] \in Range(Tail(s))
      BY <1>1, <2>2 DEF Range
    <3> QED
      BY <1>1, <3>1, <3>2 DEF Range
  <2>4. Range(s) \ {s[1]} = {s[n] : n \in 2..Len(s)}
    BY <1>1, <2>1 DEF Range
  <2> QED
    BY <1>1, <2>3, <2>4
<1> QED
  BY <1>1, <1>2, <1>3, <1>4

(* The messages of a sender are messages. *)
LEMMA HeldType == CallType => \A c \in Clients : Held(c) \subseteq MessageId
BY DEF CallType, Held, Range

(* The id of a call, where it has one. *)
LEMMA CallIdType == CallType => \A k \in Callers : call[k].id \in Nat
<1> SUFFICES ASSUME CallType, NEW k \in Callers PROVE call[k].id \in Nat
  OBVIOUS
<1>1. call[k].id \in MessageId \cup {NoMessage}
  BY DEF CallType
<1>2. MessageId \subseteq Nat /\ NoMessage \in Nat
  BY DEF MessageId, NoMessage
<1> QED
  BY <1>1, <1>2

(* No message is anywhere. *)
LEMMA MeetInit == Init => MeetInv
<1> SUFFICES ASSUME Init PROVE MeetInv
  OBVIOUS
<1>0. CallType
  BY IdFacts DEF Init, CallType, Result, NotInSend, NotCalling
<1>1. \A c \in Clients : Held(c) = {} /\ NoRepeats(queue[c]) /\ Range(queue[c]) = {}
  BY DEF Init, Held, NotInSend, NoRepeats, Range
<1>2. SenderInv
  BY <1>1 DEF Init, SenderInv, NotInSend
<1>3. HeldInv /\ CallerInv
  BY <1>1 DEF Init, HeldInv, CallerInv, NotCalling, NoMessage
<1>4. ResultInv
  BY <1>1 DEF Init, ResultInv
<1>5. WaitInv
  BY <1>1 DEF Init, WaitInv, NotCalling
<1> QED
  BY <1>0, <1>2, <1>3, <1>4, <1>5 DEF MeetInv

(* A step that leaves the senders and the calls alone. *)
LEMMA MeetFrame ==
    ASSUME MeetInv, UNCHANGED <<senders, calls, written>>, send_queues \subseteq send_queues'
    PROVE  MeetInv'
<1> USE DEF senders, calls
<1>1. \A c \in Clients : Held(c)' = Held(c)
  BY DEF Held
<1>2. \A i \in MessageId : Waits(i)' <=> Waits(i)
  BY DEF Waits
<1>3. CallType'
  BY DEF MeetInv, CallType
<1>4. SenderInv' /\ CallerInv'
  BY DEF MeetInv, SenderInv, CallerInv
<1>5. HeldInv' /\ ResultInv'
  BY <1>1, <1>2 DEF MeetInv, HeldInv, ResultInv
<1>6. WaitInv'
  BY <1>1, <1>2, HeldType DEF MeetInv, WaitInv, Destination
<1> QED
  BY <1>3, <1>4, <1>5, <1>6 DEF MeetInv

(* A step of c's sender that keeps what it holds. *)
LEMMA SameHeld ==
    ASSUME MeetInv, UNCHANGED <<calls, send_queues>>, \A d \in Clients : Held(d)' = Held(d)
    PROVE  HeldInv' /\ CallerInv' /\ ResultInv' /\ WaitInv'
<1> USE DEF calls
<1>1. \A i \in MessageId : Waits(i)' <=> Waits(i)
  BY DEF Waits
<1>2. HeldInv' /\ CallerInv' /\ ResultInv'
  BY <1>1 DEF MeetInv, HeldInv, CallerInv, ResultInv
<1>3. WaitInv'
  BY <1>1, HeldType DEF MeetInv, WaitInv, Destination
<1> QED
  BY <1>2, <1>3

(* The sender takes the next message of its queue. *)
LEMMA SenderPopsStep == ASSUME MeetInv, NEW c \in Clients, SenderPops(c) PROVE MeetInv'
<1> DEFINE i == Head(queue[c])
<1>1. /\ spc[c] = "pop" /\ queue[c] # <<>>
      /\ queue' = [queue EXCEPT ![c] = Tail(queue[c])]
      /\ smsg' = [smsg EXCEPT ![c] = [id |-> i, result |-> "none"]]
      /\ spc' = [spc EXCEPT ![c] = "send"]
      /\ UNCHANGED <<calls, written, send_queues>>
  BY DEF SenderPops, SenderAt, server
<1>2. /\ Tail(queue[c]) \in Seq(MessageId) /\ i \in MessageId /\ i \in Range(queue[c])
      /\ Range(Tail(queue[c])) = Range(queue[c]) \ {i} /\ NoRepeats(Tail(queue[c]))
  BY <1>1, RangeTail DEF MeetInv, CallType, SenderInv
<1> HIDE DEF i
<1>3. CallType'
  BY <1>1, <1>2 DEF MeetInv, CallType, calls, Result
<1>4. SenderInv'
  BY <1>1, <1>2, IdFacts DEF MeetInv, CallType, SenderInv, calls
<1>5. \A d \in Clients : Held(d)' = Held(d)
  BY <1>1, <1>2, IdFacts DEF MeetInv, CallType, SenderInv, Held
<1> QED
  BY <1>1, <1>3, <1>4, <1>5, SameHeld DEF MeetInv

(* The message goes back to the queue. *)
LEMMA SendTimesOutStep == ASSUME MeetInv, NEW c \in Clients, SendTimesOut(c) PROVE MeetInv'
<1> DEFINE i == smsg[c].id
<1>1. /\ spc[c] = "send"
      /\ queue' = [queue EXCEPT ![c] = Append(queue[c], i)]
      /\ smsg' = [smsg EXCEPT ![c] = NotInSend]
      /\ spc' = [spc EXCEPT ![c] = "pop"]
      /\ UNCHANGED <<calls, written, send_queues>>
  BY DEF SendTimesOut, SenderAt, server, AfterRetry
<1>2. i \in MessageId /\ i \notin Range(queue[c])
  BY <1>1 DEF MeetInv, CallType, SenderInv
<1>3. /\ Append(queue[c], i) \in Seq(MessageId)
      /\ Range(Append(queue[c], i)) = Range(queue[c]) \cup {i}
      /\ NoRepeats(Append(queue[c], i))
  BY <1>2, RangeAppend DEF MeetInv, CallType, SenderInv
<1> HIDE DEF i
<1>4. CallType'
  BY <1>1, <1>3 DEF MeetInv, CallType, calls, Result, NotInSend
<1>5. SenderInv'
  <2>1. /\ smsg'[c].id = NoMessage /\ spc'[c] = "pop" /\ queue'[c] = Append(queue[c], i)
        /\ \A d \in Clients : d # c => /\ queue'[d] = queue[d] /\ smsg'[d] = smsg[d]
                                       /\ spc'[d] = spc[d]
    BY <1>1 DEF MeetInv, CallType, NotInSend
  <2>2. NoMessage \notin Range(queue'[c])
    BY <1>2, <1>3, <2>1, IdFacts DEF MeetInv, CallType, Range
  <2> QED
    BY <1>1, <1>3, <2>1, <2>2 DEF MeetInv, SenderInv, calls
<1>6. \A d \in Clients : Held(d)' = Held(d)
  BY <1>1, <1>2, <1>3, IdFacts DEF MeetInv, CallType, SenderInv, Held, NotInSend, i
<1> QED
  BY <1>1, <1>4, <1>5, <1>6, SameHeld DEF MeetInv

(* What send() did is seen by the caller only when it is reported. *)
LEMMA SendMessageStep ==
    ASSUME ServerInv, MeetInv, NEW c \in Clients, SendMessage(c) PROVE MeetInv'
<1> DEFINE i == smsg[c].id
           d == Connected(c)
           result == IF d = NoClient THEN "failed" ELSE "sent"
<1>1. /\ spc[c] = "send"
      /\ \/ written' = written
         \/ d # NoClient /\ written' = [written EXCEPT ![d] = Append(written[d], i)]
      /\ smsg' = [smsg EXCEPT ![c] = IF Reports(c) THEN [smsg[c] EXCEPT !.result = result] ELSE NotInSend]
      /\ spc' = [spc EXCEPT ![c] = IF Reports(c) THEN "callback" ELSE "pop"]
      /\ UNCHANGED <<queue, calls, send_queues>>
  BY DEF SendMessage, SenderAt
<1>2. i \in MessageId /\ i \notin Range(queue[c]) /\ d \in Clients \cup {NoClient}
  BY <1>1 DEF MeetInv, CallType, SenderInv, SendMessage, SenderAt, Connected, ServerInv,
              ServerType, TaskInv
<1>3. Reports(c) <=> ~messages[i].async
  BY DEF Reports
<1>4. result \in {"failed", "sent"}
  OBVIOUS
<1> HIDE DEF d, result
<1>5. CallType'
  <2>1. written' \in [Clients -> Seq(MessageId)]
    <3>1. CASE d # NoClient /\ written' = [written EXCEPT ![d] = Append(written[d], i)]
      <4>1. Append(written[d], i) \in Seq(MessageId)
        BY <1>2, <3>1 DEF MeetInv, CallType
      <4> QED
        BY <3>1, <4>1 DEF MeetInv, CallType
    <3> QED
      BY <1>1, <3>1 DEF MeetInv, CallType
  <2>2. smsg' \in [Clients -> [id : MessageId \cup {NoMessage}, result : Result]]
    <3>1. [smsg[c] EXCEPT !.result = result] \in [id : MessageId \cup {NoMessage}, result : Result]
      <4>1. smsg[c] \in [id : MessageId \cup {NoMessage}, result : Result] /\ result \in Result
        BY <1>4 DEF MeetInv, CallType, Result
      <4> QED
        BY <4>1
    <3>2. NotInSend \in [id : MessageId \cup {NoMessage}, result : Result]
      BY DEF NotInSend, Result
    <3> QED
      BY <1>1, <3>1, <3>2 DEF MeetInv, CallType
  <2> QED
    BY <1>1, <2>1, <2>2 DEF MeetInv, CallType, calls
<1>6. CASE Reports(c)
  <2>1. /\ smsg'[c].id = i /\ smsg'[c].result = result /\ spc'[c] = "callback"
        /\ \A e \in Clients : e # c => smsg'[e] = smsg[e] /\ spc'[e] = spc[e]
    BY <1>1, <1>6 DEF MeetInv, CallType
  <2>2. SenderInv'
    BY <1>1, <1>2, <1>3, <1>4, <1>6, <2>1, IdFacts DEF MeetInv, SenderInv, calls
  <2>3. \A e \in Clients : Held(e)' = Held(e)
    BY <1>1, <2>1 DEF Held
  <2> QED
    BY <1>1, <1>5, <2>2, <2>3, SameHeld DEF MeetInv
<1>7. CASE ~Reports(c)
  <2>1. /\ smsg'[c].id = NoMessage /\ spc'[c] = "pop"
        /\ \A e \in Clients : e # c => smsg'[e] = smsg[e] /\ spc'[e] = spc[e]
    BY <1>1, <1>7 DEF MeetInv, CallType, NotInSend
  <2>2. SenderInv'
    BY <1>1, <2>1, IdFacts DEF MeetInv, CallType, SenderInv, calls, Range
  <2>3. /\ Held(c)' = Held(c) \ {i} /\ i \in Held(c)
        /\ \A e \in Clients : e # c => Held(e)' = Held(e)
    BY <1>1, <1>2, <2>1, IdFacts DEF Held
  <2>4. \A j \in MessageId : Waits(j)' <=> Waits(j)
    BY <1>1 DEF Waits, calls
  <2>5. \A e \in Clients : Held(e)' \subseteq Held(e)
    BY <2>3
  <2>6. HeldInv' /\ CallerInv'
    BY <1>1, <2>5 DEF MeetInv, HeldInv, CallerInv, calls
  <2>7. ResultInv'
    BY <1>1, <2>4, <2>5 DEF MeetInv, ResultInv, calls
  <2>8. WaitInv'
    <3>1. \A e \in Clients : \A j \in Held(e)' : ~messages[j].async => Waits(j)'
      BY <2>4, <2>5, HeldType DEF MeetInv, WaitInv
    <3>2. \A k \in Callers : call[k].at = "wait" => call[k].id # i
      BY <1>3, <1>7 DEF MeetInv, WaitInv
    <3>3. \A k \in Callers, e \in Clients :
             call[k].at = "wait" /\ call[k].id \in Held(e) => call[k].id \in Held(e)'
      BY <2>3, <3>2
    <3> QED
      BY <1>1, <3>1, <3>3 DEF MeetInv, WaitInv, Destination, calls
  <2> QED
    BY <1>5, <2>2, <2>6, <2>7, <2>8 DEF MeetInv
<1> QED
  BY <1>6, <1>7

(* The result goes to the call that waits for it. *)
LEMMA SendCallbackStep ==
    ASSUME MeetInv, NEW c \in Clients, SendCallback(c) PROVE MeetInv'
<1> DEFINE i == smsg[c].id
           result == smsg[c].result
<1>1. /\ spc[c] = "callback"
      /\ send_results' = [send_results EXCEPT ![i] = result]
      /\ spc' = [spc EXCEPT ![c] = "pop"] /\ smsg' = [smsg EXCEPT ![c] = NotInSend]
      /\ UNCHANGED <<send_queues, queue, message_id, call, messages, returned, written>>
  BY DEF SendCallback, server
<1>2. i \in MessageId /\ i \in Held(c) /\ i \notin Range(queue[c]) /\ ~messages[i].async
      /\ result \in Result /\ result # "none"
  BY <1>1 DEF MeetInv, CallType, SenderInv, Held
<1> HIDE DEF result
<1>3. CallType'
  BY <1>1, <1>2 DEF MeetInv, CallType, NotInSend, Result
<1>4. /\ smsg'[c].id = NoMessage /\ spc'[c] = "pop"
      /\ \A e \in Clients : e # c => smsg'[e] = smsg[e] /\ spc'[e] = spc[e]
  BY <1>1 DEF MeetInv, CallType, NotInSend
<1>5. SenderInv'
  BY <1>1, <1>4, IdFacts DEF MeetInv, CallType, SenderInv, Range
<1>6. /\ Held(c)' = Held(c) \ {i}
      /\ \A e \in Clients : e # c => Held(e)' = Held(e) /\ i \notin Held(e)
      /\ \A e \in Clients : Held(e)' \subseteq Held(e) /\ i \notin Held(e)'
  BY <1>1, <1>2, <1>4, IdFacts DEF Held, MeetInv, HeldInv
<1>7. \A j \in MessageId : Waits(j)' <=> Waits(j)
  BY <1>1 DEF Waits
<1>8. HeldInv' /\ CallerInv'
  BY <1>1, <1>6 DEF MeetInv, HeldInv, CallerInv
<1>9. Waits(i)
  BY <1>2 DEF MeetInv, WaitInv
<1>10. /\ send_results'[i] = result
       /\ \A j \in MessageId : j # i => send_results'[j] = send_results[j]
  BY <1>1, <1>2 DEF MeetInv, CallType
<1>11. ResultInv'
  BY <1>1, <1>2, <1>6, <1>7, <1>9, <1>10 DEF MeetInv, ResultInv
<1>12. WaitInv'
  <2>1. \A e \in Clients : \A j \in Held(e)' : ~messages[j].async => Waits(j)'
    BY <1>6, <1>7, HeldType DEF MeetInv, WaitInv
  <2>2. \A k \in Callers, e \in Clients : call[k].at = "wait" /\ Destination(k) = e =>
          send_results'[call[k].id] # "none" \/ call[k].id \in Held(e)'
    <3> SUFFICES ASSUME NEW k \in Callers, NEW e \in Clients, call[k].at = "wait",
                        Destination(k) = e
                 PROVE  send_results'[call[k].id] # "none" \/ call[k].id \in Held(e)'
      OBVIOUS
    <3>1. call[k].id \in MessageId
      BY DEF MeetInv, CallType, CallerInv
    <3>2. CASE call[k].id = i
      BY <1>2, <1>10, <3>2
    <3>3. CASE call[k].id # i
      BY <1>6, <1>10, <3>1, <3>3 DEF MeetInv, WaitInv
    <3> QED
      BY <3>2, <3>3
  <2> QED
    BY <1>1, <2>1, <2>2 DEF MeetInv, WaitInv, Destination
<1> QED
  BY <1>3, <1>5, <1>8, <1>11, <1>12 DEF MeetInv

(* A new message has a number nobody has used. *)
LEMMA SendStep ==
    ASSUME MeetInv, NEW k \in Callers, NEW c \in Clients, NEW async \in BOOLEAN,
           Send(k, c, async)
    PROVE  MeetInv'
<1> DEFINE i == message_id + 1
<1>1. /\ call[k].at = "idle" /\ message_id < MaxSends /\ message_id' = i
      /\ messages' = [messages EXCEPT ![i] = [to |-> c, async |-> async]]
      /\ call' = [call EXCEPT ![k] = [at |-> "push", id |-> i]]
      /\ UNCHANGED <<send_queues, queue, spc, smsg, send_results, returned, written>>
  BY DEF Send, server, senders
<1>2. i \in MessageId /\ i \in 0..MaxSends /\ i > message_id /\ message_id \in Nat
  BY <1>1, ServerAssumption DEF MeetInv, CallType, MessageId
<1>m. \A j \in Nat : j <= message_id => j <= i /\ j # i
  BY <1>2
<1>3. /\ \A e \in Clients : Held(e)' = Held(e) /\ i \notin Held(e)
      /\ \A l \in Callers : call[l].id # i
  <2>1. \A e \in Clients : Held(e)' = Held(e)
    BY <1>1 DEF Held
  <2>2. \A e \in Clients : Held(e) \subseteq Nat
    BY HeldType, IdFacts DEF MeetInv
  <2>3. \A l \in Callers : call[l].id \in Nat
    BY CallIdType DEF MeetInv
  <2> QED
    BY <1>m, <2>1, <2>2, <2>3 DEF MeetInv, HeldInv, CallerInv
<1>4. CallType'
  BY <1>1, <1>2 DEF MeetInv, CallType
<1>5. /\ call'[k].at = "push" /\ call'[k].id = i
      /\ \A l \in Callers : l # k => call'[l] = call[l]
      /\ \A j \in MessageId : j # i => messages'[j] = messages[j]
  BY <1>1 DEF MeetInv, CallType
<1> HIDE DEF i
<1>6. SenderInv'
  <2>1. \A d \in Clients : spc[d] = "callback" => smsg[d].id \in MessageId /\ smsg[d].id # i
    BY <1>3 DEF MeetInv, CallType, SenderInv, Held
  <2> QED
    BY <1>1, <1>5, <2>1 DEF MeetInv, SenderInv
<1>7. HeldInv'
  <2>1. \A d \in Clients : \A j \in Held(d) : j \in Nat /\ j <= i
    BY <1>m, HeldType, IdFacts DEF MeetInv, HeldInv
  <2> QED
    BY <1>1, <1>3, <1>5, <2>1 DEF MeetInv, HeldInv
<1>8. CallerInv'
  <2>1. \A l \in Callers : call[l].id \in Nat /\ call[l].id <= i
    <3>1. \A l \in Callers : call[l].id \in Nat
      BY CallIdType DEF MeetInv
    <3> QED
      BY <1>m, <3>1 DEF MeetInv, CallerInv
  <2> QED
    BY <1>1, <1>2, <1>3, <1>5, <2>1, IdFacts DEF MeetInv, CallerInv
<1>9. \A j \in MessageId : Waits(j)' <=> Waits(j)
  BY <1>1, <1>5 DEF Waits, MeetInv, CallType
<1>10. ResultInv'
  <2>1. \A j \in MessageId : returned[j] # "none" => j # i /\ j <= i
    BY <1>m, IdFacts DEF MeetInv, ResultInv
  <2> QED
    BY <1>1, <1>3, <1>5, <1>9, <2>1 DEF MeetInv, ResultInv
<1>11. WaitInv'
  <2>1. \A d \in Clients : \A j \in Held(d) : messages'[j] = messages[j] /\ j \in MessageId
    BY <1>3, <1>5, HeldType DEF MeetInv
  <2>2. \A l \in Callers : call'[l].at = "wait" =>
            /\ l # k /\ call'[l] = call[l] /\ call[l].id \in MessageId
            /\ messages'[call[l].id] = messages[call[l].id]
    BY <1>3, <1>5 DEF MeetInv, CallType, CallerInv
  <2> QED
    BY <1>1, <1>3, <1>9, <2>1, <2>2 DEF MeetInv, WaitInv, Destination
<1> QED
  BY <1>4, <1>6, <1>7, <1>8, <1>10, <1>11 DEF MeetInv

(* A message that cannot be serialized goes nowhere. *)
LEMMA SerializeFailsStep ==
    ASSUME MeetInv, NEW k \in Callers, SerializeFails(k) PROVE MeetInv'
<1> DEFINE i == message_id + 1
<1>1. /\ message_id < MaxSends /\ message_id' = i
      /\ returned' = [returned EXCEPT ![i] = "failed"]
      /\ UNCHANGED <<send_queues, queue, spc, smsg, send_results, call, messages, written>>
  BY DEF SerializeFails, server, senders
<1>2. i \in MessageId /\ i \in 0..MaxSends /\ i > message_id /\ message_id \in Nat
  BY <1>1, ServerAssumption DEF MeetInv, CallType, MessageId
<1>m. \A j \in Nat : j <= message_id => j <= i /\ j # i
  BY <1>2
<1>3. /\ \A e \in Clients : Held(e)' = Held(e) /\ i \notin Held(e)
      /\ \A l \in Callers : call[l].id # i
  <2>1. \A e \in Clients : Held(e)' = Held(e)
    BY <1>1 DEF Held
  <2>2. \A e \in Clients : Held(e) \subseteq Nat
    BY HeldType, IdFacts DEF MeetInv
  <2>3. \A l \in Callers : call[l].id \in Nat
    BY CallIdType DEF MeetInv
  <2> QED
    BY <1>m, <2>1, <2>2, <2>3 DEF MeetInv, HeldInv, CallerInv
<1>4. CallType'
  BY <1>1, <1>2 DEF MeetInv, CallType, Result
<1>5. returned'[i] = "failed" /\ \A j \in MessageId : j # i => returned'[j] = returned[j]
  BY <1>1, <1>2 DEF MeetInv, CallType
<1> HIDE DEF i
<1>6. SenderInv'
  BY <1>1 DEF MeetInv, SenderInv
<1>7. HeldInv'
  <2>1. \A d \in Clients : \A j \in Held(d) : j \in Nat /\ j <= i
    BY <1>m, HeldType, IdFacts DEF MeetInv, HeldInv
  <2> QED
    BY <1>1, <1>3, <2>1 DEF MeetInv, HeldInv
<1>8. CallerInv'
  <2>1. \A l \in Callers : call[l].id \in Nat /\ call[l].id <= i
    <3>1. \A l \in Callers : call[l].id \in Nat
      BY CallIdType DEF MeetInv
    <3> QED
      BY <1>m, <3>1 DEF MeetInv, CallerInv
  <2> QED
    BY <1>1, <2>1 DEF MeetInv, CallerInv
<1>9. \A j \in MessageId : Waits(j)' <=> Waits(j)
  BY <1>1 DEF Waits
<1>10. ResultInv'
  <2>1. \A j \in MessageId : returned[j] # "none" => j <= i
    BY <1>m, IdFacts DEF MeetInv, ResultInv
  <2>2. i <= i
    BY <1>2
  <2> QED
    BY <1>1, <1>3, <1>5, <1>9, <2>1, <2>2 DEF MeetInv, ResultInv
<1>11. WaitInv'
  BY <1>1, <1>3, <1>9, HeldType DEF MeetInv, WaitInv, Destination
<1> QED
  BY <1>4, <1>6, <1>7, <1>8, <1>10, <1>11 DEF MeetInv

(* The message goes from its caller to the queue of its destination. *)
LEMMA DispatchSendStep ==
    ASSUME ServerInv, MeetInv, NEW k \in Callers, DispatchSend(k) PROVE MeetInv'
<1>i. PICK i \in MessageId : i = call[k].id
  BY DEF DispatchSend, MeetInv, CallType, CallerInv
<1>d. PICK d \in Clients \cup {NoClient} : d = Destination(k) /\ d = messages[i].to
  BY <1>i DEF MeetInv, CallType, Destination
<1>1. i \in MessageId /\ call[k].at = "push"
  BY DEF DispatchSend
<1>2. /\ \A e \in Clients : i \notin Held(e)
      /\ \A l \in Callers : l # k => call[l].id # i
      /\ send_results[i] = "none" /\ returned[i] = "none"
  <2>1. ~Waits(i)
    BY <1>1, <1>i, IdFacts DEF Waits, MeetInv, CallerInv
  <2> QED
    BY <1>1, <1>i, <2>1, IdFacts DEF MeetInv, HeldInv, CallerInv, ResultInv
<1>3. CASE d \in send_queues
  <2>1. /\ queue' = [queue EXCEPT ![d] = Append(queue[d], i)]
        /\ call' = [call EXCEPT ![k] =
                      IF ~messages[i].async THEN [call[k] EXCEPT !.at = "wait"] ELSE NotCalling]
        /\ UNCHANGED <<returned, send_queues, spc, smsg, message_id, send_results, messages, written>>
    BY <1>3, <1>i, <1>d DEF DispatchSend, server
  <2>2. d \in Clients
    BY <1>3 DEF ServerInv, ServerType
  <2>3. /\ Append(queue[d], i) \in Seq(MessageId)
        /\ Range(Append(queue[d], i)) = Range(queue[d]) \cup {i}
        /\ NoRepeats(Append(queue[d], i)) /\ i \notin Range(queue[d]) /\ smsg[d].id # i
    BY <1>1, <1>2, <2>2, RangeAppend, IdFacts DEF MeetInv, CallType, SenderInv, Held
  <2>4. /\ queue'[d] = Append(queue[d], i)
        /\ \A e \in Clients : e # d => queue'[e] = queue[e]
    BY <2>1, <2>2 DEF MeetInv, CallType
  <2>5. /\ call'[k] = IF ~messages[i].async THEN [at |-> "wait", id |-> i] ELSE NotCalling
        /\ \A l \in Callers : l # k => call'[l] = call[l]
    BY <1>i, <2>1 DEF MeetInv, CallType
  <2>6. CallType'
    <3>1. queue' \in [Clients -> Seq(MessageId)]
      BY <2>1, <2>2, <2>3 DEF MeetInv, CallType
    <3>2. call' \in [Callers -> [at : {"idle", "push", "wait"}, id : MessageId \cup {NoMessage}]]
      <4>1. /\ [at |-> "wait", id |-> i] \in [at : {"idle", "push", "wait"}, id : MessageId \cup {NoMessage}]
            /\ NotCalling \in [at : {"idle", "push", "wait"}, id : MessageId \cup {NoMessage}]
        BY <1>1 DEF NotCalling
      <4> QED
        BY <2>1, <2>5, <4>1 DEF MeetInv, CallType
    <3> QED
      BY <2>1, <3>1, <3>2 DEF MeetInv, CallType
  <2>7. SenderInv'
    BY <2>1, <2>2, <2>3, <2>4 DEF MeetInv, SenderInv
  <2>8. Held(d)' = Held(d) \cup {i} /\ \A e \in Clients : e # d => Held(e)' = Held(e)
    BY <2>1, <2>2, <2>3, <2>4 DEF Held
  <2>9. HeldInv'
    <3>1. i <= message_id
      BY <1>i DEF MeetInv, CallerInv
    <3>2. \A l \in Callers : call'[l].at = "push" => l # k /\ call'[l] = call[l] /\ call[l].id # i
      BY <1>2, <2>5 DEF NotCalling
    <3> QED
      BY <1>2, <2>1, <2>2, <2>8, <3>1, <3>2 DEF MeetInv, HeldInv
  <2>10. CallerInv'
    <3>1. \/ call'[k].at = "wait" /\ call'[k].id = i
          \/ call'[k].at = "idle" /\ call'[k].id = NoMessage
      BY <2>5 DEF NotCalling
    <3>2. i <= message_id /\ NoMessage <= message_id
      BY <1>i DEF MeetInv, CallerInv, CallType, NoMessage
    <3> QED
      BY <1>1, <1>2, <2>1, <2>5, <3>1, <3>2, IdFacts DEF MeetInv, CallerInv
  <2>11. /\ \A j \in MessageId : Waits(j) => Waits(j)'
         /\ ~messages[i].async => Waits(i)'
    <3>1. \A l \in Callers : call[l].at = "wait" => call'[l] = call[l]
      BY <1>1, <2>5
    <3> QED
      BY <2>5, <3>1 DEF Waits
  <2>12. ResultInv'
    <3>1. \A l \in Callers : call'[l].id \in {call[l].id, NoMessage}
      BY <1>i, <2>5 DEF NotCalling
    <3> QED
      BY <1>1, <1>2, <2>1, <2>2, <2>8, <2>11, <3>1, IdFacts DEF MeetInv, ResultInv
  <2>13. WaitInv'
    <3>1. \A e \in Clients : \A j \in Held(e)' : ~messages[j].async => Waits(j)'
      BY <2>2, <2>8, <2>11, HeldType DEF MeetInv, WaitInv
    <3>2. \A l \in Callers : call'[l].at = "wait" /\ l # k =>
             /\ ~messages[call'[l].id].async
             /\ messages[call'[l].id].to \in Clients \cap send_queues
             /\ \A e \in Clients : messages[call'[l].id].to = e =>
                   send_results[call'[l].id] # "none" \/ call'[l].id \in Held(e)'
      BY <2>5, <2>8 DEF MeetInv, WaitInv, Destination
    <3>3. call'[k].at = "wait" =>
             /\ call'[k].id = i /\ ~messages[i].async /\ messages[i].to = d
             /\ i \in Held(d)'
      BY <1>d, <2>5, <2>8 DEF NotCalling
    <3> QED
      BY <1>3, <2>1, <2>2, <3>1, <3>2, <3>3 DEF WaitInv, Destination
  <2> QED
    BY <2>6, <2>7, <2>9, <2>10, <2>12, <2>13 DEF MeetInv
<1>4. CASE d \notin send_queues
  <2>1. /\ call' = [call EXCEPT ![k] = NotCalling]
        /\ returned' = [returned EXCEPT ![i] = "failed"]
        /\ UNCHANGED <<queue, send_queues, spc, smsg, message_id, send_results, messages, written>>
    BY <1>4, <1>i, <1>d DEF DispatchSend, server
  <2>2. /\ call'[k].at = "idle" /\ call'[k].id = NoMessage
        /\ \A l \in Callers : l # k => call'[l] = call[l]
        /\ returned'[i] = "failed" /\ \A j \in MessageId : j # i => returned'[j] = returned[j]
    BY <1>1, <2>1 DEF MeetInv, CallType, NotCalling
  <2>3. i <= message_id /\ NoMessage <= message_id
    BY <1>i DEF MeetInv, CallerInv, CallType, NoMessage
  <2>4. CallType'
    BY <2>1 DEF MeetInv, CallType, NotCalling, Result
  <2>5. SenderInv'
    BY <2>1 DEF MeetInv, SenderInv
  <2>6. \A e \in Clients : Held(e)' = Held(e)
    BY <2>1 DEF Held
  <2>7. \A j \in MessageId : Waits(j) => Waits(j)'
    <3>1. \A l \in Callers : call[l].at = "wait" => call'[l] = call[l]
      BY <1>1, <2>2
    <3> QED
      BY <3>1 DEF Waits
  <2>8. HeldInv' /\ CallerInv'
    BY <2>1, <2>2, <2>3, <2>6 DEF MeetInv, HeldInv, CallerInv
  <2>9. ResultInv'
    BY <1>1, <1>2, <2>1, <2>2, <2>3, <2>6, <2>7, IdFacts DEF MeetInv, ResultInv
  <2>10. WaitInv'
    BY <2>1, <2>2, <2>6, <2>7, HeldType DEF MeetInv, WaitInv, Destination
  <2> QED
    BY <2>4, <2>5, <2>8, <2>9, <2>10 DEF MeetInv
<1> QED
  BY <1>3, <1>4

(* The caller takes its result, of which nothing is left. *)
LEMMA SendReturnsStep ==
    ASSUME MeetInv, NEW k \in Callers, SendReturns(k) PROVE MeetInv'
<1> DEFINE i == call[k].id
<1>1. /\ call[k].at = "wait" /\ send_results[i] # "none"
      /\ returned' = [returned EXCEPT ![i] = send_results[i]]
      /\ send_results' = [send_results EXCEPT ![i] = "none"]
      /\ call' = [call EXCEPT ![k] = NotCalling]
      /\ UNCHANGED <<send_queues, queue, spc, smsg, message_id, messages, written>>
  BY DEF SendReturns, server, senders
<1>2. /\ i \in MessageId /\ i <= message_id /\ NoMessage <= message_id
      /\ \A e \in Clients : i \notin Held(e)
      /\ \A l \in Callers : l # k => call[l].id # i
  <2>1. i \in MessageId /\ i # NoMessage
    BY <1>1, IdFacts DEF MeetInv, CallType, CallerInv
  <2>2. i <= message_id /\ NoMessage <= message_id
    BY DEF MeetInv, CallType, CallerInv, NoMessage
  <2>3. \A e \in Clients : i \notin Held(e)
    BY <1>1, <2>1 DEF MeetInv, ResultInv
  <2> QED
    BY <2>1, <2>2, <2>3 DEF MeetInv, CallerInv
<1>3. /\ call'[k].at = "idle" /\ call'[k].id = NoMessage
      /\ \A l \in Callers : l # k => call'[l] = call[l]
      /\ send_results'[i] = "none"
      /\ \A j \in MessageId : j # i => returned'[j] = returned[j] /\ send_results'[j] = send_results[j]
  BY <1>1, <1>2 DEF MeetInv, CallType, NotCalling
<1>4. CallType'
  BY <1>1, <1>2 DEF MeetInv, CallType, NotCalling, Result
<1>5. SenderInv'
  BY <1>1 DEF MeetInv, SenderInv
<1>6. \A e \in Clients : Held(e)' = Held(e)
  BY <1>1 DEF Held
<1>7. \A j \in MessageId : j # i /\ Waits(j) => Waits(j)'
  BY <1>3 DEF Waits
<1> HIDE DEF i
<1>8. HeldInv' /\ CallerInv'
  BY <1>1, <1>2, <1>3, <1>6 DEF MeetInv, HeldInv, CallerInv
<1>9. ResultInv'
  BY <1>1, <1>2, <1>3, <1>6, <1>7, IdFacts DEF MeetInv, ResultInv
<1>10. WaitInv'
  <2>1. \A l \in Callers : call'[l].at = "wait" =>
            call'[l] = call[l] /\ call[l].id # i /\ call[l].id \in MessageId
    BY <1>2, <1>3 DEF MeetInv, CallType, CallerInv
  <2> QED
    BY <1>1, <1>2, <1>3, <1>6, <1>7, <2>1, HeldType DEF MeetInv, WaitInv, Destination
<1> QED
  BY <1>4, <1>5, <1>8, <1>9, <1>10 DEF MeetInv

(* Every step moves at most one message, from one place to the next. *)
LEMMA MeetStep == ServerInv /\ MeetInv /\ [Next]_vars => MeetInv'
<1> SUFFICES ASSUME ServerInv, MeetInv, [Next]_vars PROVE MeetInv'
  OBVIOUS
<1> USE DEF server
<1>1. CASE ServerRuns
  BY <1>1, MeetFrame
  DEF ServerRuns, SetUp, CloseDisconnected, Accept, AcceptFails, NewClientCallback,
      UpdateTaskStatus, CleanUpCancels, CleanUpCloses
<1>2. CASE Destroy \/ DestroyReturns \/ UNCHANGED vars
  BY <1>2, MeetFrame DEF Destroy, DestroyReturns, vars
<1>3. ASSUME NEW c \in Clients,
             Connects(c) \/ Disconnects(c) \/ ReceiverEnds(c) \/ SenderEnds(c)
      PROVE  MeetInv'
  BY <1>3, MeetFrame DEF Connects, Disconnects, ReceiverEnds, SenderEnds
<1> QED
  BY <1>1, <1>2, <1>3, SenderPopsStep, SendTimesOutStep, SendMessageStep, SendCallbackStep,
     SendStep, SerializeFailsStep, DispatchSendStep, SendReturnsStep DEF Next

(* The inductive invariant: where every descriptor is, and that every       *)
(* message is in one place on its way from a call to its result (server.cpp *)
(* and sender.cpp).                                                         *)
THEOREM ServerIndInv == Spec => [](ServerInv /\ MeetInv)
<1> QED
  BY ServerInit, MeetInit, ServerStep, MeetStep, PTL DEF Spec

(* The members hold values of their types, and every task that runs for a    *)
(* client is in tasks_, where CleanUp will find it (server_task.cpp:134-173). *)
THEOREM TypeCorrect == Spec => []TypeOK
<1>1. ServerInv /\ MeetInv => TypeOK
  BY TypeParts DEF ServerInv, MeetInv
<1> QED
  BY <1>1, ServerIndInv, PTL

(* Every result has the call that waits for it, and every waiting call has   *)
(* its result or a sender that will bring it, whatever clients leave and     *)
(* however often a send is tried again (server.cpp:44-69 and                 *)
(* sender_task.cpp:28-58).                                                   *)
THEOREM ResultsMeetCallsHolds == Spec => []ResultsMeetCalls
<1>1. ASSUME ServerInv, MeetInv PROVE ResultsMeetCalls
  <2>1. ResultsAreCollected
    BY <1>1 DEF MeetInv, ResultInv, Waits, ResultsAreCollected
  <2>2. WaitersAreServed
    <3> SUFFICES ASSUME NEW k \in Callers, call[k].at = "wait",
                        send_results[call[k].id] = "none"
                 PROVE  /\ \/ call[k].id \in Range(queue[Destination(k)])
                           \/ smsg[Destination(k)].id = call[k].id
                        /\ SenderTask(Destination(k)) \in running \/ status # "RUNNING"
      BY DEF WaitersAreServed
    <3>1. Destination(k) \in Clients \cap send_queues /\ call[k].id \in Held(Destination(k))
      BY <1>1 DEF MeetInv, WaitInv
    <3>2. SenderTask(Destination(k)) \in running \/ status # "RUNNING"
      BY <1>1, <3>1 DEF ServerInv, TaskInv
    <3> QED
      BY <3>1, <3>2 DEF Held
  <2> QED
    BY <2>1, <2>2 DEF ResultsMeetCalls
<1> QED
  BY <1>1, ServerIndInv, PTL

-----------------------------------------------------------------------------
(* What is written, and what is told about it. *)

LEMMA WriteInit == Init => WriteInv
<1> SUFFICES ASSUME Init PROVE WriteInv
  OBVIOUS
<1>1. \A c \in Clients : written[c] = <<>> /\ NoRepeats(written[c]) /\ Range(written[c]) = {}
  BY DEF Init, NoRepeats, Range
<1>2. \A i : ~IsWritten(i)
  BY <1>1 DEF IsWritten
<1>3. OnceInv
  BY <1>1, <1>2 DEF OnceInv
<1>4. TruthInv
  BY <1>2 DEF Init, TruthInv
<1> QED
  BY <1>3, <1>4 DEF WriteInv

(* Steps that write nothing. *)
LEMMA SameWritten ==
    ASSUME UNCHANGED written
    PROVE  \A i \in MessageId : IsWritten(i)' <=> IsWritten(i)
BY DEF IsWritten

(* A step that writes nothing. *)
LEMMA OnceFrame ==
    ASSUME OnceInv, UNCHANGED written,
           \A i \in MessageId : IsWritten(i) /\ Settled(i) => Settled(i)'
    PROVE  OnceInv'
<1>1. \A i \in MessageId : IsWritten(i)' => Settled(i)'
  BY SameWritten DEF OnceInv
<1>2. /\ \A c \in Clients : NoRepeats(written'[c])
      /\ \A c, d \in Clients : c # d => Range(written'[c]) \cap Range(written'[d]) = {}
  BY DEF OnceInv
<1> QED
  BY <1>1, <1>2 DEF OnceInv

(* A step of the server or of a client. *)
LEMMA WriteFrame ==
    ASSUME WriteInv, MeetInv, UNCHANGED <<senders, calls, written, killed>>
    PROVE  WriteInv'
<1> USE DEF senders, calls
<1>1. OnceInv'
  BY OnceFrame DEF WriteInv, Settled
<1>2. \A c \in Clients : spc[c] = "callback" => smsg[c].id \in MessageId
  BY DEF MeetInv, CallType, SenderInv
<1>3. TruthInv'
  BY <1>2, SameWritten DEF WriteInv, TruthInv
<1> QED
  BY <1>1, <1>3 DEF WriteInv

(* The sender takes the next message: it has not been written. *)
LEMMA SenderPopsWrites ==
    ASSUME WriteInv, MeetInv, NEW c \in Clients, SenderPops(c) PROVE WriteInv'
<1>i. PICK i \in MessageId : i = Head(queue[c]) /\ i \in Range(queue[c])
  BY RangeTail DEF SenderPops, MeetInv, CallType
<1>1. /\ queue[c] # <<>> /\ spc[c] = "pop"
      /\ queue' = [queue EXCEPT ![c] = Tail(queue[c])]
      /\ smsg' = [smsg EXCEPT ![c] = [id |-> i, result |-> "none"]]
      /\ spc' = [spc EXCEPT ![c] = "send"]
      /\ UNCHANGED <<calls, written, killed>>
  BY <1>i DEF SenderPops, SenderAt
<1>2. /\ \A d \in Clients : Range(queue'[d]) \subseteq Range(queue[d])
      /\ smsg'[c].id = i /\ spc'[c] = "send"
      /\ \A d \in Clients : d # c => smsg'[d] = smsg[d] /\ spc'[d] = spc[d]
  BY <1>1, <1>i, RangeTail DEF MeetInv, CallType, SenderInv
<1>3. ~IsWritten(i)
  BY <1>i DEF WriteInv, OnceInv, Settled
<1>4. OnceInv'
  <2>1. ASSUME NEW j \in MessageId, IsWritten(j), Settled(j) PROVE Settled(j)'
    <3>1. \A d \in Clients : j \notin Range(queue'[d])
      BY <1>2, <2>1 DEF Settled
    <3>2. j # i
      BY <1>3, <2>1
    <3>3. \A d \in Clients : smsg'[d].id = j => spc'[d] = "callback" /\ smsg'[d].result = "sent"
      BY <1>2, <2>1, <3>2 DEF Settled
    <3> QED
      BY <1>1, <2>1, <3>1, <3>3 DEF Settled, calls
  <2> QED
    BY <1>1, <2>1, OnceFrame DEF WriteInv
<1>5. \A d \in Clients : spc[d] = "callback" => smsg[d].id \in MessageId
  BY DEF MeetInv, CallType, SenderInv
<1>6. TruthInv'
  BY <1>1, <1>2, <1>5, SameWritten DEF WriteInv, TruthInv, calls
<1> QED
  BY <1>4, <1>6 DEF WriteInv

(* Nothing was written of the message that goes back. *)
LEMMA SendTimesOutWrites ==
    ASSUME WriteInv, MeetInv, NEW c \in Clients, SendTimesOut(c) PROVE WriteInv'
<1>i. PICK i \in MessageId : i = smsg[c].id
  BY DEF SendTimesOut, SenderAt, MeetInv, CallType, SenderInv
<1>1. /\ spc[c] = "send"
      /\ queue' = [queue EXCEPT ![c] = Append(queue[c], i)]
      /\ smsg' = [smsg EXCEPT ![c] = NotInSend]
      /\ spc' = [spc EXCEPT ![c] = "pop"]
      /\ UNCHANGED <<calls, written, killed>>
  BY <1>i DEF SendTimesOut, SenderAt, AfterRetry
<1>2. /\ Range(queue'[c]) = Range(queue[c]) \cup {i}
      /\ \A d \in Clients : d # c => queue'[d] = queue[d]
      /\ smsg'[c].id = NoMessage /\ spc'[c] = "pop"
      /\ \A d \in Clients : d # c => smsg'[d] = smsg[d] /\ spc'[d] = spc[d]
  BY <1>1, <1>i, RangeAppend DEF MeetInv, CallType, SenderInv, NotInSend
<1>3. ~IsWritten(i)
  BY <1>1, <1>i DEF WriteInv, OnceInv, Settled
<1>4. OnceInv'
  <2>1. \A j \in MessageId : IsWritten(j) /\ Settled(j) => Settled(j)'
    BY <1>1, <1>2, <1>3, IdFacts DEF Settled, calls
  <2> QED
    BY <1>1, <2>1, OnceFrame DEF WriteInv
<1>5. \A d \in Clients : spc[d] = "callback" => smsg[d].id \in MessageId
  BY DEF MeetInv, CallType, SenderInv
<1>6. TruthInv'
  BY <1>1, <1>2, <1>5, SameWritten DEF WriteInv, TruthInv, calls
<1> QED
  BY <1>4, <1>6 DEF WriteInv

(* The one step that writes: a message that nobody has written, and whose    *)
(* result nobody has.                                                        *)
LEMMA SendMessageWrites ==
    ASSUME ServerInv, WriteInv, MeetInv, NEW c \in Clients, SendMessage(c) PROVE WriteInv'
<1>i. PICK i \in MessageId : i = smsg[c].id
  BY DEF SendMessage, SenderAt, MeetInv, CallType, SenderInv
<1>d. PICK d \in Clients \cup {NoClient} : d = Connected(c)
  BY DEF SendMessage, SenderAt, Connected, ServerInv, ServerType, TaskInv
<1>r. PICK result \in {"failed", "sent"} : result = IF d = NoClient THEN "failed" ELSE "sent"
  OBVIOUS
<1>1. /\ spc[c] = "send"
      /\ written' = IF result = "sent" /\ ~killed'
                    THEN [written EXCEPT ![d] = Append(written[d], i)] ELSE written
      /\ smsg' = [smsg EXCEPT ![c] =
                    IF Reports(c) THEN [smsg[c] EXCEPT !.result = result] ELSE NotInSend]
      /\ spc' = [spc EXCEPT ![c] = IF Reports(c) THEN "callback" ELSE "pop"]
      /\ UNCHANGED <<queue, calls>>
  BY <1>i, <1>d, <1>r DEF SendMessage, SenderAt
<1>2. ~IsWritten(i)
  BY <1>1, <1>i DEF WriteInv, OnceInv, Settled
<1>3. /\ i \in Held(c) /\ i <= message_id
      /\ send_results[i] = "none" /\ returned[i] = "none"
      /\ \A e \in Clients : i \notin Range(queue[e])
      /\ \A e \in Clients : e # c => smsg[e].id # i
      /\ \A k \in Callers : call[k].id = i => call[k].at # "push"
  <2>1. i \in Held(c)
    BY <1>i, IdFacts DEF Held
  <2>2. \A e \in Clients : e # c => i \notin Held(e)
    BY <2>1 DEF MeetInv, HeldInv
  <2>3. \A e \in Clients : e # c => smsg[e].id # i /\ i \notin Range(queue[e])
    BY <2>2, IdFacts DEF Held
  <2>4. i \notin Range(queue[c])
    BY <1>i DEF MeetInv, SenderInv
  <2>5. send_results[i] = "none" /\ returned[i] = "none"
    BY <2>1 DEF MeetInv, ResultInv
  <2>6. i <= message_id /\ \A k \in Callers : call[k].id = i => call[k].at # "push"
    BY <2>1 DEF MeetInv, HeldInv
  <2> QED
    BY <2>1, <2>3, <2>4, <2>5, <2>6
<1>4. /\ \A e \in Clients : e # c => smsg'[e] = smsg[e] /\ spc'[e] = spc[e]
      /\ \/ smsg'[c].id = i /\ smsg'[c].result = result /\ spc'[c] = "callback"
         \/ smsg'[c].id = NoMessage /\ spc'[c] = "pop"
  BY <1>1, <1>i DEF MeetInv, CallType, NotInSend
<1>5. \A e \in Clients : spc[e] = "callback" => smsg[e].id \in MessageId
  BY DEF MeetInv, CallType, SenderInv
<1>6. CASE written' = written /\ (killed' \/ result = "failed")
  <2>1. OnceInv'
    <3>1. \A j \in MessageId : IsWritten(j) /\ Settled(j) => Settled(j)'
      BY <1>1, <1>2, <1>4, IdFacts DEF Settled, calls
    <3> QED
      BY <1>6, <3>1, OnceFrame DEF WriteInv
  <2>2. TruthInv'
    BY <1>1, <1>4, <1>5, <1>6, SameWritten DEF WriteInv, TruthInv, calls, SendMessage, SenderAt
  <2> QED
    BY <2>1, <2>2 DEF WriteInv
<1>7. CASE /\ result = "sent" /\ d \in Clients
           /\ written' = [written EXCEPT ![d] = Append(written[d], i)]
  <2>1. /\ Range(written'[d]) = Range(written[d]) \cup {i} /\ NoRepeats(written'[d])
        /\ \A e \in Clients : e # d => written'[e] = written[e]
    <3>1. written'[d] = Append(written[d], i) /\ \A e \in Clients : e # d => written'[e] = written[e]
      BY <1>7 DEF MeetInv, CallType
    <3>2. i \notin Range(written[d]) /\ NoRepeats(written[d]) /\ written[d] \in Seq(MessageId)
      BY <1>2, <1>7 DEF IsWritten, WriteInv, OnceInv, MeetInv, CallType
    <3> QED
      BY <3>1, <3>2, RangeAppend
  <2>2. \A j \in MessageId : IsWritten(j)' <=> IsWritten(j) \/ j = i
    BY <1>7, <2>1 DEF IsWritten
  <2>3. \A e \in Clients : i \notin Range(written[e])
    BY <1>2 DEF IsWritten
  <2>4. /\ \A e \in Clients : NoRepeats(written'[e])
        /\ \A e, f \in Clients : e # f => Range(written'[e]) \cap Range(written'[f]) = {}
    <3>1. \A e \in Clients : NoRepeats(written'[e])
      BY <1>7, <2>1 DEF WriteInv, OnceInv
    <3>2. \A e \in Clients : e # d => Range(written'[e]) \cap Range(written'[d]) = {}
      BY <1>7, <2>1, <2>3 DEF WriteInv, OnceInv
    <3>3. \A e, f \in Clients : e # f /\ e # d /\ f # d => Range(written'[e]) \cap Range(written'[f]) = {}
      BY <1>7, <2>1 DEF WriteInv, OnceInv
    <3> QED
      BY <3>1, <3>2, <3>3
  <2>5. OnceInv'
    <3>1. Settled(i)'
      BY <1>1, <1>3, <1>4, <1>7, IdFacts DEF Settled, calls
    <3>2. \A j \in MessageId : j # i /\ Settled(j) => Settled(j)'
      BY <1>1, <1>4, IdFacts DEF Settled, calls
    <3> QED
      BY <2>2, <2>4, <3>1, <3>2 DEF WriteInv, OnceInv
  <2>6. TruthInv'
    BY <1>1, <1>3, <1>4, <1>5, <1>7, <2>2 DEF WriteInv, TruthInv, calls, SendMessage, SenderAt
  <2> QED
    BY <2>5, <2>6 DEF WriteInv
<1> QED
  BY <1>1, <1>r, <1>6, <1>7

(* The result that is published is that of the write. *)
LEMMA SendCallbackWrites ==
    ASSUME WriteInv, MeetInv, NEW c \in Clients, SendCallback(c) PROVE WriteInv'
<1>i. PICK i \in MessageId : i = smsg[c].id
  BY DEF SendCallback, MeetInv, CallType, SenderInv
<1>1. /\ spc[c] = "callback" /\ ~killed
      /\ send_results' = [send_results EXCEPT ![i] = smsg[c].result]
      /\ spc' = [spc EXCEPT ![c] = "pop"] /\ smsg' = [smsg EXCEPT ![c] = NotInSend]
      /\ UNCHANGED <<queue, message_id, call, messages, returned, written, killed>>
  BY <1>i DEF SendCallback
<1>2. /\ smsg'[c].id = NoMessage /\ spc'[c] = "pop"
      /\ \A e \in Clients : e # c => smsg'[e] = smsg[e] /\ spc'[e] = spc[e]
      /\ send_results'[i] = smsg[c].result
      /\ \A j \in MessageId : j # i => send_results'[j] = send_results[j]
  BY <1>1 DEF MeetInv, CallType, NotInSend
<1>3. smsg[c].result = "sent" <=> IsWritten(i)
  BY <1>1, <1>i DEF WriteInv, OnceInv, Settled, TruthInv
<1>r. returned[i] = "none"
  BY <1>i, IdFacts DEF MeetInv, ResultInv, Held
<1>4. OnceInv'
  <2>1. \A j \in MessageId : IsWritten(j) /\ Settled(j) => Settled(j)'
    BY <1>1, <1>2, IdFacts DEF Settled
  <2> QED
    BY <1>1, <2>1, OnceFrame DEF WriteInv
<1>5. \A d \in Clients : spc[d] = "callback" => smsg[d].id \in MessageId
  BY DEF MeetInv, CallType, SenderInv
<1>6. TruthInv'
  BY <1>1, <1>2, <1>3, <1>5, <1>r, SameWritten DEF WriteInv, TruthInv
<1> QED
  BY <1>4, <1>6 DEF WriteInv

(* The id of a new message has not been used. *)
LEMMA NewIdIsUnwritten ==
    ASSUME WriteInv, MeetInv, message_id < MaxSends
    PROVE  /\ message_id + 1 \in MessageId /\ ~IsWritten(message_id + 1)
           /\ \A j \in MessageId : j <= message_id => j <= message_id + 1
<1>1. message_id \in Nat /\ message_id + 1 \in MessageId /\ MessageId \subseteq Nat
  BY ServerAssumption DEF MeetInv, CallType, MessageId
<1>2. ~(message_id + 1 <= message_id)
  BY <1>1
<1>3. \A j \in Nat : j <= message_id => j <= message_id + 1
  BY <1>1
<1> QED
  BY <1>1, <1>2, <1>3 DEF WriteInv, OnceInv, Settled

(* A new call writes nothing. *)
LEMMA SendWrites ==
    ASSUME WriteInv, MeetInv, NEW k \in Callers, NEW c \in Clients, NEW async \in BOOLEAN,
           Send(k, c, async)
    PROVE  WriteInv'
<1>i. PICK i \in MessageId : i = message_id + 1 /\ ~IsWritten(i)
                             /\ \A j \in MessageId : j <= message_id => j <= i
  BY NewIdIsUnwritten DEF Send
<1>1. /\ message_id' = i
      /\ call' = [call EXCEPT ![k] = [at |-> "push", id |-> i]]
      /\ UNCHANGED <<queue, spc, smsg, send_results, returned, written, killed>>
  BY <1>i DEF Send, senders
<1>2. /\ call'[k].at = "push" /\ call'[k].id = i
      /\ \A l \in Callers : l # k => call'[l] = call[l]
  BY <1>1 DEF MeetInv, CallType
<1>3. OnceInv'
  <2>1. \A j \in MessageId : IsWritten(j) /\ Settled(j) => Settled(j)'
    BY <1>1, <1>2, <1>i DEF Settled
  <2> QED
    BY <1>1, <1>2, <2>1, OnceFrame DEF WriteInv
<1>4. \A d \in Clients : spc[d] = "callback" => smsg[d].id \in MessageId
  BY DEF MeetInv, CallType, SenderInv
<1>5. TruthInv'
  BY <1>1, <1>4, SameWritten DEF WriteInv, TruthInv
<1> QED
  BY <1>3, <1>5 DEF WriteInv

(* Nor does one that fails at once. *)
LEMMA SerializeFailsWrites ==
    ASSUME WriteInv, MeetInv, NEW k \in Callers, SerializeFails(k) PROVE WriteInv'
<1>i. PICK i \in MessageId : i = message_id + 1 /\ ~IsWritten(i)
                             /\ \A j \in MessageId : j <= message_id => j <= i
  BY NewIdIsUnwritten DEF SerializeFails
<1>1. /\ message_id' = i
      /\ returned' = [returned EXCEPT ![i] = "failed"]
      /\ UNCHANGED <<queue, spc, smsg, send_results, call, written, killed>>
  BY <1>i DEF SerializeFails, senders
<1>2. returned'[i] = "failed" /\ \A j \in MessageId : j # i => returned'[j] = returned[j]
  BY <1>1 DEF MeetInv, CallType
<1>3. OnceInv'
  <2>1. \A j \in MessageId : IsWritten(j) /\ Settled(j) => Settled(j)'
    BY <1>1, <1>i DEF Settled
  <2> QED
    BY <1>1, <2>1, OnceFrame DEF WriteInv
<1>s. send_results[i] # "sent"
  BY <1>i DEF WriteInv, TruthInv
<1>4. \A d \in Clients : spc[d] = "callback" => smsg[d].id \in MessageId
  BY DEF MeetInv, CallType, SenderInv
<1>5. TruthInv'
  BY <1>1, <1>2, <1>4, <1>i, <1>s, SameWritten DEF WriteInv, TruthInv
<1> QED
  BY <1>3, <1>5 DEF WriteInv

(* A message that is queued has not been written. *)
LEMMA DispatchSendWrites ==
    ASSUME ServerInv, WriteInv, MeetInv, NEW k \in Callers, DispatchSend(k) PROVE WriteInv'
<1>i. PICK i \in MessageId : i = call[k].id
  BY DEF DispatchSend, MeetInv, CallType, CallerInv
<1>1. call[k].at = "push" /\ ~IsWritten(i)
  BY <1>i DEF DispatchSend, WriteInv, OnceInv, Settled
<1>2. /\ \A e \in Clients : \A j \in Range(queue'[e]) : j \in Range(queue[e]) \/ j = i
      /\ \A l \in Callers : call'[l].at = "push" => call'[l] = call[l]
      /\ \A j \in MessageId : returned'[j] = returned[j] \/ (j = i /\ returned'[j] = "failed")
      /\ UNCHANGED <<spc, smsg, message_id, send_results, messages, written, killed>>
  <2>1. CASE Destination(k) \in send_queues
    <3>1. PICK d \in Clients : d = Destination(k)
      BY <2>1 DEF ServerInv, ServerType
    <3>2. Range(Append(queue[d], i)) = Range(queue[d]) \cup {i}
      BY RangeAppend DEF MeetInv, CallType
    <3>3. queue' = [queue EXCEPT ![d] = Append(queue[d], i)]
      BY <1>i, <2>1, <3>1 DEF DispatchSend
    <3>c. call' = [call EXCEPT ![k] =
                      IF ~messages[i].async THEN [call[k] EXCEPT !.at = "wait"] ELSE NotCalling]
      BY <1>i, <2>1 DEF DispatchSend
    <3>4. \A l \in Callers : call'[l].at = "push" => call'[l] = call[l]
      BY <3>c DEF MeetInv, CallType, NotCalling
    <3>r. /\ returned' = returned
          /\ UNCHANGED <<spc, smsg, message_id, send_results, messages, written, killed>>
      BY <2>1 DEF DispatchSend
    <3>5. \A e \in Clients : \A j \in Range(queue'[e]) : j \in Range(queue[e]) \/ j = i
      <4>1. \A e \in Clients : queue'[e] = IF e = d THEN Append(queue[d], i) ELSE queue[e]
        BY <3>3 DEF MeetInv, CallType
      <4> QED
        BY <3>2, <4>1
    <3> QED
      BY <3>4, <3>5, <3>r
  <2>2. CASE Destination(k) \notin send_queues
    <3>1. /\ queue' = queue /\ call' = [call EXCEPT ![k] = NotCalling]
          /\ returned' = [returned EXCEPT ![i] = "failed"]
          /\ UNCHANGED <<spc, smsg, message_id, send_results, messages, written, killed>>
      BY <1>i, <2>2 DEF DispatchSend
    <3>2. \A l \in Callers : call'[l].at = "push" => call'[l] = call[l]
      BY <3>1 DEF MeetInv, CallType, NotCalling
    <3>3. returned'[i] = "failed" /\ \A j \in MessageId : j # i => returned'[j] = returned[j]
      BY <3>1 DEF MeetInv, CallType
    <3>4. \A e \in Clients : Range(queue'[e]) = Range(queue[e])
      BY <3>1
    <3> QED
      BY <3>1, <3>2, <3>3, <3>4
  <2> QED
    BY <2>1, <2>2
<1>3. OnceInv'
  <2>1. \A j \in MessageId : IsWritten(j) /\ Settled(j) => Settled(j)'
    BY <1>1, <1>2, <1>i DEF Settled
  <2> QED
    BY <1>1, <1>2, <2>1, OnceFrame DEF WriteInv
<1>4. \A d \in Clients : spc[d] = "callback" => smsg[d].id \in MessageId
  BY DEF MeetInv, CallType, SenderInv
<1>5. send_results[i] # "sent"
  BY <1>1 DEF WriteInv, TruthInv
<1>6. TruthInv'
  BY <1>1, <1>2, <1>4, <1>5, SameWritten DEF WriteInv, TruthInv
<1> QED
  BY <1>3, <1>6 DEF WriteInv

(* The call returns what was published. *)
LEMMA SendReturnsWrites ==
    ASSUME WriteInv, MeetInv, NEW k \in Callers, SendReturns(k) PROVE WriteInv'
<1>i. PICK i \in MessageId : i = call[k].id
  BY DEF SendReturns, MeetInv, CallType, CallerInv
<1>1. /\ returned' = [returned EXCEPT ![i] = send_results[i]]
      /\ send_results' = [send_results EXCEPT ![i] = "none"]
      /\ call' = [call EXCEPT ![k] = NotCalling]
      /\ UNCHANGED <<queue, spc, smsg, message_id, messages, written, killed>>
  BY <1>i DEF SendReturns, senders
<1>2. /\ \A l \in Callers : call'[l].at = "push" => call'[l] = call[l]
      /\ send_results'[i] = "none" /\ returned'[i] = send_results[i]
      /\ \A j \in MessageId : j # i => returned'[j] = returned[j] /\ send_results'[j] = send_results[j]
  BY <1>1 DEF MeetInv, CallType, NotCalling
<1>3. OnceInv'
  <2>1. \A j \in MessageId : IsWritten(j) /\ Settled(j) => Settled(j)'
    BY <1>1, <1>2, <1>i DEF Settled
  <2> QED
    BY <1>1, <1>2, <2>1, OnceFrame DEF WriteInv
<1>4. \A d \in Clients : spc[d] = "callback" => smsg[d].id \in MessageId
  BY DEF MeetInv, CallType, SenderInv
<1>5. TruthInv'
  BY <1>1, <1>2, <1>4, SameWritten DEF WriteInv, TruthInv
<1> QED
  BY <1>3, <1>5 DEF WriteInv

(* Every step keeps what the results say about what was written. *)
LEMMA WriteStep == ServerInv /\ MeetInv /\ WriteInv /\ [Next]_vars => WriteInv'
<1> SUFFICES ASSUME ServerInv, MeetInv, WriteInv, [Next]_vars PROVE WriteInv'
  OBVIOUS
<1>1. CASE ServerRuns
  BY <1>1, WriteFrame
  DEF ServerRuns, SetUp, CloseDisconnected, Accept, AcceptFails, NewClientCallback,
      UpdateTaskStatus, CleanUpCancels, CleanUpCloses
<1>2. CASE Destroy \/ DestroyReturns \/ UNCHANGED vars
  BY <1>2, WriteFrame DEF Destroy, DestroyReturns, vars
<1>3. ASSUME NEW c \in Clients,
             Connects(c) \/ Disconnects(c) \/ ReceiverEnds(c) \/ SenderEnds(c)
      PROVE  WriteInv'
  BY <1>3, WriteFrame DEF Connects, Disconnects, ReceiverEnds, SenderEnds
<1> QED
  BY <1>1, <1>2, <1>3, SenderPopsWrites, SendTimesOutWrites, SendMessageWrites,
     SendCallbackWrites, SendWrites, SerializeFailsWrites, DispatchSendWrites,
     SendReturnsWrites DEF Next

(* No connection carries more messages than there are. *)
LEMMA WrittenIsShort ==
    ASSUME CallType, NEW c \in Clients, NoRepeats(written[c])
    PROVE  Len(written[c]) <= MaxSends
<1> DEFINE n == Len(written[c])
<1>1. n \in Nat /\ written[c] \in [1..n -> MessageId] /\ MaxSends \in Nat
  BY ServerAssumption DEF CallType
<1>2. IsFiniteSet(1..n) /\ Cardinality(1..n) = n
  BY <1>1, FS_Interval
<1>3. IsFiniteSet(MessageId) /\ Cardinality(MessageId) = MaxSends
  BY <1>1, FS_Interval DEF MessageId
<1>4. ASSUME MaxSends < n PROVE FALSE
  <2>1. \E x, y \in 1..n : x # y /\ written[c][x] = written[c][y]
    BY <1>1, <1>2, <1>3, <1>4, FS_PigeonHole
  <2> QED
    BY <1>1, <2>1 DEF NoRepeats
<1> QED
  BY <1>1, <1>4

(* Counting the places of a message. *)
LEMMA TimesFact ==
    ASSUME CallType, OnceInv, NEW i \in MessageId
    PROVE  Times(i) = IF IsWritten(i) THEN 1 ELSE 0
<1>1. \A e \in PlacesOf(i) :
         /\ e[1] \in Clients /\ e[2] \in DOMAIN written[e[1]] /\ written[e[1]][e[2]] = i
         /\ i \in Range(written[e[1]]) /\ e = <<e[1], e[2]>>
  <2> SUFFICES ASSUME NEW e \in PlacesOf(i)
               PROVE  /\ e[1] \in Clients /\ e[2] \in DOMAIN written[e[1]]
                      /\ written[e[1]][e[2]] = i /\ i \in Range(written[e[1]])
                      /\ e = <<e[1], e[2]>>
    OBVIOUS
  <2>1. /\ e[1] \in Clients /\ e[2] \in 1..MaxSends /\ e = <<e[1], e[2]>>
        /\ e[2] <= Len(written[e[1]]) /\ written[e[1]][e[2]] = i
    BY DEF PlacesOf, MessageId
  <2>2. e[2] \in DOMAIN written[e[1]]
    BY <2>1, ServerAssumption DEF CallType
  <2> QED
    BY <2>1, <2>2 DEF Range
<1>2. CASE ~IsWritten(i)
  <2>1. PlacesOf(i) = {}
    BY <1>1, <1>2 DEF IsWritten
  <2> QED
    BY <1>2, <2>1, FS_EmptySet DEF Times
<1>3. CASE IsWritten(i)
  <2>1. PICK c \in Clients : i \in Range(written[c])
    BY <1>3 DEF IsWritten
  <2>2. PICK n \in DOMAIN written[c] : written[c][n] = i
    BY <2>1 DEF Range
  <2>3. n \in 1..Len(written[c]) /\ Len(written[c]) \in Nat /\ Len(written[c]) <= MaxSends
    BY <2>2, WrittenIsShort DEF CallType, OnceInv
  <2>4. <<c, n>> \in PlacesOf(i)
    BY <2>2, <2>3, ServerAssumption DEF PlacesOf, MessageId
  <2>5. \A e \in PlacesOf(i) : e = <<c, n>>
    <3> SUFFICES ASSUME NEW e \in PlacesOf(i) PROVE e[1] = c /\ e[2] = n
      BY <1>1
    <3>1. e[1] = c
      BY <1>1, <2>1 DEF OnceInv
    <3> QED
      BY <1>1, <2>2, <3>1 DEF OnceInv, NoRepeats
  <2>6. PlacesOf(i) = {<<c, n>>}
    BY <2>4, <2>5
  <2> QED
    BY <1>3, <2>6, FS_Singleton DEF Times
<1> QED
  BY <1>2, <1>3

(* A message is written at most once, however often its send is tried; it    *)
(* was if Send() returned success, and is never if it returned failure, for  *)
(* any number of clients, callers and messages (sender_task.cpp:36-57 and    *)
(* server.cpp:44-69).                                                        *)
THEOREM ResultTellsTruthHolds == Spec => []ResultTellsTruth
<1>1. ASSUME MeetInv, WriteInv PROVE ResultTellsTruth
  <2> SUFFICES ASSUME NEW i \in MessageId
               PROVE  /\ Times(i) <= 1
                      /\ returned[i] = "sent" => Times(i) = 1
                      /\ returned[i] = "failed" => Times(i) = 0
    BY DEF ResultTellsTruth
  <2>1. Times(i) = IF IsWritten(i) THEN 1 ELSE 0
    BY <1>1, TimesFact DEF MeetInv, WriteInv
  <2> QED
    BY <1>1, <2>1 DEF WriteInv, TruthInv
<1> QED
  BY <1>1, WriteInit, WriteStep, ServerIndInv, PTL DEF Spec
=============================================================================
