------------------------ MODULE Coordinator_proofs ------------------------
(***************************************************************************)
(* Proofs about Coordinator, for any number of participants and requests:  *)
(* the two records of who is connected agree; nobody that is connected is  *)
(* without a messenger, unless a request to leave has overtaken its own    *)
(* registration; and while nobody joins or leaves every member is sent     *)
(* every message once.                                                     *)
(***************************************************************************)
EXTENDS Coordinator, FiniteSetTheorems, TLAPS

Labels == {"idle", "generate", "increment", "check", "id", "respond", "connect",
           "enter", "add", "find", "find_messenger", "copy", "leave", "close",
           "delete", "clock", "missed", "send_missed", "push", "pop", "next", "send", "log", "done"}
Locals == [kind : RequestKinds \cup {"none"}, by : Participants \cup {NoFd}, id : Id,
           participant : Participant, duplicate : BOOLEAN, messenger : Fd,
           msg : Tasks \cup {NoFd}, todo : SUBSET Makers, missed : SUBSET Tasks,
           reconnection_time : Time]

(* What is known of the members, and of the tasks. *)
ManagerType ==
    /\ id_ \in Id
    /\ id_to_participant \in [Id -> Unknown \cup Known]
    /\ connected_participants \subseteq Id
    /\ my_id \in [Participants -> Id]
MessengerType == messengers \subseteq Makers /\ messenger \in [Makers -> Participant]
MessageType ==
    /\ msg_queue \in Seq(Tasks)
    /\ coordinator_messages \in [Tasks -> Time]
    /\ now \in Time
NetType ==
    /\ open \subseteq Makers
    /\ peer \in [Makers -> {"none", "open", "closed", "reset"}]
    /\ sent \in [Makers -> Seq(Tasks)]
TaskType == pc \in [Tasks -> Labels] /\ loc \in [Tasks -> Locals]

(* The type invariant, part by part. *)
LEMMA TypeParts ==
    TypeOK <=> /\ ManagerType /\ MessengerType /\ MessageType /\ NetType /\ TaskType
               /\ killed \in BOOLEAN /\ overtaken \subseteq Id
BY DEF TypeOK, ManagerType, MessengerType, MessageType, NetType, TaskType, Labels, Locals

(* The handler a task is in, by its request. *)
KindAt(label, kind) ==
    /\ label \in {"generate", "increment", "check", "id", "respond"} => kind = "register"
    /\ label \in {"connect", "enter", "add"} => kind \in {"register", "reconnect"}
    /\ label = "find" => kind \in {"deregister", "disconnect", "reconnect"}
    /\ label \in {"find_messenger", "copy", "leave", "delete"} =>
          kind \in {"deregister", "disconnect"}
    /\ label = "close" => kind = "deregister"
    /\ label \in {"clock", "missed", "send_missed"} => kind = "reconnect"
    /\ label \in {"push", "pop", "next", "send", "log"} => kind = "multicast"

(* A task is in a handler of its request, has a message when it broadcasts,  *)
(* and enters a participant only with the connection it has made.            *)
LocalAt(t, label, r) ==
    /\ label = "idle" => r = NoLocals
    /\ label \notin {"idle", "done"} => r.by \in Participants
    /\ KindAt(label, r.kind)
    /\ label \in {"next", "send", "log"} => r.msg \in Tasks
    /\ label = "enter" => r.participant.sock_fd = t
LocalInv == \A t \in Tasks : LocalAt(t, pc[t], loc[t])

BaseInv == TypeOK /\ ManagerAgrees /\ LocalInv

-----------------------------------------------------------------------------
(* Records. *)

LEMMA SetFacts ==
    /\ 0 \in Id /\ 0 \in Time /\ NoFd \in Fd /\ Id \subseteq Nat /\ Time \subseteq Nat
    /\ \A t \in Tasks : t \in Makers /\ t \in Fd /\ t # NoFd /\ t \notin Participants
    /\ \A p \in Participants : p \in Makers /\ p # NoFd
    /\ NoFd \notin Makers /\ NoFd \notin Tasks
    /\ NoParticipant \in Participant /\ NoLocals \in Locals
    /\ Absent \in Unknown
<1>1. Cardinality(Members) \in Nat /\ Cardinality(Tasks) \in Nat
  BY SetsAssumption, FS_Subset, FS_CardinalityType
<1>2. 0 \in Id /\ 0 \in Time /\ Id \subseteq Nat /\ Time \subseteq Nat
  BY <1>1, NumbersAssumption DEF Id, Time
<1>3. NoFd \in Fd /\ NoFd \notin Makers /\ NoFd \notin Tasks
  BY SetsAssumption DEF Fd, Makers
<1>4. \A t \in Tasks : t \in Makers /\ t \in Fd /\ t # NoFd /\ t \notin Participants
  BY SetsAssumption DEF Fd, Makers
<1>5. NoParticipant \in Participant
  BY <1>2, <1>3 DEF NoParticipant, Participant
<1>6. NoLocals \in Locals
  BY <1>2, <1>3, <1>5 DEF NoLocals, Locals
<1>7. Absent \in Unknown
  BY DEF Absent, Unknown
<1> QED
  BY <1>2, <1>3, <1>4, <1>5, <1>6, <1>7, SetsAssumption DEF Makers

(* A local is assigned. *)
LEMMA LocalsFact ==
    ASSUME NEW r \in Locals
    PROVE  /\ \A x \in Id : [r EXCEPT !.id = x] \in Locals
           /\ \A x \in Participant : [r EXCEPT !.participant = x] \in Locals
           /\ \A x \in Id, y \in Participant :
                 [r EXCEPT !.id = x, !.participant = y] \in Locals
           /\ \A x \in BOOLEAN : [r EXCEPT !.duplicate = x] \in Locals
           /\ \A x \in SUBSET Makers : [r EXCEPT !.todo = x] \in Locals
           /\ \A x \in SUBSET Makers, y \in Fd :
                 [r EXCEPT !.messenger = y, !.todo = x] \in Locals
           /\ \A x \in SUBSET Makers, y \in Fd :
                 [r EXCEPT !.todo = x, !.messenger = y] \in Locals
           /\ \A x \in SUBSET Makers, y \in Tasks :
                 [r EXCEPT !.msg = y, !.todo = x] \in Locals
           /\ \A x \in SUBSET Tasks : [r EXCEPT !.missed = x] \in Locals
           /\ \A x \in Time : [r EXCEPT !.reconnection_time = x] \in Locals
           /\ \A k \in RequestKinds, p \in Participants, x \in Id :
                 [r EXCEPT !.kind = k, !.by = p, !.id = x] \in Locals
BY DEF Locals

-----------------------------------------------------------------------------
(* What one step of a task leaves alone. *)

(* What a task does itself. *)
TaskStep(t) ==
    \/ \E p \in Active, kind \in Requests : Accept(t, p, kind)
    \/ AcceptNothing(t) \/ Handle(t)

(* Of another task, only the walk over the messengers is disturbed. *)
Kept(s) ==
    /\ pc'[s] = pc[s]
    /\ pc[s] \in {"copy", "next", "send", "log"} \/ loc'[s] = loc[s]
    /\ \E rest \in SUBSET Makers :
          /\ rest \subseteq loc[s].todo \cup messengers'
          /\ loc'[s] = [loc[s] EXCEPT !.todo = rest]

Frame(t) ==
    /\ DOMAIN pc' = Tasks /\ pc' = [s \in Tasks |-> pc'[s]]
    /\ DOMAIN loc' = Tasks /\ loc' = [s \in Tasks |-> loc'[s]]
    /\ \A s \in Tasks \ {t} : Kept(s)

(* A task whose place and locals are unchanged is left alone. *)
LEMMA SameIsKept ==
    ASSUME TypeOK, NEW s \in Tasks, pc'[s] = pc[s], loc'[s] = loc[s]
    PROVE  Kept(s)
<1>1. loc[s] \in Locals
  BY TypeParts DEF TaskType
<1>2. loc[s].todo \in SUBSET Makers /\ loc[s] = [loc[s] EXCEPT !.todo = loc[s].todo]
  BY <1>1 DEF Locals
<1> QED
  BY <1>2 DEF Kept

(* The locals that no other task can disturb. *)
LEMMA KeptFields ==
    ASSUME TypeOK, NEW s \in Tasks, Kept(s)
    PROVE  /\ loc'[s] \in Locals
           /\ loc'[s].kind = loc[s].kind /\ loc'[s].by = loc[s].by /\ loc'[s].id = loc[s].id
           /\ loc'[s].participant = loc[s].participant
           /\ loc'[s].duplicate = loc[s].duplicate
           /\ loc'[s].messenger = loc[s].messenger /\ loc'[s].msg = loc[s].msg
           /\ loc'[s].todo \subseteq loc[s].todo \cup messengers'
<1>1. loc[s] \in Locals
  BY TypeParts DEF TaskType
<1>2. PICK rest \in SUBSET Makers :
          /\ rest \subseteq loc[s].todo \cup messengers'
          /\ loc'[s] = [loc[s] EXCEPT !.todo = rest]
  BY DEF Kept
<1>3. loc'[s] \in Locals
  BY <1>1, <1>2, LocalsFact
<1> QED
  BY <1>1, <1>2, <1>3 DEF Locals
(* A change of the walks is one of them. *)
LEMMA DisturbedIsKept ==
    ASSUME TypeOK, NEW s \in Iterators, pc'[s] = pc[s],
           messengers' \subseteq Makers, loc'[s] \in AfterInsertion(s)
    PROVE  Kept(s)
<1>1. s \in Tasks /\ pc[s] \in {"copy", "next", "send", "log"}
  BY DEF Iterators, Broadcasting
<1>2. PICK rest \in SUBSET messengers' : loc'[s] = [loc[s] EXCEPT !.todo = rest]
  BY DEF AfterInsertion
<1> QED
  BY <1>1, <1>2 DEF Kept

(* So is a walk from which an erasure takes an element. *)
LEMMA ErasedIsKept ==
    ASSUME TypeOK, NEW s \in Iterators, pc'[s] = pc[s], NEW erased,
           messengers' \subseteq Makers, loc'[s] \in AfterErasure(s, erased)
    PROVE  Kept(s)
<1>1. s \in Tasks /\ pc[s] \in {"copy", "next", "send", "log"}
  BY DEF Iterators, Broadcasting
<1>2. CASE loc'[s] = loc[s]
  BY <1>1, <1>2, SameIsKept
<1>3. CASE loc'[s] \in AfterInsertion(s)
  BY <1>3, DisturbedIsKept
<1>4. CASE loc'[s] = [loc[s] EXCEPT !.todo = @ \ erased]
  <2>1. loc[s] \in Locals
    BY <1>1, TypeParts DEF TaskType
  <2>2. loc[s].todo \in SUBSET Makers
    BY <2>1 DEF Locals
  <2>3. loc'[s] = [loc[s] EXCEPT !.todo = loc[s].todo \ erased]
    BY <1>4
  <2> QED
    BY <1>1, <2>2, <2>3 DEF Kept
<1> QED
  BY <1>2, <1>3, <1>4 DEF AfterErasure

(* AddMessenger disturbs the walks of the others and nothing else of them. *)
LEMMA AddFrame ==
    ASSUME TypeOK, NEW t \in Tasks, AddMessenger(t)
    PROVE  /\ Frame(t)
           /\ loc'[t] = IF loc[t].kind = "register" THEN Ended(t) ELSE loc[t]
<1>1. MessengerType /\ TaskType
  BY TypeParts
<1>2. messengers' \subseteq Makers
  BY <1>1, SetFacts DEF MessengerType, AddMessenger
<1>3. PICK others \in [Iterators -> UNION {AfterInsertion(s) : s \in Iterators}] :
          /\ \A s \in Iterators : others[s] \in AfterInsertion(s)
          /\ loc' = [s \in Tasks |->
                IF s \in Iterators THEN others[s]
                ELSE IF s = t /\ loc[t].kind = "register" THEN Ended(t) ELSE loc[s]]
  BY DEF AddMessenger
<1>4. pc' = [pc EXCEPT ![t] = IF loc[t].kind = "register" THEN "done" ELSE "clock"]
  BY DEF AddMessenger, Goto
<1>5. t \notin Iterators /\ Iterators \subseteq Tasks
  BY DEF AddMessenger, At, Iterators, Broadcasting
<1>6. ASSUME NEW s \in Tasks \ {t}
      PROVE  Kept(s)
  <2>1. pc'[s] = pc[s]
    BY <1>1, <1>4 DEF TaskType
  <2>2. CASE s \in Iterators
    <3>1. loc'[s] = others[s]
      BY <1>3, <2>2
    <3>2. loc'[s] \in AfterInsertion(s)
      BY <3>1, <1>3, <2>2
    <3> QED
      BY <1>2, <2>1, <2>2, <3>2, DisturbedIsKept
  <2>3. CASE s \notin Iterators
    <3>1. loc'[s] = loc[s]
      BY <1>3, <2>3
    <3> QED
      BY <2>1, <3>1, SameIsKept
  <2> QED
    BY <2>2, <2>3
<1>7. pc' = [s \in Tasks |-> pc'[s]] /\ loc' = [s \in Tasks |-> loc'[s]]
  BY <1>1, <1>3, <1>4 DEF TaskType
<1> QED
  BY <1>1, <1>3, <1>4, <1>5, <1>6, <1>7 DEF Frame, TaskType

(* So does DeleteMessenger. *)
LEMMA DeleteFrame ==
    ASSUME TypeOK, NEW t \in Tasks, DeleteMessenger(t)
    PROVE  Frame(t) /\ loc'[t] = Ended(t)
<1>1. MessengerType /\ TaskType
  BY TypeParts
<1>2. messengers' \subseteq Makers
  BY <1>1 DEF MessengerType, DeleteMessenger
<1>3. PICK others \in [Iterators -> UNION {AfterErasure(s, Deleted(t)) : s \in Iterators}] :
          /\ \A s \in Iterators : others[s] \in AfterErasure(s, Deleted(t))
          /\ loc' = [s \in Tasks |->
                IF s \in Iterators THEN others[s] ELSE IF s = t THEN Ended(t) ELSE loc[s]]
  BY DEF DeleteMessenger
<1>4. pc' = [pc EXCEPT ![t] = "done"]
  BY DEF DeleteMessenger, Goto
<1>5. t \notin Iterators /\ Iterators \subseteq Tasks
  BY DEF DeleteMessenger, At, Iterators, Broadcasting
<1>6. ASSUME NEW s \in Tasks \ {t}
      PROVE  Kept(s)
  <2>1. pc'[s] = pc[s]
    BY <1>1, <1>4 DEF TaskType
  <2>2. CASE s \in Iterators
    <3>1. loc'[s] = others[s]
      BY <1>3, <2>2
    <3>2. loc'[s] \in AfterErasure(s, Deleted(t))
      BY <3>1, <1>3, <2>2
    <3> QED
      BY <1>2, <2>1, <2>2, <3>2, ErasedIsKept
  <2>3. CASE s \notin Iterators
    <3>1. loc'[s] = loc[s]
      BY <1>3, <2>3
    <3> QED
      BY <2>1, <3>1, SameIsKept
  <2> QED
    BY <2>2, <2>3
<1>7. pc' = [s \in Tasks |-> pc'[s]] /\ loc' = [s \in Tasks |-> loc'[s]]
  BY <1>1, <1>3, <1>4 DEF TaskType
<1> QED
  BY <1>1, <1>3, <1>4, <1>5, <1>6, <1>7 DEF Frame, TaskType

(* What the task itself goes on with. *)
Own(t) == pc'[t] \in Labels /\ loc'[t] \in Locals /\ LocalAt(t, pc'[t], loc'[t])

(* A step that writes the place and the locals of its own task only. *)
LEMMA SimpleStep ==
    ASSUME TypeOK, NEW t \in Tasks, NEW label \in Labels, NEW r \in Locals,
           pc' = [pc EXCEPT ![t] = label], loc' = [loc EXCEPT ![t] = r], LocalAt(t, label, r)
    PROVE  Frame(t) /\ Own(t)
<1>1. TaskType
  BY TypeParts
<1>2. pc'[t] = label /\ loc'[t] = r
  BY <1>1 DEF TaskType
<1>3. ASSUME NEW s \in Tasks \ {t}
      PROVE  Kept(s)
  <2>1. pc'[s] = pc[s] /\ loc'[s] = loc[s]
    BY <1>1 DEF TaskType
  <2> QED
    BY <2>1, SameIsKept
<1> QED
  BY <1>1, <1>2, <1>3 DEF TaskType, Frame, Own

(* The locals of a task that has ended. *)
LEMMA EndedFact ==
    ASSUME TypeOK, NEW t \in Tasks
    PROVE  /\ Ended(t) \in Locals /\ LocalAt(t, "done", Ended(t))
           /\ Ended(t).kind = loc[t].kind /\ Ended(t).by = loc[t].by /\ Ended(t).id = 0
           /\ Ended(t).participant = NoParticipant /\ Ended(t).duplicate = FALSE
           /\ Ended(t).messenger = NoFd /\ Ended(t).todo = {}
<1>1. loc[t] \in Locals
  BY TypeParts DEF TaskType
<1>2. Ended(t) \in Locals
  BY <1>1, SetFacts DEF Ended, NoLocals, Locals
<1>3. LocalAt(t, "done", Ended(t))
  BY DEF LocalAt, KindAt
<1> QED
  BY <1>2, <1>3 DEF Ended, NoLocals

(* The end of a request. *)
LEMMA DoneStep ==
    ASSUME TypeOK, NEW t \in Tasks, Done(t)
    PROVE  Frame(t) /\ Own(t) /\ pc'[t] = "done" /\ loc'[t] = Ended(t)
<1>1. TaskType /\ "done" \in Labels
  BY TypeParts DEF Labels
<1> QED
  BY <1>1, EndedFact, SimpleStep DEF Done, Goto, TaskType

(* The steps of a registration keep their task in its handler. *)
LEMMA RegisterOwn ==
    ASSUME BaseInv, NEW t \in Tasks, HandleRegister(t)
    PROVE  Frame(t) /\ Own(t)
<1>0. /\ TaskType /\ ManagerType /\ LocalAt(t, pc[t], loc[t]) /\ loc[t] \in Locals /\ pc[t] \in Labels
      /\ MessageType /\ TypeOK
  BY TypeParts DEF BaseInv, LocalInv, TaskType
<1>a. loc = [loc EXCEPT ![t] = loc[t]]
  BY <1>0 DEF TaskType
<1>1. CASE GenerateID(t)
  <2>1. [loc[t] EXCEPT !.id = id_] \in Locals
    BY <1>0, LocalsFact DEF ManagerType
  <2>2. LocalAt(t, "increment", [loc[t] EXCEPT !.id = id_])
    BY <1>0, <1>1 DEF LocalAt, KindAt, GenerateID, At, Locals
  <2> QED
    BY <1>0, <1>1, <2>1, <2>2, SimpleStep DEF GenerateID, Goto, Labels
<1>2. CASE IncrementID(t)
  <2>2. LocalAt(t, "check", loc[t])
    BY <1>0, <1>2 DEF LocalAt, KindAt, IncrementID, At
  <2> QED
    BY <1>0, <1>a, <1>2, <2>2, SimpleStep DEF IncrementID, Goto, Labels
<1>3. CASE CheckID(t)
  <2>0. PICK d \in BOOLEAN : /\ loc' = [loc EXCEPT ![t].duplicate = d]
                             /\ pc' = [pc EXCEPT ![t] = IF d THEN "generate" ELSE "id"]
    <3>1. loc[t].duplicate \in BOOLEAN
      BY <1>0 DEF Locals
    <3>2. CASE connected_participants = {}
      BY <3>1, <3>2, <1>3 DEF CheckID, Goto
    <3>3. CASE connected_participants # {}
      <4>2. CASE id_ \in connected_participants
        <5>1. loc' = [loc EXCEPT ![t].duplicate = TRUE]
          BY <3>3, <4>2, <1>3 DEF CheckID
        <5> QED
          BY <5>1, <3>3, <4>2, <1>3 DEF CheckID, Goto
      <4>3. CASE id_ \notin connected_participants
        <5>0. (id_ \in connected_participants) = FALSE
          BY <4>3
        <5>1. loc' = [loc EXCEPT ![t].duplicate = FALSE]
          BY <3>3, <5>0, <1>3, Zenon DEF CheckID
        <5> QED
          BY <5>1, <3>3, <4>3, <1>3 DEF CheckID, Goto
      <4> QED
        BY <4>2, <4>3
    <3> QED
      BY <3>2, <3>3
  <2>1. [loc[t] EXCEPT !.duplicate = d] \in Locals
    BY <1>0, LocalsFact
  <2>2. /\ LocalAt(t, "generate", [loc[t] EXCEPT !.duplicate = d])
        /\ LocalAt(t, "id", [loc[t] EXCEPT !.duplicate = d])
    BY <1>0, <1>3 DEF LocalAt, KindAt, CheckID, At, Locals
  <2> QED
    BY <1>0, <2>0, <2>1, <2>2, SimpleStep DEF Labels
<1>4. CASE ReturnID(t)
  <2>0. PICK p \in Participant :
          loc' = [loc EXCEPT ![t].id = 0, ![t].participant = p]
    BY <1>0, <1>4, SetFacts DEF ReturnID, ReadClock, Participant, ManagerType, MessageType
  <2>1. [loc[t] EXCEPT !.id = 0, !.participant = p] \in Locals
    BY <1>0, LocalsFact, SetFacts
  <2>2. LocalAt(t, "respond", [loc[t] EXCEPT !.id = 0, !.participant = p])
    BY <1>0, <1>4 DEF LocalAt, KindAt, ReturnID, At, Locals
  <2>3. loc' = [loc EXCEPT ![t] = [loc[t] EXCEPT !.id = 0, !.participant = p]]
    BY <1>0, <2>0 DEF TaskType
  <2> QED
    BY <1>0, <1>4, <2>3, <2>1, <2>2, SimpleStep DEF ReturnID, Goto, Labels
<1>5. CASE SendRegistrationResponse(t)
  <2>2. LocalAt(t, "connect", loc[t])
    BY <1>0, <1>5 DEF LocalAt, KindAt, SendRegistrationResponse, At
  <2> QED
    BY <1>0, <1>a, <1>5, <2>2, SimpleStep DEF SendRegistrationResponse, Goto, Labels
<1>6. CASE RegisterParticipant(t)
  <2>2. LocalAt(t, "add", loc[t])
    BY <1>0, <1>6 DEF LocalAt, KindAt, RegisterParticipant, At
  <2> QED
    BY <1>0, <1>a, <1>6, <2>2, SimpleStep DEF RegisterParticipant, Goto, Labels
<1> QED
  BY <1>1, <1>2, <1>3, <1>4, <1>5, <1>6 DEF HandleRegister

(* The steps of a deregistration or a disconnection do. *)
LEMMA LeaveOwn ==
    ASSUME BaseInv, NEW t \in Tasks, HandleLeave(t)
    PROVE  Frame(t) /\ Own(t)
<1>0. /\ TaskType /\ LocalAt(t, pc[t], loc[t]) /\ loc[t] \in Locals /\ pc[t] \in Labels
      /\ MessengerType /\ TypeOK
  BY TypeParts DEF BaseInv, LocalInv, TaskType
<1>a. loc = [loc EXCEPT ![t] = loc[t]]
  BY <1>0 DEF TaskType
<1>1. CASE GetMessengers(t)
  <2>1. [loc[t] EXCEPT !.todo = messengers] \in Locals
    BY <1>0, LocalsFact DEF MessengerType
  <2>2. LocalAt(t, "copy", [loc[t] EXCEPT !.todo = messengers])
    BY <1>0, <1>1 DEF LocalAt, KindAt, GetMessengers, At, Locals
  <2> QED
    BY <1>0, <1>1, <2>1, <2>2, SimpleStep DEF GetMessengers, Goto, Labels
<1>2. CASE DetermineMessenger(t)
  <2>0. PICK x \in loc[t].todo \cup {NoFd} : loc' = [loc EXCEPT ![t].messenger = x, ![t].todo = {}]
    BY <1>2 DEF DetermineMessenger
  <2>1. x \in Fd
    BY <1>0, SetFacts DEF Fd, Locals
  <2>2. [loc[t] EXCEPT !.messenger = x, !.todo = {}] \in Locals
    BY <1>0, <2>1, LocalsFact
  <2>3. LocalAt(t, "leave", [loc[t] EXCEPT !.messenger = x, !.todo = {}])
    BY <1>0, <1>2 DEF LocalAt, KindAt, DetermineMessenger, At, Locals
  <2>4. loc' = [loc EXCEPT ![t] = [loc[t] EXCEPT !.messenger = x, !.todo = {}]]
    BY <1>0, <2>0 DEF TaskType
  <2> QED
    BY <1>0, <1>2, <2>2, <2>3, <2>4, SimpleStep DEF DetermineMessenger, Goto, Labels
<1>3. CASE DeregisterParticipant(t)
  <2>2. LocalAt(t, "close", loc[t])
    BY <1>0, <1>3 DEF LocalAt, KindAt, DeregisterParticipant, At
  <2> QED
    BY <1>0, <1>a, <1>3, <2>2, SimpleStep DEF DeregisterParticipant, Goto, Labels
<1>4. CASE CloseSocket(t)
  <2>2. LocalAt(t, "delete", loc[t])
    BY <1>0, <1>4 DEF LocalAt, KindAt, CloseSocket, At
  <2> QED
    BY <1>0, <1>a, <1>4, <2>2, SimpleStep DEF CloseSocket, Goto, Labels
<1>5. CASE DisconnectParticipant(t)
  <2>2. LocalAt(t, "delete", loc[t])
    BY <1>0, <1>5 DEF LocalAt, KindAt, DisconnectParticipant, At
  <2> QED
    BY <1>0, <1>a, <1>5, <2>2, SimpleStep DEF DisconnectParticipant, Goto, Labels
<1>6. CASE DeleteMessenger(t)
  <2>1. pc'[t] = "done"
    BY <1>0, <1>6 DEF TaskType, DeleteMessenger, Goto
  <2> QED
    BY <1>0, <1>6, <2>1, DeleteFrame, EndedFact DEF Own, Labels
<1> QED
  BY <1>1, <1>2, <1>3, <1>4, <1>5, <1>6 DEF HandleLeave

(* The steps of a reconnection do. *)
LEMMA ReconnectOwn ==
    ASSUME BaseInv, NEW t \in Tasks, HandleReconnect(t)
    PROVE  Frame(t) /\ Own(t)
<1>0. /\ TaskType /\ LocalAt(t, pc[t], loc[t]) /\ loc[t] \in Locals /\ pc[t] \in Labels
      /\ MessageType /\ TypeOK
  BY TypeParts DEF BaseInv, LocalInv, TaskType
<1>a. loc = [loc EXCEPT ![t] = loc[t]]
  BY <1>0 DEF TaskType
<1>1. CASE ReconnectParticipant(t)
  <2>2. LocalAt(t, "add", loc[t])
    BY <1>0, <1>1 DEF LocalAt, KindAt, ReconnectParticipant, At
  <2> QED
    BY <1>0, <1>a, <1>1, <2>2, SimpleStep DEF ReconnectParticipant, Goto, Labels
<1>2. CASE ReconnectionTime(t)
  <2>0. now' \in Time
    BY <1>2 DEF ReconnectionTime, ReadClock
  <2>1. [loc[t] EXCEPT !.reconnection_time = now'] \in Locals
    BY <1>0, <2>0, LocalsFact
  <2>2. LocalAt(t, "missed", [loc[t] EXCEPT !.reconnection_time = now'])
    BY <1>0, <1>2 DEF LocalAt, KindAt, ReconnectionTime, At, Locals
  <2> QED
    BY <1>0, <1>2, <2>1, <2>2, SimpleStep DEF ReconnectionTime, Goto, Labels
<1>3. CASE FindMissedMessages(t)
  <2>0. PICK found \in SUBSET Tasks : loc' = [loc EXCEPT ![t].missed = found]
    BY <1>3 DEF FindMissedMessages, GetMissedMessages
  <2>1. [loc[t] EXCEPT !.missed = found] \in Locals
    BY <1>0, LocalsFact
  <2>2. LocalAt(t, "send_missed", [loc[t] EXCEPT !.missed = found])
    BY <1>0, <1>3 DEF LocalAt, KindAt, FindMissedMessages, At, Locals
  <2> QED
    BY <1>0, <1>3, <2>0, <2>1, <2>2, SimpleStep DEF FindMissedMessages, Goto, Labels
<1>4. CASE SendMissedMessages(t)
  <2>1. CASE Done(t)
    BY <1>0, <2>1, DoneStep
  <2>2. CASE \E m \in loc[t].missed : loc' = [loc EXCEPT ![t].missed = @ \ {m}] /\ UNCHANGED pc
    <3>1. PICK m \in loc[t].missed :
            loc' = [loc EXCEPT ![t].missed = loc[t].missed \ {m}] /\ UNCHANGED pc
      BY <2>2, <1>0 DEF TaskType
    <3>2. loc[t].missed \ {m} \in SUBSET Tasks
      BY <1>0 DEF Locals
    <3>3. [loc[t] EXCEPT !.missed = loc[t].missed \ {m}] \in Locals
      BY <1>0, <3>2, LocalsFact
    <3>4. LocalAt(t, "send_missed", [loc[t] EXCEPT !.missed = loc[t].missed \ {m}])
      BY <1>0, <1>4 DEF LocalAt, KindAt, SendMissedMessages, At, Locals
    <3>5. pc' = [pc EXCEPT ![t] = "send_missed"]
      BY <1>0, <1>4, <3>1 DEF SendMissedMessages, At, TaskType
    <3> QED
      BY <1>0, <3>1, <3>3, <3>4, <3>5, SimpleStep DEF Labels
  <2> QED
    BY <1>4, <2>1, <2>2 DEF SendMissedMessages
<1> QED
  BY <1>1, <1>2, <1>3, <1>4 DEF HandleReconnect

(* The steps of a multicast do. *)
LEMMA MulticastOwn ==
    ASSUME BaseInv, NEW t \in Tasks, HandleMulticast(t)
    PROVE  Frame(t) /\ Own(t)
<1>0. /\ TaskType /\ LocalAt(t, pc[t], loc[t]) /\ loc[t] \in Locals /\ pc[t] \in Labels
      /\ MessageType /\ MessengerType /\ TypeOK
  BY TypeParts DEF BaseInv, LocalInv, TaskType
<1>a. loc = [loc EXCEPT ![t] = loc[t]]
  BY <1>0 DEF TaskType
<1>1. CASE Push(t)
  <2>2. LocalAt(t, "pop", loc[t])
    BY <1>0, <1>1 DEF LocalAt, KindAt, Push, At
  <2> QED
    BY <1>0, <1>a, <1>1, <2>2, SimpleStep DEF Push, Goto, Labels
<1>2. CASE Pop(t)
  <2>0. Head(msg_queue) \in Tasks
    BY <1>0, <1>2 DEF MessageType, Pop
  <2>1. [loc[t] EXCEPT !.msg = Head(msg_queue), !.todo = messengers] \in Locals
    BY <1>0, <2>0, LocalsFact DEF MessengerType
  <2>2. LocalAt(t, "next", [loc[t] EXCEPT !.msg = Head(msg_queue), !.todo = messengers])
    BY <1>0, <1>2, <2>0 DEF LocalAt, KindAt, Pop, At, Locals
  <2>3. loc' = [loc EXCEPT ![t] = [loc[t] EXCEPT !.msg = Head(msg_queue), !.todo = messengers]]
    BY <1>0, <1>2 DEF TaskType, Pop
  <2> QED
    BY <1>0, <1>2, <2>1, <2>2, <2>3, SimpleStep DEF Pop, Goto, Labels
<1>3. CASE NextMessenger(t)
  <2>1. CASE Done(t)
    BY <1>0, <2>1, DoneStep
  <2>2. CASE \E x \in loc[t].todo :
             /\ loc' = [loc EXCEPT ![t].todo = @ \ {x}, ![t].messenger = x]
             /\ Goto(t, IF messenger[x].id \in connected_participants THEN "send" ELSE "next")
    <3>1. PICK x \in loc[t].todo :
             /\ loc' = [loc EXCEPT ![t].todo = @ \ {x}, ![t].messenger = x]
             /\ Goto(t, IF messenger[x].id \in connected_participants THEN "send" ELSE "next")
      BY <2>2
    <3>2. x \in Fd /\ loc[t].todo \ {x} \in SUBSET Makers
      BY <1>0 DEF Fd, Locals
    <3>3. [loc[t] EXCEPT !.todo = loc[t].todo \ {x}, !.messenger = x] \in Locals
      BY <1>0, <3>2, LocalsFact
    <3>4. /\ LocalAt(t, "send", [loc[t] EXCEPT !.todo = loc[t].todo \ {x}, !.messenger = x])
          /\ LocalAt(t, "next", [loc[t] EXCEPT !.todo = loc[t].todo \ {x}, !.messenger = x])
      BY <1>0, <1>3 DEF LocalAt, KindAt, NextMessenger, At, Locals
    <3>5. loc' = [loc EXCEPT ![t] = [loc[t] EXCEPT !.todo = loc[t].todo \ {x}, !.messenger = x]]
      BY <1>0, <3>1 DEF TaskType
    <3> QED
      BY <1>0, <3>1, <3>3, <3>4, <3>5, SimpleStep DEF Goto, Labels
  <2> QED
    BY <1>3, <2>1, <2>2 DEF NextMessenger
<1>4. CASE SendMessage(t)
  <2>2. LocalAt(t, "log", loc[t]) /\ LocalAt(t, "next", loc[t])
    BY <1>0, <1>4 DEF LocalAt, KindAt, SendMessage, At
  <2> QED
    BY <1>0, <1>a, <1>4, <2>2, SimpleStep DEF SendMessage, Goto, Labels
<1>5. CASE LogMessage(t)
  <2>2. LocalAt(t, "next", loc[t])
    BY <1>0, <1>5 DEF LocalAt, KindAt, LogMessage, At
  <2> QED
    BY <1>0, <1>a, <1>5, <2>2, SimpleStep DEF LogMessage, Goto, Labels
<1> QED
  BY <1>1, <1>2, <1>3, <1>4, <1>5 DEF HandleMulticast

(* What is known of a participant gives the task's copy of it. *)
LEMMA CopyFact ==
    ASSUME TypeOK, NEW i \in Id, id_to_participant[i].known
    PROVE  [id |-> i, sock_fd |-> id_to_participant[i].sock_fd,
            disconnect_time |-> id_to_participant[i].disconnect_time] \in Participant
<1>1. id_to_participant[i] \in Unknown \cup Known
  BY TypeParts DEF ManagerType
<1>2. id_to_participant[i] \in Known
  BY <1>1 DEF Unknown
<1> QED
  BY <1>2 DEF Known, Participant, Fd

(* Every step of a task keeps it in its handler and leaves the others alone. *)
LEMMA OwnStep ==
    ASSUME BaseInv, NEW t \in Tasks, TaskStep(t)
    PROVE  Frame(t) /\ Own(t)
<1>0. /\ TaskType /\ LocalAt(t, pc[t], loc[t]) /\ loc[t] \in Locals /\ pc[t] \in Labels
      /\ ManagerType /\ TypeOK
  BY TypeParts DEF BaseInv, LocalInv, TaskType
<1>a. loc = [loc EXCEPT ![t] = loc[t]]
  BY <1>0 DEF TaskType
<1>1. CASE \E p \in Active, kind \in Requests : Accept(t, p, kind)
  <2>1. PICK p \in Active, kind \in Requests : Accept(t, p, kind)
    BY <1>1
  <2>2. p \in Participants /\ kind \in RequestKinds /\ my_id[p] \in Id
    BY <1>0, SetsAssumption DEF ManagerType
  <2>3. [loc[t] EXCEPT !.kind = kind, !.by = p, !.id = my_id[p]] \in Locals
    BY <1>0, <2>2, LocalsFact
  <2>4. LocalAt(t, FirstLabel[kind], [loc[t] EXCEPT !.kind = kind, !.by = p, !.id = my_id[p]])
    BY <1>0, <2>2 DEF LocalAt, KindAt, FirstLabel, RequestKinds, Locals
  <2>5. FirstLabel[kind] \in Labels
    BY <2>2 DEF FirstLabel, Labels, RequestKinds
  <2>6. loc' = [loc EXCEPT ![t] = [loc[t] EXCEPT !.kind = kind, !.by = p, !.id = my_id[p]]]
    BY <1>0, <2>1 DEF Accept, TaskType
  <2> QED
    BY <1>0, <2>1, <2>3, <2>4, <2>5, <2>6, SimpleStep DEF Accept, Goto
<1>2. CASE AcceptNothing(t)
  BY <1>0, <1>2, DoneStep DEF AcceptNothing
<1>3. CASE DetermineParticipant(t)
  <2>1. loc[t].id \in Id
    BY <1>0 DEF Locals
  <2>2. PICK p \in Participant : loc' = [loc EXCEPT ![t].participant = p]
    BY <1>0, <1>3, <2>1, CopyFact, SetFacts DEF DetermineParticipant
  <2>3. [loc[t] EXCEPT !.participant = p] \in Locals
    BY <1>0, LocalsFact
  <2>4. /\ loc[t].kind = "reconnect" => LocalAt(t, "connect", [loc[t] EXCEPT !.participant = p])
        /\ loc[t].kind # "reconnect" =>
              LocalAt(t, "find_messenger", [loc[t] EXCEPT !.participant = p])
    BY <1>0, <1>3 DEF LocalAt, KindAt, DetermineParticipant, At, Locals
  <2> QED
    BY <1>0, <1>3, <2>2, <2>3, <2>4, SimpleStep DEF DetermineParticipant, Goto, Labels
<1>4. CASE ConnectToParticipant(t)
  <2>1. CASE pc' = [pc EXCEPT ![t] = "enter"] /\ loc' = [loc EXCEPT ![t].participant.sock_fd = t]
    <3>1. [loc[t] EXCEPT !.participant.sock_fd = t] \in Locals
      BY <1>0, SetFacts DEF Locals, Participant
    <3>2. LocalAt(t, "enter", [loc[t] EXCEPT !.participant.sock_fd = t])
      BY <1>0, <1>4 DEF LocalAt, KindAt, ConnectToParticipant, At, Locals, Participant
    <3>3. loc' = [loc EXCEPT ![t] = [loc[t] EXCEPT !.participant.sock_fd = t]]
      BY <1>0, <2>1 DEF TaskType
    <3> QED
      BY <1>0, <2>1, <3>1, <3>2, <3>3, SimpleStep DEF Labels
  <2>2. CASE pc' = [pc EXCEPT ![t] = "add"] /\ loc' = loc
    <3>1. LocalAt(t, "add", loc[t])
      BY <1>0, <1>4 DEF LocalAt, KindAt, ConnectToParticipant, At
    <3> QED
      BY <1>0, <1>a, <2>2, <3>1, SimpleStep DEF Labels
  <2> QED
    BY <1>4, <2>1, <2>2 DEF ConnectToParticipant, Goto, AfterFailedConnect
<1>5. CASE AddMessenger(t)
  <2>1. pc'[t] = IF loc[t].kind = "register" THEN "done" ELSE "clock"
    BY <1>0, <1>5 DEF TaskType, AddMessenger, Goto
  <2>2. loc[t].kind # "register" => LocalAt(t, "clock", loc[t])
    BY <1>0, <1>5 DEF LocalAt, KindAt, AddMessenger, At
  <2> QED
    BY <1>0, <1>5, <2>1, <2>2, AddFrame, EndedFact DEF Own, Labels
<1>6. CASE HandleRegister(t) \/ HandleLeave(t) \/ HandleReconnect(t) \/ HandleMulticast(t)
  BY <1>6, RegisterOwn, LeaveOwn, ReconnectOwn, MulticastOwn
<1> QED
  BY <1>1, <1>2, <1>3, <1>4, <1>5, <1>6 DEF TaskStep, Handle

(* The places and the locals of all the tasks. *)
LEMMA LocalStep ==
    ASSUME BaseInv, NEW t \in Tasks, TaskStep(t)
    PROVE  TaskType' /\ LocalInv'
<1>0. Frame(t) /\ Own(t) /\ TypeOK /\ TaskType /\ LocalInv
  BY OwnStep, TypeParts DEF BaseInv
<1>1. ASSUME NEW s \in Tasks
      PROVE  pc'[s] \in Labels /\ loc'[s] \in Locals /\ LocalAt(s, pc'[s], loc'[s])
  <2>1. CASE s = t
    BY <1>0, <2>1 DEF Own
  <2>2. CASE s # t
    <3>1. Kept(s)
      BY <1>0, <2>2 DEF Frame
    <3>2. LocalAt(s, pc[s], loc[s]) /\ pc[s] \in Labels
      BY <1>0 DEF LocalInv, TaskType
    <3>3. LocalAt(s, pc'[s], loc'[s])
      BY <1>0, <3>1, <3>2, KeptFields DEF LocalAt, Kept
    <3> QED
      BY <1>0, <3>1, <3>2, <3>3, KeptFields DEF Kept
  <2> QED
    BY <2>1, <2>2
<1>2. TaskType'
  BY <1>0, <1>1 DEF TaskType, Frame
<1>3. LocalInv'
  BY <1>1 DEF LocalInv
<1> QED
  BY <1>2, <1>3

-----------------------------------------------------------------------------
(* The managers, the messages and the connections. *)

LEMMA ManagerStep ==
    ASSUME BaseInv, NEW t \in Tasks, TaskStep(t)
    PROVE  ManagerType' /\ ManagerAgrees'
<1>0. /\ TaskType /\ LocalAt(t, pc[t], loc[t]) /\ loc[t] \in Locals /\ pc[t] \in Labels
      /\ ManagerType /\ MessageType /\ ManagerAgrees
  BY TypeParts DEF BaseInv, LocalInv, TaskType
<1>a. /\ loc[t].participant \in Participant
      /\ loc[t].participant.id \in Id /\ loc[t].participant.disconnect_time \in Time
      /\ loc[t].id \in Id
  BY <1>0 DEF Locals, Participant
<1>1. CASE IncrementID(t)
  <2>1. NextId(loc[t].id) \in Id
    BY <1>a, NumbersAssumption DEF NextId, Id
  <2> QED
    BY <1>0, <1>1, <2>1 DEF IncrementID, ManagerType, ManagerAgrees, manager
<1>2. CASE SendRegistrationResponse(t)
  BY <1>0, <1>a, <1>2 DEF SendRegistrationResponse, ManagerType, ManagerAgrees, manager
<1>3. CASE RegisterParticipant(t)
  <2>1. loc[t].participant.sock_fd = t
    BY <1>0, <1>3 DEF RegisterParticipant, At, LocalAt
  <2>2. [known |-> TRUE, connected |-> TRUE, sock_fd |-> loc[t].participant.sock_fd,
         disconnect_time |-> loc[t].participant.disconnect_time] \in Known
    BY <1>a, <2>1, SetFacts DEF Known
  <2>3. ManagerType'
    BY <1>0, <1>a, <1>3, <2>2 DEF RegisterParticipant, ManagerType
  <2>4. ManagerAgrees'
    BY <1>0, <1>a, <1>3 DEF RegisterParticipant, ManagerType, ManagerAgrees
  <2> QED
    BY <2>3, <2>4
<1>4. CASE ReconnectParticipant(t)
  <2>1. PICK i \in Id : i = loc[t].participant.id
    BY <1>a
  <2>2. CASE id_to_participant[i].known /\ id_to_participant' = [id_to_participant EXCEPT ![i].connected = TRUE]
             /\ connected_participants' = connected_participants \cup {i}
    <3>1. id_to_participant[i] \in Known
      BY <1>0, <2>2 DEF ManagerType, Unknown
    <3>2. [id_to_participant[i] EXCEPT !.connected = TRUE] \in Known
      BY <3>1 DEF Known
    <3>3. id_to_participant' = [id_to_participant EXCEPT ![i] = [id_to_participant[i] EXCEPT !.connected = TRUE]]
      BY <1>0, <2>2 DEF ManagerType
    <3>4. ManagerType'
      BY <1>0, <1>4, <2>2, <3>2, <3>3 DEF ManagerType, ReconnectParticipant
    <3>5. ManagerAgrees'
      BY <1>0, <2>2, <3>1, <3>3 DEF ManagerType, ManagerAgrees, Known
    <3> QED
      BY <3>4, <3>5
  <2>3. CASE UNCHANGED manager
    BY <1>0, <1>4, <2>3 DEF ManagerType, ReconnectParticipant, ManagerAgrees, manager
  <2> QED
    BY <1>4, <2>1, <2>2, <2>3 DEF ReconnectParticipant
<1>5. CASE DeregisterParticipant(t)
  <2>3. ManagerType'
    BY <1>0, <1>a, <1>5, SetFacts DEF DeregisterParticipant, ManagerType
  <2>4. ManagerAgrees'
    BY <1>0, <1>a, <1>5 DEF DeregisterParticipant, ManagerType, ManagerAgrees, Absent
  <2> QED
    BY <2>3, <2>4
<1>6. CASE DisconnectParticipant(t)
  <2>1. PICK i \in Id : i = loc[t].participant.id
    BY <1>a
  <2>2. CASE i \in connected_participants /\ ReadClock /\ id_to_participant' = MarkDisconnected(i)
             /\ connected_participants' = connected_participants \ {i}
    <3>1. id_to_participant[i] \in Known /\ now' \in Time
      BY <1>0, <2>2 DEF ManagerType, ManagerAgrees, Unknown, ReadClock
    <3>2. [id_to_participant[i] EXCEPT !.connected = FALSE, !.disconnect_time = now'] \in Known
      BY <3>1 DEF Known
    <3>3. id_to_participant' = [id_to_participant EXCEPT ![i] =
             [id_to_participant[i] EXCEPT !.connected = FALSE, !.disconnect_time = now']]
      BY <1>0, <2>2 DEF ManagerType, MarkDisconnected
    <3>4. ManagerType'
      BY <1>0, <1>6, <2>2, <3>2, <3>3 DEF ManagerType, DisconnectParticipant
    <3>5. ManagerAgrees'
      BY <1>0, <2>2, <3>1, <3>3 DEF ManagerType, ManagerAgrees, Known
    <3> QED
      BY <3>4, <3>5
  <2>3. CASE UNCHANGED manager
    BY <1>0, <1>6, <2>3 DEF ManagerType, DisconnectParticipant, ManagerAgrees, manager
  <2> QED
    BY <1>6, <2>1, <2>2, <2>3 DEF DisconnectParticipant
<1>7. CASE UNCHANGED <<id_, manager, my_id>>
  BY <1>0, <1>7 DEF ManagerType, ManagerAgrees, manager
<1> QED
  BY <1>1, <1>2, <1>3, <1>4, <1>5, <1>6, <1>7
     DEF TaskStep, Accept, AcceptNothing, Handle, HandleRegister, HandleLeave, HandleReconnect,
         HandleMulticast, GenerateID, CheckID, ReturnID, GetMessengers, DetermineMessenger,
         CloseSocket, DeleteMessenger, ReconnectionTime, FindMissedMessages, SendMissedMessages,
         Push, Pop, NextMessenger, SendMessage, LogMessage, DetermineParticipant,
         ConnectToParticipant, AddMessenger

(* The messengers keep their types. *)
LEMMA MessengerStep ==
    ASSUME BaseInv, NEW t \in Tasks, TaskStep(t)
    PROVE  MessengerType'
<1>0. /\ TaskType /\ loc[t].participant \in Participant /\ MessengerType /\ t \in Makers
  BY TypeParts, SetFacts DEF BaseInv, TaskType, Locals
<1>1. CASE AddMessenger(t)
  BY <1>0, <1>1 DEF AddMessenger, MessengerType
<1>2. CASE DeleteMessenger(t)
  BY <1>0, <1>2 DEF DeleteMessenger, MessengerType
<1>3. CASE UNCHANGED mgr
  BY <1>0, <1>3 DEF MessengerType, mgr
<1> QED
  BY <1>1, <1>2, <1>3
     DEF TaskStep, Accept, AcceptNothing, Handle, HandleRegister, HandleLeave, HandleReconnect,
         HandleMulticast, GenerateID, IncrementID, CheckID, ReturnID, SendRegistrationResponse,
         RegisterParticipant, GetMessengers, DetermineMessenger, DeregisterParticipant,
         CloseSocket, DisconnectParticipant, ReconnectParticipant, ReconnectionTime,
         FindMissedMessages, SendMissedMessages, Push, Pop, NextMessenger, SendMessage, LogMessage,
         DetermineParticipant, ConnectToParticipant

(* The clock stays within its bound. *)
LEMMA ClockStep ==
    ASSUME TypeOK, ReadClock
    PROVE  now' \in Time
BY DEF ReadClock

(* The queue and the log keep their types. *)
LEMMA MessageStep ==
    ASSUME BaseInv, NEW t \in Tasks, TaskStep(t)
    PROVE  MessageType'
<1>0. TaskType /\ LocalAt(t, pc[t], loc[t]) /\ MessageType /\ TypeOK
  BY TypeParts DEF BaseInv, LocalInv, TaskType
<1>1. CASE Push(t)
  BY <1>0, <1>1 DEF Push, QueueWith, MessageType
<1>2. CASE Pop(t)
  BY <1>0, <1>2 DEF Pop, QueueWithoutFirst, MessageType
<1>3. CASE LogMessage(t)
  BY <1>0, <1>3, ClockStep DEF LogMessage, MessageType
<1>4. CASE UNCHANGED <<msg_queue, coordinator_messages>> /\ (ReadClock \/ UNCHANGED now)
  BY <1>0, <1>4, ClockStep DEF MessageType
<1> QED
  BY <1>1, <1>2, <1>3, <1>4
     DEF TaskStep, Accept, AcceptNothing, Handle, HandleRegister, HandleLeave, HandleReconnect,
         HandleMulticast, GenerateID, IncrementID, CheckID, ReturnID, SendRegistrationResponse,
         RegisterParticipant, GetMessengers, DetermineMessenger, DeregisterParticipant,
         CloseSocket, DisconnectParticipant, DeleteMessenger, ReconnectParticipant, ReconnectionTime,
         FindMissedMessages, SendMissedMessages, NextMessenger, SendMessage,
         DetermineParticipant, ConnectToParticipant, AddMessenger

(* What send() does to a connection. *)
LEMMA SendStep ==
    ASSUME NetType, NEW fd, NEW m \in Tasks, Send(fd, m)
    PROVE  NetType' /\ killed' \in BOOLEAN
<1>1. open' = open /\ open \subseteq Makers
  BY DEF Send, NetType
<1>2. fd \in open => fd \in Makers
  BY <1>1
<1>3. sent' \in [Makers -> Seq(Tasks)]
  <2>1. CASE fd \in open /\ peer[fd] = "open"
    <3>1. sent' = [sent EXCEPT ![fd] = Append(sent[fd], m)] /\ fd \in Makers
      BY <2>1, <1>2 DEF Send, NetType
    <3> QED
      BY <3>1 DEF NetType
  <2>2. CASE ~(fd \in open /\ peer[fd] = "open")
    BY <2>2 DEF Send, NetType
  <2> QED
    BY <2>1, <2>2
<1>4. peer' \in [Makers -> {"none", "open", "closed", "reset"}]
  BY <1>2 DEF Send, NetType
<1>5. killed' \in BOOLEAN
  BY Zenon DEF Send
<1> QED
  BY <1>1, <1>3, <1>4, <1>5 DEF NetType

(* The connections keep their types. *)
LEMMA NetStep ==
    ASSUME BaseInv, NEW t \in Tasks, TaskStep(t)
    PROVE  NetType' /\ killed' \in BOOLEAN
<1>0. /\ TaskType /\ LocalAt(t, pc[t], loc[t]) /\ NetType /\ t \in Makers /\ killed \in BOOLEAN
      /\ loc[t] \in Locals
  BY TypeParts, SetFacts DEF BaseInv, LocalInv, TaskType
<1>1. CASE SendMissedMessages(t)
  <2>1. CASE UNCHANGED <<net, killed>>
    BY <1>0, <2>1 DEF NetType, net
  <2>2. CASE \E m \in loc[t].missed : Send(messenger[t].sock_fd, m)
    BY <1>0, <2>2, SendStep DEF Locals
  <2> QED
    BY <1>1, <2>1, <2>2 DEF SendMissedMessages
<1>2. CASE SendMessage(t)
  <2>1. loc[t].msg \in Tasks
    BY <1>0, <1>2 DEF SendMessage, At, LocalAt
  <2> QED
    BY <1>0, <1>2, <2>1, SendStep DEF SendMessage
<1>3. CASE ConnectToParticipant(t)
  BY <1>0, <1>3 DEF ConnectToParticipant, NetType
<1>4. CASE CloseSocket(t)
  BY <1>0, <1>4 DEF CloseSocket, NetType
<1>5. CASE DeleteMessenger(t)
  <2>1. killed' \in BOOLEAN
    <3>1. (\E s \in Iterators : AtErased(s, Deleted(t))) \in BOOLEAN
      BY Zenon
    <3>2. killed' = FALSE \/ killed' = (\E s \in Iterators : AtErased(s, Deleted(t)))
      BY <1>5, Zenon DEF DeleteMessenger
    <3> QED
      BY <3>1, <3>2, Zenon
  <2> QED
    BY <1>0, <1>5, <2>1 DEF DeleteMessenger, NetType, net
<1>6. CASE UNCHANGED <<net, killed>>
  BY <1>0, <1>6 DEF NetType, net
<1> QED
  BY <1>1, <1>2, <1>3, <1>4, <1>5, <1>6
     DEF TaskStep, Accept, AcceptNothing, Handle, HandleRegister, HandleLeave, HandleReconnect,
         HandleMulticast, GenerateID, IncrementID, CheckID, ReturnID, SendRegistrationResponse,
         RegisterParticipant, GetMessengers, DetermineMessenger, DeregisterParticipant,
         DisconnectParticipant, ReconnectParticipant, ReconnectionTime,
         FindMissedMessages, Push, Pop, NextMessenger, LogMessage, DetermineParticipant, AddMessenger

-----------------------------------------------------------------------------
(* The members, at the beginning: every number up to their count is the id  *)
(* of one of them.                                                          *)
LEMMA MembersNumbered ==
    ASSUME NEW ids \in [Members -> 1..Cardinality(Members)],
           \A p, q \in Members : ids[p] = ids[q] => p = q
    PROVE  \A i \in 1..Cardinality(Members) : \E p \in Members : ids[p] = i
<1>1. IsFiniteSet(Members) /\ Cardinality(Members) \in Nat
  BY SetsAssumption, FS_Subset, FS_CardinalityType
<1>2. IsFiniteSet(1..Cardinality(Members)) /\ Cardinality(1..Cardinality(Members)) = Cardinality(Members)
  BY <1>1, FS_Interval
<1>3. ids \in Injection(Members, 1..Cardinality(Members))
  BY DEF Injection, IsInjective
<1>4. ids \in Surjection(Members, 1..Cardinality(Members))
  BY <1>1, <1>2, <1>3, FS_Surjection, FS_Injection
<1> QED
  BY <1>4 DEF Surjection

(* The first state, where the ids of the members are given out. *)
LEMMA BaseInit ==
    ASSUME Init PROVE BaseInv
<1>0. /\ Cardinality(Members) \in Nat /\ Cardinality(Tasks) \in Nat
      /\ Members \subseteq Makers /\ Members \subseteq Participants
  BY SetsAssumption, FS_Subset, FS_CardinalityType DEF Makers
<1>1. PICK ids \in [Members -> 1..Cardinality(Members)] :
          /\ \A p, q \in Members : ids[p] = ids[q] => p = q
          /\ my_id = [p \in Participants |-> IF p \in Members THEN ids[p] ELSE 0]
          /\ id_to_participant = [i \in Id |->
                IF \E p \in Members : ids[p] = i
                THEN [known |-> TRUE, connected |-> TRUE, disconnect_time |-> StartTime,
                      sock_fd |-> CHOOSE p \in Members : ids[p] = i]
                ELSE Absent]
          /\ messenger = [x \in Makers |->
                IF x \in Members
                THEN [id |-> ids[x], sock_fd |-> x, disconnect_time |-> StartTime]
                ELSE NoParticipant]
  BY DEF Init
<1>2. Cardinality(Members) \in Id /\ 1..Cardinality(Members) \subseteq Id
  BY <1>0, NumbersAssumption DEF Id
<1>3. ManagerType
  <2>1. ASSUME NEW i \in Id
        PROVE  id_to_participant[i] \in Unknown \cup Known
    <3>1. CASE \E p \in Members : ids[p] = i
      <4>1. (CHOOSE p \in Members : ids[p] = i) \in Makers
        BY <3>1, <1>0
      <4> QED
        BY <1>1, <3>1, <4>1, SetFacts DEF Known, StartTime
    <3>2. CASE ~\E p \in Members : ids[p] = i
      BY <1>1, <3>2, SetFacts
    <3> QED
      BY <3>1, <3>2
  <2>2. id_to_participant \in [Id -> Unknown \cup Known]
    BY <1>1, <2>1
  <2>3. my_id \in [Participants -> Id]
    BY <1>1, <1>2, SetFacts
  <2> QED
    BY <1>2, <2>2, <2>3 DEF Init, ManagerType
<1>4. MessengerType
  <2>1. ASSUME NEW x \in Members
        PROVE  [id |-> ids[x], sock_fd |-> x, disconnect_time |-> StartTime] \in Participant
    BY <1>0, <1>2, SetFacts DEF Participant, Fd, StartTime
  <2> QED
    BY <1>0, <1>1, <2>1, SetFacts DEF Init, MessengerType
<1>5. MessageType
  BY SetFacts, NumbersAssumption DEF Init, MessageType, StartTime, Time
<1>6. NetType /\ killed \in BOOLEAN /\ overtaken \subseteq Id
  <2>1. killed \in BOOLEAN /\ overtaken \subseteq Id
    BY DEF Init
  <2>2. <<>> \in Seq(Tasks)
    OBVIOUS
  <2>3. sent \in [Makers -> Seq(Tasks)]
    BY <2>2 DEF Init
  <2> QED
    BY <1>0, <2>1, <2>3 DEF Init, NetType
<1>7. TaskType
  BY SetFacts DEF Init, TaskType, Labels
<1>8. ManagerAgrees
  <2>1. ASSUME NEW i \in Id
        PROVE  i \in connected_participants <=> id_to_participant[i].connected
    <3>1. i \in connected_participants <=> \E p \in Members : ids[p] = i
      <4>1. \A j \in 1..Cardinality(Members) : \E p \in Members : ids[p] = j
        BY <1>1, MembersNumbered
      <4>2. connected_participants = 1..Cardinality(Members)
        BY DEF Init
      <4> QED
        BY <1>1, <4>1, <4>2
    <3>2. id_to_participant[i].connected <=> \E p \in Members : ids[p] = i
      BY <1>1 DEF Absent
    <3> QED
      BY <3>1, <3>2
  <2> QED
    BY <2>1 DEF ManagerAgrees
<1>9. LocalInv
  BY DEF Init, LocalInv, LocalAt, KindAt
<1> QED
  BY <1>3, <1>4, <1>5, <1>6, <1>7, <1>8, <1>9, TypeParts DEF BaseInv

(* Only the search for a participant adds to the ids that were overtaken. *)
LEMMA OvertakenStep ==
    ASSUME BaseInv, NEW t \in Tasks, TaskStep(t)
    PROVE  overtaken \subseteq overtaken' /\ overtaken' \subseteq Id
<1>1. overtaken \subseteq Id /\ loc[t].id \in Id
  BY DEF BaseInv, TypeOK
<1>2. CASE DetermineParticipant(t)
  BY <1>1, <1>2 DEF DetermineParticipant
<1>3. CASE ~DetermineParticipant(t)
  BY <1>1, <1>3 DEF TaskStep, Handle, Accept, AcceptNothing, AddMessenger, ConnectToParticipant,
     HandleRegister, GenerateID, IncrementID, CheckID, ReturnID, SendRegistrationResponse,
     RegisterParticipant, HandleLeave, GetMessengers, DetermineMessenger, DeregisterParticipant,
     CloseSocket, DisconnectParticipant, DeleteMessenger, HandleReconnect, ReconnectParticipant,
     ReconnectionTime, FindMissedMessages, SendMissedMessages, HandleMulticast, Push, Pop,
     NextMessenger, SendMessage, LogMessage
<1> QED
  BY <1>2, <1>3

(* Every step, those of the peers included. *)
LEMMA BaseNext ==
    ASSUME BaseInv, [Next]_vars
    PROVE  BaseInv'
<1>1. CASE \E t \in Tasks : TaskStep(t)
  <2>1. PICK t \in Tasks : TaskStep(t)
    BY <1>1
  <2>2. /\ ManagerType' /\ MessengerType' /\ MessageType' /\ NetType' /\ TaskType' /\ killed' \in BOOLEAN
        /\ overtaken' \subseteq Id
    BY <2>1, ManagerStep, MessengerStep, MessageStep, NetStep, LocalStep, OvertakenStep
  <2>3. TypeOK'
    BY <2>2 DEF TypeOK, ManagerType, MessengerType, MessageType, NetType, TaskType, Labels, Locals
  <2> QED
    BY <2>1, <2>3, ManagerStep, LocalStep DEF BaseInv
<1>2. CASE \E x \in Makers : PeerCloses(x)
  <2>1. peer' \in [Makers -> {"none", "open", "closed", "reset"}]
    BY <1>2 DEF BaseInv, TypeOK, PeerCloses
  <2>2. TypeOK'
    BY <1>2, <2>1 DEF BaseInv, TypeOK, PeerCloses, manager, mgr
  <2>3. ManagerAgrees' /\ LocalInv'
    BY <1>2 DEF BaseInv, PeerCloses, ManagerAgrees, LocalInv, manager
  <2> QED
    BY <2>2, <2>3 DEF BaseInv
<1>3. CASE UNCHANGED vars
  <2>1. TypeOK'
    BY <1>3 DEF BaseInv, TypeOK, vars, manager, mgr, net
  <2>2. ManagerAgrees' /\ LocalInv'
    BY <1>3 DEF BaseInv, ManagerAgrees, LocalInv, vars, manager
  <2> QED
    BY <2>1, <2>2 DEF BaseInv
<1> QED
  BY <1>1, <1>2, <1>3 DEF Next, TaskStep

(* The types and the places of the tasks carry the agreement of the records. *)
THEOREM BaseInvHolds == Spec => []BaseInv
<1>1. Init => BaseInv
  BY BaseInit
<1>2. BaseInv /\ [Next]_vars => BaseInv'
  BY BaseNext
<1> QED
  BY <1>1, <1>2, PTL DEF Spec

(* Every member keeps to its type, for any number of requests of any kind in *)
(* any order: in particular a participant that is known has a connection     *)
(* (registrar.cpp:118 and 131).                                              *)
THEOREM TypeCorrect == Spec => []TypeOK
<1>1. BaseInv => TypeOK
  BY DEF BaseInv
<1> QED
  BY <1>1, BaseInvHolds, PTL

(* The flag of each participant and the set of those that are connected      *)
(* agree, however the four handlers that change them interleave              *)
(* (participant_manager.cpp:11-75).                                          *)
THEOREM ManagerAgreesHolds == Spec => []ManagerAgrees
<1>1. BaseInv => ManagerAgrees
  BY DEF BaseInv
<1> QED
  BY <1>1, BaseInvHolds, PTL

-----------------------------------------------------------------------------
(* Messengers. *)

Past == {"clock", "missed", "send_missed", "done"}
Leaving == {"find_messenger", "copy", "leave", "close", "delete"}

(* Nobody has come across the messenger that a task is still to add. *)
NewInv ==
    \A u \in Tasks : pc[u] \notin Past =>
        u \notin messengers /\ \A s \in Tasks : u \notin loc[s].todo /\ loc[s].messenger # u

(* The messenger that was found is one of the participant that leaves. *)
FoundInv ==
    \A t \in Tasks : pc[t] \in {"leave", "close", "delete"} /\ loc[t].messenger # NoFd =>
        messenger[loc[t].messenger].id = loc[t].id

(* A task that leaves has found its participant, or has overtaken it. *)
SoughtInv ==
    \A t \in Tasks : pc[t] \in {"find_messenger", "copy", "leave"} =>
        loc[t].participant.id = loc[t].id \/ loc[t].id \in overtaken

(* A messenger that no task is about to delete. *)
Sure(x) == \A s \in Tasks : pc[s] \in {"close", "delete"} => loc[s].messenger # x

Served(i) ==
    \/ \E x \in messengers : messenger[x].id = i /\ Sure(x)
    \/ \E t \in Tasks : pc[t] = "add" /\ loc[t].participant.id = i

ServedInv == \A i \in connected_participants \ overtaken : Served(i)

MessengerInv == NewInv /\ FoundInv /\ SoughtInv /\ ServedInv

(* The steps, by what they do to the messengers. *)
Elsewhere(t) ==
    /\ UNCHANGED <<mgr, connected_participants>>
    /\ pc[t] \notin {"add", "leave", "close", "delete"} /\ pc'[t] \notin Leaving
MessengerMove(t) ==
    \/ Elsewhere(t) \/ AddMessenger(t) \/ DeleteMessenger(t) \/ DetermineParticipant(t)
    \/ GetMessengers(t) \/ DetermineMessenger(t) \/ DeregisterParticipant(t)
    \/ CloseSocket(t) \/ DisconnectParticipant(t)
    \/ RegisterParticipant(t) \/ ReconnectParticipant(t)

(* Where the walk of a task takes its messengers from, and that there is no  *)
(* way back once its own has been added.                                     *)
Walks(t) ==
    /\ loc'[t].todo \subseteq loc[t].todo \cup messengers
    /\ loc'[t].messenger \in {NoFd, loc[t].messenger} \cup loc[t].todo
    /\ pc[t] \in Past => pc'[t] \in Past

(* A task that has ended walks over nothing. *)
LEMMA EndWalks ==
    ASSUME BaseInv, NEW t \in Tasks, pc'[t] = "done", loc'[t] = Ended(t)
    PROVE  Walks(t)
<1>1. TypeOK
  BY DEF BaseInv
<1> QED
  BY <1>1, EndedFact DEF Walks, Past

(* A step that does not touch the walk. *)
LEMMA SameWalks ==
    ASSUME BaseInv, NEW t \in Tasks, loc'[t].todo = loc[t].todo,
           loc'[t].messenger = loc[t].messenger, pc[t] \notin Past \/ pc'[t] \in Past
    PROVE  Walks(t)
BY DEF Walks

(* A walk only takes messengers from the set. *)
LEMMA WalkStep ==
    ASSUME BaseInv, NEW t \in Tasks, TaskStep(t)
    PROVE  Walks(t)
<1>0. TaskType /\ loc[t] \in Locals /\ TypeOK /\ MessengerType
  BY TypeParts DEF BaseInv, TaskType
<1>1. CASE \E p \in Active, kind \in Requests : Accept(t, p, kind)
  <2>1. PICK p \in Active, kind \in Requests : Accept(t, p, kind)
    BY <1>1
  <2>2. loc'[t].todo = loc[t].todo /\ loc'[t].messenger = loc[t].messenger /\ pc[t] = "idle"
    BY <1>0, <2>1 DEF Accept, At, TaskType, Locals
  <2> QED
    BY <2>2, SameWalks DEF Past
<1>2. CASE AcceptNothing(t)
  BY <1>0, <1>2, DoneStep, EndWalks DEF AcceptNothing
<1>3. CASE HandleRegister(t) \/ DetermineParticipant(t) \/ ConnectToParticipant(t)
  <2>1. loc'[t].todo = loc[t].todo /\ loc'[t].messenger = loc[t].messenger
    BY <1>0, <1>3 DEF HandleRegister, GenerateID, IncrementID, CheckID, ReturnID,
          SendRegistrationResponse, RegisterParticipant, DetermineParticipant,
          ConnectToParticipant, TaskType, Locals
  <2>2. pc[t] \notin Past
    BY <1>3 DEF HandleRegister, GenerateID, IncrementID, CheckID, ReturnID,
          SendRegistrationResponse, RegisterParticipant, DetermineParticipant,
          ConnectToParticipant, At, Past
  <2> QED
    BY <2>1, <2>2, SameWalks
<1>4. CASE AddMessenger(t)
  <2>1. loc'[t] = IF loc[t].kind = "register" THEN Ended(t) ELSE loc[t]
    BY <1>0, <1>4, AddFrame
  <2>2. pc'[t] = IF loc[t].kind = "register" THEN "done" ELSE "clock"
    BY <1>0, <1>4 DEF TaskType, AddMessenger, Goto
  <2> QED
    BY <2>1, <2>2, EndWalks, SameWalks DEF Past
<1>5. CASE DeleteMessenger(t)
  BY <1>0, <1>5, DeleteFrame, EndWalks DEF TaskType, DeleteMessenger, Goto
<1>6. CASE DeregisterParticipant(t) \/ CloseSocket(t) \/ DisconnectParticipant(t)
  BY <1>6, SameWalks DEF DeregisterParticipant, CloseSocket, DisconnectParticipant, At, Past
<1>7. CASE GetMessengers(t)
  BY <1>0, <1>7 DEF GetMessengers, At, TaskType, Locals, Walks, Past
<1>8. CASE DetermineMessenger(t)
  <2>0. PICK x \in loc[t].todo \cup {NoFd} : loc' = [loc EXCEPT ![t].messenger = x, ![t].todo = {}]
    BY <1>8 DEF DetermineMessenger
  <2>1. loc'[t].messenger = x /\ loc'[t].todo = {}
    BY <1>0, <2>0 DEF TaskType, Locals
  <2> QED
    BY <1>8, <2>1 DEF DetermineMessenger, At, Walks, Past
<1>9. CASE ReconnectParticipant(t) \/ ReconnectionTime(t) \/ FindMissedMessages(t)
  <2>1. loc'[t].todo = loc[t].todo /\ loc'[t].messenger = loc[t].messenger
    BY <1>0, <1>9 DEF ReconnectParticipant, ReconnectionTime, FindMissedMessages, TaskType, Locals
  <2>2. pc[t] \notin Past \/ pc'[t] \in Past
    BY <1>0, <1>9 DEF ReconnectParticipant, ReconnectionTime, FindMissedMessages, TaskType, At, Goto, Past
  <2> QED
    BY <2>1, <2>2, SameWalks
<1>10. CASE SendMissedMessages(t)
  <2>1. CASE Done(t)
    BY <1>0, <2>1, DoneStep, EndWalks
  <2>2. CASE \E m \in loc[t].missed : loc' = [loc EXCEPT ![t].missed = @ \ {m}] /\ UNCHANGED pc
    <3>1. loc'[t].todo = loc[t].todo /\ loc'[t].messenger = loc[t].messenger /\ pc'[t] = pc[t]
      BY <1>0, <2>2 DEF TaskType, Locals
    <3> QED
      BY <3>1, SameWalks
  <2> QED
    BY <1>10, <2>1, <2>2 DEF SendMissedMessages
<1>11. CASE Push(t) \/ SendMessage(t) \/ LogMessage(t)
  BY <1>11, SameWalks DEF Push, SendMessage, LogMessage, At, Past
<1>12. CASE Pop(t)
  <2>1. loc'[t].todo = messengers /\ loc'[t].messenger = loc[t].messenger
    BY <1>0, <1>12 DEF TaskType, Locals, Pop
  <2> QED
    BY <1>12, <2>1 DEF Pop, At, Walks, Past
<1>13. CASE NextMessenger(t)
  <2>1. CASE Done(t)
    BY <1>0, <2>1, DoneStep, EndWalks
  <2>2. CASE \E x \in loc[t].todo :
             /\ loc' = [loc EXCEPT ![t].todo = @ \ {x}, ![t].messenger = x]
             /\ Goto(t, IF messenger[x].id \in connected_participants THEN "send" ELSE "next")
    <3>1. loc'[t].todo \subseteq loc[t].todo /\ loc'[t].messenger \in loc[t].todo
      BY <1>0, <2>2 DEF TaskType, Locals
    <3> QED
      BY <1>13, <3>1 DEF Walks, NextMessenger, At, Past
  <2> QED
    BY <1>13, <2>1, <2>2 DEF NextMessenger
<1> QED
  BY <1>1, <1>2, <1>3, <1>4, <1>5, <1>6, <1>7, <1>8, <1>9, <1>10, <1>11, <1>12, <1>13
     DEF TaskStep, Handle, HandleLeave, HandleReconnect, HandleMulticast

(* Every step is one of them. *)
LEMMA MessengerMoves ==
    ASSUME BaseInv, NEW t \in Tasks, TaskStep(t)
    PROVE  MessengerMove(t)
<1>0. TaskType /\ TypeOK /\ LocalAt(t, pc[t], loc[t])
  BY TypeParts DEF BaseInv, LocalInv
<1>1. CASE \E p \in Active, kind \in Requests : Accept(t, p, kind)
  <2>1. PICK p \in Active, kind \in Requests : Accept(t, p, kind)
    BY <1>1
  <2>2. FirstLabel[kind] \notin Leaving
    BY SetsAssumption DEF FirstLabel, Leaving, RequestKinds
  <2> QED
    BY <1>0, <2>1, <2>2 DEF Accept, At, Goto, TaskType, manager, MessengerMove, Elsewhere
<1>2. CASE AcceptNothing(t)
  BY <1>0, <1>2 DEF AcceptNothing, At, Done, Goto, TaskType, manager, MessengerMove, Elsewhere, Leaving
<1>3. CASE GenerateID(t) \/ IncrementID(t) \/ CheckID(t) \/ ReturnID(t) \/ SendRegistrationResponse(t)
  <2>1. pc[t] \notin {"add", "leave", "close", "delete"} /\ pc'[t] \notin Leaving
    BY <1>0, <1>3 DEF GenerateID, IncrementID, CheckID, ReturnID, SendRegistrationResponse,
          At, Goto, TaskType, Leaving
  <2>2. UNCHANGED <<manager, mgr>>
    BY <1>3 DEF GenerateID, IncrementID, CheckID, ReturnID, SendRegistrationResponse
  <2> QED
    BY <2>1, <2>2 DEF MessengerMove, Elsewhere, manager
<1>4. CASE ConnectToParticipant(t) \/ ReconnectionTime(t) \/ FindMissedMessages(t) \/ SendMissedMessages(t)
  <2>1. pc[t] \notin {"add", "leave", "close", "delete"} /\ pc'[t] \notin Leaving
    BY <1>0, <1>4 DEF ConnectToParticipant, AfterFailedConnect, ReconnectionTime, FindMissedMessages,
          SendMissedMessages, At, Goto, Done, TaskType, Leaving
  <2>2. UNCHANGED <<manager, mgr>>
    BY <1>4 DEF ConnectToParticipant, ReconnectionTime, FindMissedMessages, SendMissedMessages
  <2> QED
    BY <2>1, <2>2 DEF MessengerMove, Elsewhere, manager
<1>5. CASE HandleMulticast(t)
  <2>1. pc[t] \notin {"add", "leave", "close", "delete"} /\ pc'[t] \notin Leaving
    BY <1>0, <1>5 DEF HandleMulticast, Push, Pop, NextMessenger, SendMessage, LogMessage,
          At, Goto, Done, TaskType, Leaving
  <2>2. UNCHANGED <<manager, mgr>>
    BY <1>5 DEF HandleMulticast, Push, Pop, NextMessenger, SendMessage, LogMessage
  <2> QED
    BY <2>1, <2>2 DEF MessengerMove, Elsewhere, manager
<1> QED
  BY <1>1, <1>2, <1>3, <1>4, <1>5
     DEF TaskStep, Handle, HandleRegister, HandleLeave, HandleReconnect, MessengerMove

(* Only the two steps named for it change the messengers. *)
LEMMA MessengersStep ==
    ASSUME BaseInv, NEW t \in Tasks, TaskStep(t)
    PROVE  /\ messengers' \subseteq messengers \cup {t}
           /\ \A x \in Makers : x # t => messenger'[x] = messenger[x]
           /\ ~AddMessenger(t) => messengers' \subseteq messengers /\ messenger' = messenger
           /\ AddMessenger(t) => pc[t] = "add" /\ pc'[t] \in Past
<1>0. TaskType /\ MessengerType /\ MessengerMove(t)
  BY TypeParts, MessengerMoves DEF BaseInv
<1>1. CASE AddMessenger(t)
  <2>1. pc'[t] = (IF loc[t].kind = "register" THEN "done" ELSE "clock") /\ pc[t] = "add"
    BY <1>0, <1>1 DEF TaskType, AddMessenger, Goto, At
  <2> QED
    BY <1>0, <1>1, <2>1 DEF AddMessenger, MessengerType, Past
<1>2. CASE ~AddMessenger(t)
  <2>1. messengers' \subseteq messengers /\ messenger' = messenger
    BY <1>0, <1>2 DEF MessengerMove, Elsewhere, mgr, DeleteMessenger, DetermineParticipant,
        GetMessengers, DetermineMessenger, DeregisterParticipant, CloseSocket,
        DisconnectParticipant, RegisterParticipant, ReconnectParticipant
  <2> QED
    BY <1>2, <2>1
<1> QED
  BY <1>1, <1>2

(* A messenger is unknown to all until its task adds it. *)
LEMMA NewStep ==
    ASSUME BaseInv, NewInv, NEW t \in Tasks, TaskStep(t)
    PROVE  NewInv'
<1>0. TypeOK /\ Frame(t) /\ Walks(t)
  BY OwnStep, WalkStep DEF BaseInv
<1>1. ASSUME NEW u \in Tasks, pc'[u] \notin Past
      PROVE  u \notin messengers' /\ \A s \in Tasks : u \notin loc'[s].todo /\ loc'[s].messenger # u
  <2>1. pc[u] \notin Past
    BY <1>0, <1>1 DEF Frame, Kept, Walks
  <2>2. u \notin messengers /\ \A s \in Tasks : u \notin loc[s].todo /\ loc[s].messenger # u
    BY <2>1 DEF NewInv
  <2>3. u \notin messengers'
    BY <1>1, <2>2, MessengersStep
  <2>4. ASSUME NEW s \in Tasks
        PROVE  u \notin loc'[s].todo /\ loc'[s].messenger # u
    <3>1. CASE s = t
      BY <1>0, <2>2, <3>1, SetFacts DEF Walks
    <3>2. CASE s # t
      <4>1. loc'[s].todo \subseteq loc[s].todo \cup messengers' /\ loc'[s].messenger = loc[s].messenger
        BY <1>0, <3>2, KeptFields DEF Frame
      <4> QED
        BY <2>2, <2>3, <4>1
    <3> QED
      BY <3>1, <3>2
  <2> QED
    BY <2>3, <2>4
<1> QED
  BY <1>1 DEF NewInv

(* The messenger that was found keeps its participant. *)
LEMMA FoundStep ==
    ASSUME BaseInv, NewInv, FoundInv, NEW t \in Tasks, TaskStep(t)
    PROVE  FoundInv'
<1>0. /\ TypeOK /\ Frame(t) /\ TaskType /\ MessengerMove(t) /\ loc[t] \in Locals
      /\ MessengerType
  BY TypeParts, OwnStep, MessengerMoves DEF BaseInv, TaskType
<1>1. ASSUME NEW s \in Tasks, pc'[s] \in {"leave", "close", "delete"}, loc'[s].messenger # NoFd
      PROVE  messenger'[loc'[s].messenger].id = loc'[s].id
  <2>1. CASE s # t
    <3>1. pc'[s] = pc[s] /\ loc'[s].messenger = loc[s].messenger /\ loc'[s].id = loc[s].id
      BY <1>0, <2>1, KeptFields DEF Frame, Kept
    <3>2. loc[s].messenger \in Makers
      BY <1>0, <1>1, <3>1 DEF TaskType, Locals, Fd
    <3>3. messenger'[loc[s].messenger] = messenger[loc[s].messenger]
      <4>1. CASE AddMessenger(t)
        <5>1. loc[s].messenger # t
          BY <4>1, MessengersStep DEF NewInv, Past
        <5> QED
          BY <3>2, <5>1, MessengersStep
      <4>2. CASE ~AddMessenger(t)
        BY <4>2, MessengersStep
      <4> QED
        BY <4>1, <4>2
    <3> QED
      BY <1>1, <3>1, <3>3 DEF FoundInv
  <2>2. CASE s = t
    <3>1. CASE DetermineMessenger(t)
      <4>1. PICK x : /\ x = NoFd \/ messenger[x].id = loc[t].id
                     /\ loc' = [loc EXCEPT ![t].messenger = x, ![t].todo = {}]
        BY <3>1 DEF DetermineMessenger
      <4>2. loc'[t].messenger = x /\ loc'[t].id = loc[t].id
        BY <1>0, <4>1 DEF TaskType, Locals
      <4> QED
        BY <1>1, <2>2, <3>1, <4>1, <4>2 DEF DetermineMessenger, mgr
    <3>2. CASE DeregisterParticipant(t) \/ CloseSocket(t) \/ DisconnectParticipant(t)
      <4>1. pc[t] \in {"leave", "close", "delete"} /\ UNCHANGED <<mgr, loc>>
        BY <3>2 DEF DeregisterParticipant, CloseSocket, DisconnectParticipant, At
      <4> QED
        BY <1>1, <2>2, <4>1 DEF FoundInv, mgr
    <3>3. CASE \/ Elsewhere(t) \/ AddMessenger(t) \/ DeleteMessenger(t) \/ DetermineParticipant(t)
               \/ GetMessengers(t) \/ RegisterParticipant(t) \/ ReconnectParticipant(t)
      BY <1>0, <1>1, <2>2, <3>3 DEF Elsewhere, Leaving, AddMessenger, DeleteMessenger,
           DetermineParticipant, GetMessengers, RegisterParticipant, ReconnectParticipant, Goto, TaskType
    <3> QED
      BY <1>0, <3>1, <3>2, <3>3 DEF MessengerMove
  <2> QED
    BY <2>1, <2>2
<1> QED
  BY <1>1 DEF FoundInv

(* Whoever looks for a participant in vain is recorded, and stays so. *)
LEMMA SoughtStep ==
    ASSUME BaseInv, SoughtInv, NEW t \in Tasks, TaskStep(t)
    PROVE  SoughtInv'
<1>0. /\ TypeOK /\ Frame(t) /\ TaskType /\ MessengerMove(t) /\ loc[t] \in Locals
      /\ ManagerType /\ overtaken \subseteq overtaken'
  BY TypeParts, OwnStep, MessengerMoves, OvertakenStep DEF BaseInv, TaskType
<1>1. ASSUME NEW s \in Tasks, s # t, pc'[s] \in {"find_messenger", "copy", "leave"}
      PROVE  loc'[s].participant.id = loc'[s].id \/ loc'[s].id \in overtaken'
  <2>1. /\ pc'[s] = pc[s] /\ loc'[s].participant = loc[s].participant /\ loc'[s].id = loc[s].id
    BY <1>0, <1>1, KeptFields DEF Frame, Kept
  <2> QED
    BY <1>0, <1>1, <2>1 DEF SoughtInv
<1>2. ASSUME pc'[t] \in {"find_messenger", "copy", "leave"}
      PROVE  loc'[t].participant.id = loc'[t].id \/ loc'[t].id \in overtaken'
  <2>1. CASE DetermineParticipant(t)
    <3>1. loc[t].kind # "reconnect"
      BY <1>0, <1>2, <2>1 DEF DetermineParticipant, Goto, TaskType
    <3>2. /\ loc'[t].id = loc[t].id
          /\ id_to_participant[loc[t].id].known => loc'[t].participant.id = loc[t].id
      BY <1>0, <2>1 DEF DetermineParticipant, TaskType, Locals
    <3>3. ~id_to_participant[loc[t].id].known => loc[t].id \in overtaken'
      BY <2>1, <3>1 DEF DetermineParticipant
    <3> QED
      BY <3>2, <3>3
  <2>2. CASE GetMessengers(t)
    <3>1. loc'[t].id = loc[t].id /\ loc'[t].participant = loc[t].participant
      BY <1>0, <2>2 DEF GetMessengers, TaskType, Locals
    <3> QED
      BY <1>0, <2>2, <3>1 DEF GetMessengers, At, SoughtInv
  <2>3. CASE DetermineMessenger(t)
    <3>1. loc'[t].id = loc[t].id /\ loc'[t].participant = loc[t].participant
      BY <1>0, <2>3 DEF DetermineMessenger, TaskType, Locals
    <3> QED
      BY <1>0, <2>3, <3>1 DEF DetermineMessenger, At, SoughtInv
  <2>4. CASE \/ Elsewhere(t) \/ AddMessenger(t) \/ DeleteMessenger(t) \/ DeregisterParticipant(t)
             \/ CloseSocket(t) \/ DisconnectParticipant(t)
             \/ RegisterParticipant(t) \/ ReconnectParticipant(t)
    BY <1>0, <1>2, <2>4 DEF Elsewhere, Leaving, AddMessenger, DeleteMessenger, DeregisterParticipant,
         CloseSocket, DisconnectParticipant, RegisterParticipant, ReconnectParticipant, Goto, TaskType
  <2> QED
    BY <1>0, <2>1, <2>2, <2>3, <2>4 DEF MessengerMove
<1> QED
  BY <1>1, <1>2 DEF SoughtInv

(* A messenger that nobody is about to delete, after a step that does not   *)
(* choose it.                                                               *)
LEMMA SureKept ==
    ASSUME BaseInv, NEW t \in Tasks, Frame(t), NEW x, Sure(x),
           pc'[t] \in {"close", "delete"} => loc'[t].messenger # x
    PROVE  Sure(x)'
<1>1. ASSUME NEW s \in Tasks, pc'[s] \in {"close", "delete"}
      PROVE  loc'[s].messenger # x
  <2>1. CASE s = t
    BY <1>1, <2>1
  <2>2. CASE s # t
    <3>1. pc'[s] = pc[s] /\ loc'[s].messenger = loc[s].messenger
      BY <2>2, KeptFields DEF Frame, Kept, BaseInv
    <3> QED
      BY <1>1, <3>1 DEF Sure
  <2> QED
    BY <2>1, <2>2
<1> QED
  BY <1>1 DEF Sure

(* A step that neither adds nor deletes, and takes no messenger of i to delete. *)
LEMMA ServedKept ==
    ASSUME BaseInv, NEW t \in Tasks, Frame(t), NEW i, Served(i), pc[t] # "add", UNCHANGED mgr,
           pc'[t] \in {"close", "delete"} =>
               \/ pc[t] \in {"close", "delete"} /\ loc'[t].messenger = loc[t].messenger
               \/ loc'[t].messenger = NoFd \/ messenger[loc'[t].messenger].id # i
    PROVE  Served(i)'
<1>0. TypeOK /\ MessengerType
  BY TypeParts DEF BaseInv
<1>1. CASE \E x \in messengers : messenger[x].id = i /\ Sure(x)
  <2>1. PICK x \in messengers : messenger[x].id = i /\ Sure(x)
    BY <1>1
  <2>2. x # NoFd
    BY <1>0, <2>1, SetFacts DEF MessengerType
  <2>3. Sure(x)'
    <3>1. pc'[t] \in {"close", "delete"} => loc'[t].messenger # x
      BY <2>1, <2>2 DEF Sure
    <3> QED
      BY <2>1, <3>1, SureKept
  <2> QED
    BY <2>1, <2>3 DEF Served, mgr
<1>2. CASE \E u \in Tasks : pc[u] = "add" /\ loc[u].participant.id = i
  <2>1. PICK u \in Tasks : pc[u] = "add" /\ loc[u].participant.id = i
    BY <1>2
  <2>2. pc'[u] = "add" /\ loc'[u].participant.id = i
    BY <1>0, <2>1, KeptFields DEF Frame, Kept
  <2> QED
    BY <2>2 DEF Served
<1> QED
  BY <1>1, <1>2 DEF Served

(* The participant of the messenger that a leaving task has found is no      *)
(* longer connected when the task goes on to delete it.                      *)
LEMMA LeftStep ==
    ASSUME BaseInv, FoundInv, SoughtInv, NEW t \in Tasks, loc' = loc,
           DeregisterParticipant(t) \/ DisconnectParticipant(t),
           NEW i \in connected_participants', i \notin overtaken, loc[t].messenger # NoFd
    PROVE  messenger[loc[t].messenger].id # i
<1>0. /\ TaskType /\ ManagerType /\ ManagerAgrees /\ loc[t] \in Locals /\ pc[t] = "leave"
  BY TypeParts DEF BaseInv, TaskType, DeregisterParticipant, DisconnectParticipant, At
<1>1. i \in connected_participants /\ i # loc[t].participant.id
  BY DEF DeregisterParticipant, DisconnectParticipant, manager
<1>2. messenger[loc[t].messenger].id = loc[t].id
  BY <1>0 DEF FoundInv
<1>3. loc[t].participant.id = loc[t].id \/ loc[t].id \in overtaken
  BY <1>0 DEF SoughtInv
<1> QED
  BY <1>1, <1>2, <1>3

(* Connecting comes before a messenger is added, and leaving before one is  *)
(* deleted.                                                                 *)
LEMMA ServedStep ==
    ASSUME BaseInv, MessengerInv, NEW t \in Tasks, TaskStep(t)
    PROVE  ServedInv'
<1>0. /\ TypeOK /\ Frame(t) /\ TaskType /\ MessengerMove(t) /\ loc[t] \in Locals
      /\ ManagerType /\ MessengerType /\ overtaken \subseteq overtaken'
  BY TypeParts, OwnStep, MessengerMoves, OvertakenStep DEF BaseInv, TaskType
<1>a. /\ \A i \in connected_participants \ overtaken : Served(i)
      /\ NewInv /\ FoundInv /\ SoughtInv
  BY DEF MessengerInv, ServedInv
<1>1. ASSUME NEW i \in connected_participants' \ overtaken'
      PROVE  Served(i)'
  <2>0. i \notin overtaken
    BY <1>0, <1>1
  <2>1. CASE Elsewhere(t)
    BY <1>0, <1>a, <1>1, <2>0, <2>1, ServedKept DEF Elsewhere, Leaving
  <2>2. CASE DetermineParticipant(t) \/ GetMessengers(t) \/ DetermineMessenger(t)
    <3>1. pc'[t] \notin {"close", "delete"}
      BY <1>0, <2>2 DEF DetermineParticipant, GetMessengers, DetermineMessenger, Goto, TaskType
    <3>2. UNCHANGED <<mgr, connected_participants>> /\ pc[t] # "add"
      BY <2>2 DEF DetermineParticipant, GetMessengers, DetermineMessenger, At, manager
    <3> QED
      BY <1>0, <1>a, <1>1, <2>0, <3>1, <3>2, ServedKept
  <2>3. CASE DeregisterParticipant(t) \/ DisconnectParticipant(t)
    <3>1. /\ UNCHANGED <<mgr, loc>> /\ pc[t] # "add"
          /\ connected_participants' \subseteq connected_participants
      BY <2>3 DEF DeregisterParticipant, DisconnectParticipant, At, manager
    <3>2. loc[t].messenger = NoFd \/ messenger[loc[t].messenger].id # i
      BY <1>a, <1>1, <2>0, <2>3, <3>1, LeftStep
    <3> QED
      BY <1>0, <1>a, <1>1, <2>0, <3>1, <3>2, ServedKept
  <2>4. CASE CloseSocket(t)
    <3>1. UNCHANGED <<mgr, loc, connected_participants>> /\ pc[t] = "close"
      BY <2>4 DEF CloseSocket, At, manager
    <3> QED
      BY <1>0, <1>a, <1>1, <2>0, <3>1, ServedKept
  <2>5. CASE RegisterParticipant(t) \/ ReconnectParticipant(t)
    <3>1. /\ UNCHANGED <<mgr, loc>> /\ pc[t] = "enter" /\ pc'[t] = "add"
          /\ connected_participants' \subseteq connected_participants \cup {loc[t].participant.id}
      BY <1>0, <2>5 DEF RegisterParticipant, ReconnectParticipant, At, Goto, TaskType, manager
    <3>2. CASE i = loc[t].participant.id
      BY <3>1, <3>2 DEF Served
    <3>3. CASE i # loc[t].participant.id
      BY <1>0, <1>a, <1>1, <2>0, <3>1, <3>3, ServedKept
    <3> QED
      BY <3>2, <3>3
  <2>6. CASE DeleteMessenger(t)
    <3>1. /\ messengers' = messengers \ {loc[t].messenger} /\ messenger' = messenger
          /\ connected_participants' = connected_participants /\ pc[t] = "delete" /\ pc'[t] = "done"
      BY <1>0, <2>6 DEF DeleteMessenger, Deleted, At, Goto, TaskType, manager
    <3>2. CASE \E x \in messengers : messenger[x].id = i /\ Sure(x)
      <4>1. PICK x \in messengers : messenger[x].id = i /\ Sure(x)
        BY <3>2
      <4>2. x \in messengers'
        BY <3>1, <4>1 DEF Sure
      <4>3. Sure(x)'
        BY <1>0, <3>1, <4>1, SureKept
      <4> QED
        BY <3>1, <4>1, <4>2, <4>3 DEF Served
    <3>3. CASE \E u \in Tasks : pc[u] = "add" /\ loc[u].participant.id = i
      <4>1. PICK u \in Tasks : pc[u] = "add" /\ loc[u].participant.id = i
        BY <3>3
      <4>2. pc'[u] = "add" /\ loc'[u].participant.id = i
        BY <1>0, <3>1, <4>1, KeptFields DEF Frame, Kept
      <4> QED
        BY <4>2 DEF Served
    <3> QED
      BY <1>a, <1>1, <2>0, <3>1, <3>2, <3>3 DEF Served
  <2>7. CASE AddMessenger(t)
    <3>1. /\ messengers' = messengers \cup {t}
          /\ messenger' = [messenger EXCEPT ![t] = loc[t].participant]
          /\ connected_participants' = connected_participants /\ pc[t] = "add"
          /\ t \in Makers
      BY <1>0, <2>7, SetFacts DEF AddMessenger, At, manager
    <3>2. pc'[t] \notin {"close", "delete"}
      BY <2>7, MessengersStep DEF Past
    <3>3. t \notin messengers /\ \A s \in Tasks : loc[s].messenger # t
      BY <1>a, <3>1 DEF NewInv, Past
    <3>4. CASE \E x \in messengers : messenger[x].id = i /\ Sure(x)
      <4>1. PICK x \in messengers : messenger[x].id = i /\ Sure(x)
        BY <3>4
      <4>2. x \in messengers' /\ messenger'[x] = messenger[x]
        BY <1>0, <3>1, <3>3, <4>1 DEF MessengerType
      <4>3. Sure(x)'
        BY <1>0, <3>2, <4>1, SureKept
      <4> QED
        BY <4>1, <4>2, <4>3 DEF Served
    <3>5. CASE \E u \in Tasks : pc[u] = "add" /\ loc[u].participant.id = i
      <4>1. PICK u \in Tasks : pc[u] = "add" /\ loc[u].participant.id = i
        BY <3>5
      <4>2. CASE u # t
        <5>1. pc'[u] = "add" /\ loc'[u].participant.id = i
          BY <1>0, <4>1, <4>2, KeptFields DEF Frame, Kept
        <5> QED
          BY <5>1 DEF Served
      <4>3. CASE u = t
        <5>1. t \in messengers' /\ messenger'[t].id = i
          BY <1>0, <3>1, <4>1, <4>3 DEF MessengerType
        <5>2. Sure(t)
          BY <3>3 DEF Sure
        <5>3. Sure(t)'
          BY <1>0, <3>2, <5>2, SureKept
        <5> QED
          BY <5>1, <5>3 DEF Served
      <4> QED
        BY <4>2, <4>3
    <3> QED
      BY <1>a, <1>1, <2>0, <3>1, <3>4, <3>5 DEF Served
  <2> QED
    BY <1>0, <2>1, <2>2, <2>3, <2>4, <2>5, <2>6, <2>7 DEF MessengerMove
<1> QED
  BY <1>1 DEF ServedInv

(* Every member has a messenger. *)
LEMMA MessengerInit ==
    ASSUME Init PROVE MessengerInv
<1>0. Members \subseteq Makers /\ Members \cap Tasks = {}
  BY SetsAssumption DEF Makers
<1>1. PICK ids \in [Members -> 1..Cardinality(Members)] :
          /\ \A p, q \in Members : ids[p] = ids[q] => p = q
          /\ messenger = [x \in Makers |->
                IF x \in Members
                THEN [id |-> ids[x], sock_fd |-> x, disconnect_time |-> StartTime]
                ELSE NoParticipant]
  BY DEF Init
<1>2. \A t \in Tasks : pc[t] = "idle" /\ loc[t] = NoLocals
  BY DEF Init
<1>3. NewInv
  BY <1>0, <1>2, SetFacts DEF Init, NewInv, NoLocals
<1>4. FoundInv /\ SoughtInv
  BY <1>2 DEF FoundInv, SoughtInv
<1>5. ServedInv
  <2>1. \A j \in 1..Cardinality(Members) : \E p \in Members : ids[p] = j
    BY <1>1, MembersNumbered
  <2>2. connected_participants = 1..Cardinality(Members) /\ messengers = Members
    BY DEF Init
  <2>3. \A x \in messengers : messenger[x].id = ids[x] /\ Sure(x)
    BY <1>0, <1>1, <1>2, <2>2 DEF Sure
  <2> QED
    BY <2>1, <2>2, <2>3 DEF ServedInv, Served
<1> QED
  BY <1>3, <1>4, <1>5 DEF MessengerInv

(* The steps of the peers do not touch the messengers. *)
LEMMA MessengerNext ==
    ASSUME BaseInv, MessengerInv, [Next]_vars
    PROVE  MessengerInv'
<1>1. CASE \E t \in Tasks : TaskStep(t)
  <2>1. PICK t \in Tasks : TaskStep(t)
    BY <1>1
  <2>2. NewInv /\ FoundInv /\ SoughtInv
    BY DEF MessengerInv
  <2> QED
    BY <2>1, <2>2, NewStep, FoundStep, SoughtStep, ServedStep DEF MessengerInv
<1>2. CASE UNCHANGED <<connected_participants, messengers, messenger, pc, loc, overtaken>>
  <2>1. NewInv' = NewInv /\ FoundInv' = FoundInv /\ SoughtInv' = SoughtInv
    BY <1>2 DEF NewInv, FoundInv, SoughtInv
  <2>2. ServedInv' = ServedInv
    BY <1>2 DEF ServedInv, Served, Sure
  <2> QED
    BY <2>1, <2>2 DEF MessengerInv
<1> QED
  BY <1>1, <1>2 DEF Next, TaskStep, PeerCloses, vars, manager, mgr

(* Every connected participant has a messenger or is about to get one, for   *)
(* any number of requests that register, disconnect, reconnect or deregister *)
(* at once, also under one id and where one task has copied the set of       *)
(* messengers that another changes (coordinator.cpp:135-139, 147-150,        *)
(* 159-162 and 171-177), unless a request to leave was looked up before the  *)
(* manager knew its id (line 132).                                           *)
THEOREM ConnectedHasMessengerHolds == Spec => []ConnectedHasMessenger
<1>1. Init => MessengerInv
  BY MessengerInit
<1>2. BaseInv /\ MessengerInv /\ [Next]_vars => MessengerInv'
  BY MessengerNext
<1>3. MessengerInv => ConnectedHasMessenger
  BY DEF MessengerInv, ServedInv, Served, ConnectedHasMessenger
<1> QED
  BY <1>1, <1>2, <1>3, BaseInvHolds, PTL DEF Spec

-----------------------------------------------------------------------------
(* Multicasts, while nobody joins or leaves. *)

OnlyMulticasts == \A t \in Tasks : loc[t].kind \in {"none", "multicast"}

(* Where a message is on its way: before Push, in the queue, with the task   *)
(* that has taken it.                                                        *)
Pushed(m) == loc[m].kind = "multicast" /\ pc[m] # "push"
Queued(m) == \E n \in 1..Len(msg_queue) : msg_queue[n] = m
Holds(t, m) == Broadcasting(t) /\ loc[t].msg = m
Waiting == {t \in Tasks : pc[t] = "pop"}

(* Whom the task that has it has yet to send it to. *)
Owes(t, p) == p \in loc[t].todo \/ (pc[t] = "send" /\ loc[t].messenger = p)
Pending(m, p) == ~Pushed(m) \/ Queued(m) \/ \E t \in Tasks : Holds(t, m) /\ Owes(t, p)

(* The members and their connections are the ones of the beginning. *)
StillInv ==
    /\ messengers = Members /\ open = Members
    /\ \A p \in Members : messenger[p].sock_fd = p /\ messenger[p].id \in connected_participants
    /\ \A p \in Members \ Quitters : peer[p] = "open"
WalkInv ==
    \A t \in Tasks : Broadcasting(t) =>
        /\ loc[t].todo \subseteq Members
        /\ pc[t] = "send" => loc[t].messenger \in Members \ loc[t].todo

(* A message is in one place at a time. *)
TokenInv ==
    /\ \A n, k \in 1..Len(msg_queue) : msg_queue[n] = msg_queue[k] => n = k
    /\ \A m \in Tasks : Queued(m) => Pushed(m)
    /\ \A t, m \in Tasks : Holds(t, m) => Pushed(m) /\ ~Queued(m)
    /\ \A s, t, m \in Tasks : Holds(s, m) /\ Holds(t, m) => s = t

(* The queue has a message for every task that waits for one. *)
QueueInv == Len(msg_queue) = Cardinality(Waiting)

SentInv ==
    \A p \in Members \ Quitters, m \in Tasks :
        Count(sent[p], m) = IF Pending(m, p) THEN 0 ELSE 1

BroadcastParts == StillInv /\ WalkInv /\ TokenInv /\ QueueInv /\ SentInv
BroadcastInv == OnlyMulticasts => BroadcastParts

(* One more message has reached the other end. *)
LEMMA CountAppend ==
    ASSUME NEW s \in Seq(Tasks), NEW x \in Tasks, NEW m
    PROVE  /\ Count(s, m) \in Nat
           /\ Count(Append(s, x), m) = IF x = m THEN Count(s, m) + 1 ELSE Count(s, m)
<1> DEFINE S == {n \in 1..Len(s) : s[n] = m}
           T == {n \in 1..(Len(s) + 1) : Append(s, x)[n] = m}
<1>1. Len(s) \in Nat /\ DOMAIN s = 1..Len(s) /\ DOMAIN Append(s, x) = 1..(Len(s) + 1)
  OBVIOUS
<1>2. IsFiniteSet(S) /\ Cardinality(S) \in Nat
  <2>1. IsFiniteSet(1..Len(s)) /\ S \subseteq 1..Len(s)
    BY <1>1, FS_Interval
  <2> QED
    BY <2>1, FS_Subset, FS_CardinalityType
<1>3. \A n \in 1..Len(s) : Append(s, x)[n] = s[n]
  OBVIOUS
<1>4. Append(s, x)[Len(s) + 1] = x /\ Len(s) + 1 \notin S
  OBVIOUS
<1>5. T = IF x = m THEN S \cup {Len(s) + 1} ELSE S
  BY <1>1, <1>3, <1>4
<1>6. Count(s, m) = Cardinality(S) /\ Count(Append(s, x), m) = Cardinality(T)
  BY <1>1 DEF Count
<1>7. Cardinality(S \cup {Len(s) + 1}) = Cardinality(S) + 1
  BY <1>2, <1>4, FS_AddElement
<1> HIDE DEF S, T
<1> QED
  BY <1>2, <1>5, <1>6, <1>7

(* A request stays what it is. *)
LEMMA KindKept ==
    ASSUME BaseInv, NEW t \in Tasks, Handle(t)
    PROVE  loc'[t].kind = loc[t].kind
<1>0. TypeOK /\ TaskType /\ loc[t] \in Locals
  BY TypeParts DEF BaseInv, TaskType
<1>a. Ended(t).kind = loc[t].kind
  BY DEF Ended, NoLocals
<1>1. CASE AddMessenger(t)
  BY <1>0, <1>a, <1>1, AddFrame
<1>2. CASE DeleteMessenger(t)
  BY <1>0, <1>a, <1>2, DeleteFrame
<1>3. CASE HandleRegister(t)
  BY <1>0, <1>3 DEF HandleRegister, GenerateID, IncrementID, CheckID, ReturnID,
     SendRegistrationResponse, RegisterParticipant, TaskType, Locals
<1>4. CASE SendMissedMessages(t) \/ NextMessenger(t)
  <2>1. CASE Done(t)
    BY <1>0, <1>a, <2>1 DEF Done, TaskType
  <2>2. CASE \E m \in Tasks : loc' = [loc EXCEPT ![t].missed = @ \ {m}]
    BY <1>0, <2>2 DEF TaskType, Locals
  <2>3. CASE \E x \in Makers : loc' = [loc EXCEPT ![t].todo = @ \ {x}, ![t].messenger = x]
    BY <1>0, <2>3 DEF TaskType, Locals
  <2>4. loc[t].missed \subseteq Tasks /\ loc[t].todo \subseteq Makers
    BY <1>0 DEF Locals
  <2> QED
    BY <1>4, <2>1, <2>2, <2>3, <2>4 DEF SendMissedMessages, NextMessenger
<1>5. CASE GetMessengers(t) \/ DetermineMessenger(t)
  <2>1. CASE GetMessengers(t)
    BY <1>0, <2>1 DEF GetMessengers, TaskType, Locals
  <2>2. CASE DetermineMessenger(t)
    BY <1>0, <2>2 DEF DetermineMessenger, TaskType, Locals
  <2> QED
    BY <1>5, <2>1, <2>2
<1>8. CASE \/ DeregisterParticipant(t) \/ CloseSocket(t) \/ DisconnectParticipant(t)
           \/ ReconnectParticipant(t)
  BY <1>8 DEF DeregisterParticipant, CloseSocket, DisconnectParticipant, ReconnectParticipant
<1>6. CASE \/ ReconnectionTime(t) \/ FindMissedMessages(t) \/ Push(t) \/ Pop(t)
           \/ SendMessage(t) \/ LogMessage(t)
  BY <1>0, <1>6 DEF ReconnectionTime, FindMissedMessages, Push, Pop, SendMessage, LogMessage,
     TaskType, Locals
<1>7. CASE DetermineParticipant(t) \/ ConnectToParticipant(t)
  BY <1>0, <1>7 DEF DetermineParticipant, ConnectToParticipant, TaskType, Locals
<1> QED
  BY <1>1, <1>2, <1>3, <1>4, <1>5, <1>6, <1>7, <1>8
     DEF Handle, HandleLeave, HandleReconnect, HandleMulticast

(* The steps there are while no request is of another kind. *)
LEMMA OnlyMoves ==
    ASSUME BaseInv, NEW t \in Tasks, TaskStep(t), OnlyMulticasts'
    PROVE  /\ OnlyMulticasts
           /\ \/ \E p \in Active : Accept(t, p, "multicast")
              \/ AcceptNothing(t) \/ HandleMulticast(t)
<1>0. TypeOK /\ TaskType /\ Frame(t) /\ LocalAt(t, pc[t], loc[t]) /\ loc[t] \in Locals
  BY TypeParts, OwnStep DEF BaseInv, LocalInv, TaskType
<1>1. \A s \in Tasks \ {t} : loc[s].kind = loc'[s].kind
  BY <1>0, KeptFields DEF Frame
<1>2. loc[t].kind \in {"none", "multicast"}
  <2>1. loc'[t].kind \in {"none", "multicast"}
    BY DEF OnlyMulticasts
  <2>2. CASE pc[t] = "idle"
    BY <1>0, <2>2 DEF LocalAt, NoLocals
  <2>3. CASE Handle(t)
    BY <2>1, <2>3, KindKept
  <2> QED
    BY <2>2, <2>3 DEF TaskStep, Accept, AcceptNothing, At
<1>3. OnlyMulticasts
  BY <1>1, <1>2 DEF OnlyMulticasts
<1>4. CASE \E p \in Active, kind \in Requests : Accept(t, p, kind)
  <2>1. PICK p \in Active, kind \in Requests : Accept(t, p, kind)
    BY <1>4
  <2>2. loc'[t].kind = kind
    BY <1>0, <2>1 DEF Accept, TaskType, Locals
  <2>3. kind = "multicast"
    BY <2>2, SetsAssumption DEF OnlyMulticasts, RequestKinds
  <2> QED
    BY <1>3, <2>1, <2>3
<1>5. CASE Handle(t)
  <2>1. pc[t] \in {"idle", "push", "pop", "next", "send", "log", "done"}
    BY <1>0, <1>2 DEF LocalAt, KindAt, TaskType, Labels
  <2> QED
    BY <1>3, <1>5, <2>1 DEF Handle, HandleRegister, HandleLeave, HandleReconnect, GenerateID,
       IncrementID, CheckID, ReturnID, SendRegistrationResponse, RegisterParticipant, GetMessengers,
       DetermineMessenger, DeregisterParticipant, CloseSocket, DisconnectParticipant, DeleteMessenger,
       ReconnectParticipant, ReconnectionTime, FindMissedMessages, SendMissedMessages,
       DetermineParticipant, ConnectToParticipant, AddMessenger, At
<1> QED
  BY <1>3, <1>4, <1>5 DEF TaskStep

(* What the steps of a multicast leave alone. *)
LEMMA StillFrame ==
    ASSUME StillInv, UNCHANGED <<manager, mgr, net>>
    PROVE  StillInv'
BY DEF StillInv, manager, mgr, net

LEMMA SentFrame ==
    ASSUME SentInv, UNCHANGED sent,
           \A m \in Tasks, p \in Members : Pending(m, p)' <=> Pending(m, p)
    PROVE  SentInv'
BY SetsAssumption DEF SentInv

(* A step by which no message changes its place. *)
LEMMA PlacesFrame ==
    ASSUME TokenInv, QueueInv, UNCHANGED msg_queue, Waiting' = Waiting,
           \A m \in Tasks : Pushed(m)' <=> Pushed(m),
           \A s, m \in Tasks : Holds(s, m)' <=> Holds(s, m)
    PROVE  TokenInv' /\ QueueInv'
<1>1. \A m \in Tasks : Queued(m)' <=> Queued(m)
  BY DEF Queued
<1>2. QueueInv'
  BY DEF QueueInv
<1>3. TokenInv'
  BY <1>1 DEF TokenInv
<1> QED
  BY <1>2, <1>3

(* A request is accepted, or nothing is. *)
LEMMA BeginsBroadcast ==
    ASSUME BaseInv, BroadcastParts, NEW t \in Tasks,
           (\E p \in Active : Accept(t, p, "multicast")) \/ AcceptNothing(t)
    PROVE  BroadcastParts'
<1>0. TypeOK /\ TaskType /\ LocalAt(t, pc[t], loc[t]) /\ loc[t] \in Locals
  BY TypeParts DEF BaseInv, LocalInv, TaskType
<1>1. /\ pc[t] = "idle" /\ loc[t].kind = "none"
      /\ UNCHANGED <<manager, mgr, net, msg_queue>>
  <2>1. pc[t] = "idle" /\ UNCHANGED <<manager, mgr, net, msg_queue>>
    BY DEF Accept, AcceptNothing, At
  <2> QED
    BY <1>0, <2>1 DEF LocalAt, NoLocals
<1>2. /\ \A s \in Tasks \ {t} : pc'[s] = pc[s] /\ loc'[s] = loc[s]
      /\ pc'[t] \in {"push", "done"} /\ (pc'[t] = "push" \/ loc'[t].kind = "none")
  <2>1. CASE AcceptNothing(t)
    BY <1>0, <1>1, <2>1, EndedFact DEF AcceptNothing, Done, Goto, TaskType
  <2>2. CASE \E p \in Active : Accept(t, p, "multicast")
    BY <1>0, <2>2 DEF Accept, Goto, FirstLabel, TaskType
  <2> QED
    BY <2>1, <2>2
<1>3. /\ \A m \in Tasks : Pushed(m)' <=> Pushed(m)
      /\ \A s, m \in Tasks : Holds(s, m)' <=> Holds(s, m)
      /\ \A s, m \in Tasks : Holds(s, m) => s # t
      /\ Waiting' = Waiting
  BY <1>1, <1>2 DEF Pushed, Holds, Broadcasting, Waiting
<1>4. TokenInv' /\ QueueInv'
  BY <1>1, <1>3, PlacesFrame DEF BroadcastParts
<1>5. WalkInv'
  BY <1>2 DEF BroadcastParts, WalkInv, Broadcasting
<1>6. \A m \in Tasks, p \in Members : Pending(m, p)' <=> Pending(m, p)
  <2>1. \A s \in Tasks \ {t}, p \in Members : Owes(s, p)' <=> Owes(s, p)
    BY <1>2 DEF Owes
  <2>2. \A m \in Tasks : Queued(m)' <=> Queued(m)
    BY <1>1 DEF Queued
  <2> QED
    BY <1>3, <2>1, <2>2 DEF Pending
<1>7. SentInv'
  BY <1>1, <1>6, SentFrame DEF BroadcastParts, net
<1> QED
  BY <1>1, <1>4, <1>5, <1>7, StillFrame DEF BroadcastParts

(* The message goes to the end of the queue. *)
LEMMA PushBroadcast ==
    ASSUME BaseInv, BroadcastParts, NEW t \in Tasks, Push(t)
    PROVE  BroadcastParts'
<1>0. /\ TypeOK /\ TaskType /\ LocalAt(t, pc[t], loc[t]) /\ msg_queue \in Seq(Tasks)
      /\ StillInv /\ WalkInv /\ TokenInv /\ QueueInv /\ SentInv
  BY TypeParts DEF BaseInv, LocalInv, MessageType, BroadcastParts
<1>1. /\ pc[t] = "push" /\ loc[t].kind = "multicast" /\ pc'[t] = "pop" /\ loc' = loc
      /\ \A s \in Tasks \ {t} : pc'[s] = pc[s]
      /\ msg_queue' = Append(msg_queue, t) /\ UNCHANGED <<manager, mgr, net>>
  BY <1>0 DEF Push, QueueWith, At, Goto, LocalAt, KindAt, TaskType
<1>2. /\ Len(msg_queue) \in Nat /\ Len(msg_queue') = Len(msg_queue) + 1
      /\ msg_queue'[Len(msg_queue) + 1] = t
      /\ \A n \in 1..Len(msg_queue) : msg_queue'[n] = msg_queue[n]
  BY <1>0, <1>1
<1>3. ~Pushed(t) /\ ~Queued(t) /\ \A s \in Tasks : ~Holds(s, t)
  BY <1>0, <1>1 DEF Pushed, TokenInv
<1>4. /\ Pushed(t)'
      /\ \A m \in Tasks \ {t} : Pushed(m)' <=> Pushed(m)
      /\ \A s, m \in Tasks : Holds(s, m)' <=> Holds(s, m)
      /\ \A s \in Tasks, p \in Members, m \in Tasks : Holds(s, m) => (Owes(s, p)' <=> Owes(s, p))
  BY <1>1 DEF Pushed, Holds, Broadcasting, Owes
<1>5. Queued(t)' /\ \A m \in Tasks \ {t} : Queued(m)' <=> Queued(m)
  BY <1>2 DEF Queued
<1>6. \A n, k \in 1..Len(msg_queue') : msg_queue'[n] = msg_queue'[k] => n = k
  <2>1. \A n \in 1..Len(msg_queue) : msg_queue[n] # t
    BY <1>3 DEF Queued
  <2> QED
    BY <1>0, <1>2, <2>1 DEF TokenInv
<1>7. TokenInv'
  BY <1>0, <1>3, <1>4, <1>5, <1>6 DEF TokenInv
<1>8. QueueInv'
  <2>1. Waiting' = Waiting \cup {t} /\ t \notin Waiting
    BY <1>1 DEF Waiting
  <2>2. IsFiniteSet(Waiting)
    BY SetsAssumption, FS_Subset DEF Waiting
  <2>3. Cardinality(Waiting \cup {t}) = Cardinality(Waiting) + 1
    BY <2>1, <2>2, FS_AddElement
  <2> QED
    BY <1>0, <1>2, <2>1, <2>3 DEF QueueInv
<1>9. WalkInv'
  BY <1>0, <1>1 DEF WalkInv, Broadcasting
<1>10. \A m \in Tasks, p \in Members : Pending(m, p)' <=> Pending(m, p)
  BY <1>3, <1>4, <1>5 DEF Pending
<1>11. SentInv'
  BY <1>0, <1>1, <1>10, SentFrame DEF net
<1> QED
  BY <1>0, <1>1, <1>7, <1>8, <1>9, <1>11, StillFrame DEF BroadcastParts

(* The task takes the first message, and has it to send to every member. *)
LEMMA PopBroadcast ==
    ASSUME BaseInv, BroadcastParts, NEW t \in Tasks, Pop(t)
    PROVE  BroadcastParts'
<1>0. /\ TypeOK /\ TaskType /\ loc[t] \in Locals /\ msg_queue \in Seq(Tasks)
      /\ StillInv /\ WalkInv /\ TokenInv /\ QueueInv /\ SentInv
  BY TypeParts DEF BaseInv, TaskType, MessageType, BroadcastParts
<1>1. /\ pc[t] = "pop" /\ pc'[t] = "next" /\ msg_queue # <<>>
      /\ \A s \in Tasks \ {t} : pc'[s] = pc[s] /\ loc'[s] = loc[s]
      /\ loc'[t].kind = loc[t].kind /\ loc'[t].msg = Head(msg_queue) /\ loc'[t].todo = Members
      /\ msg_queue' = Tail(msg_queue) /\ UNCHANGED <<manager, mgr, net>>
  BY <1>0 DEF Pop, QueueWithoutFirst, At, Goto, TaskType, Locals, StillInv
<1>2. PICK x \in Tasks : x = Head(msg_queue)
  BY <1>0, <1>1
<1>3. /\ Len(msg_queue) \in Nat \ {0} /\ Len(msg_queue') = Len(msg_queue) - 1
      /\ msg_queue[1] = x
      /\ \A n \in 1..Len(msg_queue') : msg_queue'[n] = msg_queue[n + 1]
  BY <1>0, <1>1, <1>2
<1>4. Queued(x) /\ Pushed(x) /\ \A s \in Tasks : ~Holds(s, x)
  BY <1>0, <1>3 DEF Queued, TokenInv
<1>5. ~Queued(x)' /\ \A m \in Tasks \ {x} : Queued(m)' <=> Queued(m)
  <2>1. ~Queued(x)'
    BY <1>0, <1>3 DEF Queued, TokenInv
  <2>2. ASSUME NEW m \in Tasks \ {x}, Queued(m)
        PROVE  Queued(m)'
    <3>1. PICK n \in 1..Len(msg_queue) : msg_queue[n] = m
      BY <2>2 DEF Queued
    <3>2. n - 1 \in 1..Len(msg_queue') /\ n = (n - 1) + 1
      BY <1>3, <3>1
    <3> QED
      BY <1>3, <3>1, <3>2 DEF Queued
  <2>3. ASSUME NEW m \in Tasks, Queued(m)'
        PROVE  Queued(m)
    <3>1. PICK n \in 1..Len(msg_queue') : msg_queue'[n] = m
      BY <2>3 DEF Queued
    <3>2. n + 1 \in 1..Len(msg_queue)
      BY <1>3
    <3> QED
      BY <1>3, <3>1, <3>2 DEF Queued
  <2> QED
    BY <2>1, <2>2, <2>3
<1>6. /\ \A m \in Tasks : Pushed(m)' <=> Pushed(m)
      /\ \A s \in Tasks \ {t}, m \in Tasks : Holds(s, m)' <=> Holds(s, m)
      /\ \A m \in Tasks : ~Holds(t, m) /\ (Holds(t, m)' <=> m = x)
      /\ \A s \in Tasks \ {t}, p \in Members : Owes(s, p)' <=> Owes(s, p)
      /\ \A p \in Members : Owes(t, p)'
  BY <1>1, <1>2 DEF Pushed, Holds, Broadcasting, Owes
<1>7. TokenInv'
  <2>1. \A n, k \in 1..Len(msg_queue') : msg_queue'[n] = msg_queue'[k] => n = k
    <3>1. \A n \in 1..Len(msg_queue') : n + 1 \in 1..Len(msg_queue)
      BY <1>3
    <3> QED
      BY <1>0, <1>3, <3>1 DEF TokenInv
  <2> QED
    BY <1>0, <1>4, <1>5, <1>6, <2>1 DEF TokenInv
<1>8. QueueInv'
  <2>1. Waiting' = Waiting \ {t} /\ t \in Waiting
    BY <1>1 DEF Waiting
  <2>2. IsFiniteSet(Waiting)
    BY SetsAssumption, FS_Subset DEF Waiting
  <2>3. Cardinality(Waiting \ {t}) = Cardinality(Waiting) - 1
    BY <2>1, <2>2, FS_RemoveElement
  <2> QED
    BY <1>0, <1>3, <2>1, <2>3 DEF QueueInv
<1>9. WalkInv'
  BY <1>0, <1>1 DEF WalkInv, Broadcasting
<1>10. \A m \in Tasks, p \in Members : Pending(m, p)' <=> Pending(m, p)
  BY <1>4, <1>5, <1>6 DEF Pending
<1>11. SentInv'
  BY <1>0, <1>1, <1>10, SentFrame DEF net
<1> QED
  BY <1>0, <1>1, <1>7, <1>8, <1>9, <1>11, StillFrame DEF BroadcastParts

(* The next member, or the end of the walk.  Everybody is connected, so      *)
(* nobody is passed over.                                                    *)
LEMMA NextBroadcast ==
    ASSUME BaseInv, BroadcastParts, NEW t \in Tasks, NextMessenger(t)
    PROVE  BroadcastParts'
<1>0. /\ TypeOK /\ TaskType /\ loc[t] \in Locals
      /\ StillInv /\ WalkInv /\ TokenInv /\ QueueInv /\ SentInv
      /\ LocalAt(t, pc[t], loc[t])
  BY TypeParts DEF BaseInv, LocalInv, TaskType, BroadcastParts
<1>1. pc[t] = "next" /\ UNCHANGED <<manager, mgr, net, msg_queue>> /\ loc[t].kind = "multicast"
  BY <1>0 DEF NextMessenger, At, LocalAt, KindAt
<1>2. \A m \in Tasks : Queued(m)' <=> Queued(m)
  BY <1>1 DEF Queued
<1>3. CASE loc[t].todo = {} /\ Done(t)
  <2>1. /\ pc'[t] = "done" /\ loc'[t].kind = loc[t].kind
        /\ \A s \in Tasks \ {t} : pc'[s] = pc[s] /\ loc'[s] = loc[s]
    BY <1>0, <1>3, EndedFact DEF Done, Goto, TaskType
  <2>2. /\ \A m \in Tasks : Pushed(m)' <=> Pushed(m)
        /\ \A s \in Tasks \ {t}, m \in Tasks : Holds(s, m)' <=> Holds(s, m)
        /\ \A m \in Tasks : ~Holds(t, m)'
        /\ \A s \in Tasks \ {t}, p \in Members : Owes(s, p)' <=> Owes(s, p)
        /\ \A p \in Members : ~Owes(t, p)
        /\ Waiting' = Waiting
    BY <1>1, <1>3, <2>1 DEF Pushed, Holds, Broadcasting, Owes, Waiting
  <2>3. TokenInv'
    BY <1>0, <1>1, <1>2, <2>2 DEF TokenInv
  <2>4. QueueInv'
    BY <1>0, <1>1, <2>2 DEF QueueInv
  <2>5. WalkInv'
    BY <1>0, <2>1 DEF WalkInv, Broadcasting
  <2>6. \A m \in Tasks, p \in Members : Pending(m, p)' <=> Pending(m, p)
    BY <1>2, <2>2 DEF Pending
  <2>7. SentInv'
    BY <1>0, <1>1, <2>6, SentFrame DEF net
  <2> QED
    BY <1>0, <1>1, <2>3, <2>4, <2>5, <2>7, StillFrame DEF BroadcastParts
<1>4. CASE \E x \in loc[t].todo :
             /\ loc' = [loc EXCEPT ![t].todo = @ \ {x}, ![t].messenger = x]
             /\ Goto(t, IF messenger[x].id \in connected_participants THEN "send" ELSE "next")
  <2>1. PICK x \in loc[t].todo :
             /\ loc' = [loc EXCEPT ![t].todo = @ \ {x}, ![t].messenger = x]
             /\ Goto(t, IF messenger[x].id \in connected_participants THEN "send" ELSE "next")
    BY <1>4
  <2>2. x \in Members /\ loc[t].todo \subseteq Members
    BY <1>0, <1>1 DEF WalkInv, Broadcasting
  <2>3. /\ pc'[t] = "send" /\ loc'[t].kind = loc[t].kind /\ loc'[t].msg = loc[t].msg
        /\ loc'[t].messenger = x /\ loc'[t].todo = loc[t].todo \ {x}
        /\ \A s \in Tasks \ {t} : pc'[s] = pc[s] /\ loc'[s] = loc[s]
    BY <1>0, <2>1, <2>2 DEF Goto, TaskType, Locals, StillInv
  <2>4. /\ \A m \in Tasks : Pushed(m)' <=> Pushed(m)
        /\ \A s, m \in Tasks : Holds(s, m)' <=> Holds(s, m)
        /\ \A s \in Tasks, p \in Members : Owes(s, p)' <=> Owes(s, p)
        /\ Waiting' = Waiting
    BY <1>1, <2>2, <2>3 DEF Pushed, Holds, Broadcasting, Owes, Waiting
  <2>5. TokenInv' /\ QueueInv'
    BY <1>0, <1>1, <2>4, PlacesFrame
  <2>6. WalkInv'
    BY <1>0, <2>2, <2>3 DEF WalkInv, Broadcasting
  <2>7. \A m \in Tasks, p \in Members : Pending(m, p)' <=> Pending(m, p)
    BY <1>2, <2>4 DEF Pending
  <2>8. SentInv'
    BY <1>0, <1>1, <2>7, SentFrame DEF net
  <2> QED
    BY <1>0, <1>1, <2>5, <2>6, <2>8, StillFrame DEF BroadcastParts
<1> QED
  BY <1>3, <1>4 DEF NextMessenger

(* The message is logged. *)
LEMMA LogBroadcast ==
    ASSUME BaseInv, BroadcastParts, NEW t \in Tasks, LogMessage(t)
    PROVE  BroadcastParts'
<1>0. /\ TypeOK /\ TaskType
      /\ StillInv /\ WalkInv /\ TokenInv /\ QueueInv /\ SentInv
  BY TypeParts DEF BaseInv, BroadcastParts
<1>1. /\ pc[t] = "log" /\ pc'[t] = "next" /\ UNCHANGED <<manager, mgr, net, msg_queue, loc>>
      /\ \A s \in Tasks \ {t} : pc'[s] = pc[s]
  BY <1>0 DEF LogMessage, At, Goto, TaskType
<1>2. /\ \A m \in Tasks : Pushed(m)' <=> Pushed(m)
      /\ \A s, m \in Tasks : Holds(s, m)' <=> Holds(s, m)
      /\ \A s \in Tasks, p \in Members : Owes(s, p)' <=> Owes(s, p)
      /\ Waiting' = Waiting
  BY <1>1 DEF Pushed, Holds, Broadcasting, Owes, Waiting
<1>3. TokenInv' /\ QueueInv'
  BY <1>0, <1>1, <1>2, PlacesFrame
<1>4. WalkInv'
  BY <1>0, <1>1 DEF WalkInv, Broadcasting
<1>5. \A m \in Tasks, p \in Members : Pending(m, p)' <=> Pending(m, p)
  BY <1>1, <1>2 DEF Pending, Queued
<1>6. SentInv'
  BY <1>0, <1>1, <1>5, SentFrame DEF net
<1> QED
  BY <1>0, <1>1, <1>3, <1>4, <1>6, StillFrame DEF BroadcastParts

(* The one task that has the message sends it to a member that it still owes *)
(* it to.                                                                    *)
LEMMA SendBroadcast ==
    ASSUME BaseInv, BroadcastParts, NEW t \in Tasks, SendMessage(t)
    PROVE  BroadcastParts'
<1>0. /\ TypeOK /\ TaskType /\ NetType /\ LocalAt(t, pc[t], loc[t])
      /\ StillInv /\ WalkInv /\ TokenInv /\ QueueInv /\ SentInv
  BY TypeParts DEF BaseInv, LocalInv, BroadcastParts
<1>1. /\ pc[t] = "send" /\ pc'[t] \in {"log", "next"} /\ UNCHANGED <<manager, mgr, msg_queue, loc>>
      /\ \A s \in Tasks \ {t} : pc'[s] = pc[s]
  BY <1>0 DEF SendMessage, At, Goto, TaskType
<1>2. PICK x \in Members : x = loc[t].messenger /\ x \notin loc[t].todo
  BY <1>0, <1>1 DEF WalkInv, Broadcasting
<1>3. PICK c \in Tasks : c = loc[t].msg
  BY <1>0, <1>1 DEF LocalAt
<1>4. Send(x, c) /\ x \in open /\ open' = open /\ x \in Makers
  BY <1>0, <1>2, <1>3 DEF SendMessage, StillInv, Send, NetType
<1>5. /\ \A m \in Tasks : Pushed(m)' <=> Pushed(m)
      /\ \A s, m \in Tasks : Holds(s, m)' <=> Holds(s, m)
      /\ \A s \in Tasks \ {t}, p \in Members : Owes(s, p)' <=> Owes(s, p)
      /\ \A p \in Members : Owes(t, p)' <=> Owes(t, p) /\ p # x
      /\ Waiting' = Waiting /\ Owes(t, x) /\ Holds(t, c) /\ \A m \in Tasks : Holds(t, m) => m = c
  BY <1>1, <1>2, <1>3 DEF Pushed, Holds, Broadcasting, Owes, Waiting
<1>6. TokenInv' /\ QueueInv'
  BY <1>0, <1>1, <1>5, PlacesFrame
<1>7. WalkInv'
  BY <1>0, <1>1 DEF WalkInv, Broadcasting
<1>8. /\ \A m \in Tasks, p \in Members : ~(m = c /\ p = x) => (Pending(m, p)' <=> Pending(m, p))
      /\ Pending(c, x) /\ ~Pending(c, x)'
  <2>1. \A m \in Tasks : Queued(m)' <=> Queued(m)
    BY <1>1 DEF Queued
  <2>2. Pushed(c) /\ ~Queued(c) /\ \A s \in Tasks : Holds(s, c) => s = t
    BY <1>0, <1>5 DEF TokenInv
  <2>3. Pending(c, x) /\ ~Pending(c, x)'
    BY <1>5, <2>1, <2>2 DEF Pending
  <2>4. ASSUME NEW m \in Tasks, NEW p \in Members, ~(m = c /\ p = x)
        PROVE  Pending(m, p)' <=> Pending(m, p)
    <3>1. \A s \in Tasks : Holds(s, m) => (Owes(s, p)' <=> Owes(s, p))
      BY <1>5, <2>4
    <3> QED
      BY <1>5, <2>1, <3>1 DEF Pending
  <2> QED
    BY <2>3, <2>4
<1>9. /\ \A p \in Members : p # x => sent'[p] = sent[p]
      /\ x \notin Quitters => sent'[x] = Append(sent[x], c)
  <2>1. CASE peer[x] = "open"
    BY <1>0, <1>4, <2>1 DEF Send, NetType
  <2>2. CASE peer[x] # "open"
    BY <1>0, <1>2, <1>4, <2>2 DEF Send, StillInv
  <2> QED
    BY <2>1, <2>2
<1>10. SentInv'
  <2>1. ASSUME NEW p \in Members \ Quitters, NEW m \in Tasks
        PROVE  Count(sent'[p], m) = IF Pending(m, p)' THEN 0 ELSE 1
    <3>0. /\ Count(sent[p], m) = IF Pending(m, p) THEN 0 ELSE 1
          /\ sent[p] \in Seq(Tasks)
      BY <1>0, SetsAssumption DEF SentInv, NetType, Makers
    <3>1. CASE p # x
      BY <1>8, <1>9, <3>0, <3>1
    <3>2. CASE p = x
      <4>1. sent'[p] = Append(sent[p], c)
        BY <1>9, <3>2
      <4>2. Count(sent'[p], m) = IF c = m THEN Count(sent[p], m) + 1 ELSE Count(sent[p], m)
        BY <3>0, <4>1, CountAppend
      <4> QED
        BY <1>8, <3>0, <3>2, <4>2
    <3> QED
      BY <3>1, <3>2
  <2> QED
    BY <2>1 DEF SentInv
<1>11. StillInv'
  <2>1. \A p \in Members \ Quitters : peer'[p] = "open"
    BY <1>0, <1>4 DEF Send, StillInv, NetType
  <2> QED
    BY <1>0, <1>1, <1>4, <2>1 DEF StillInv, manager, mgr
<1> QED
  BY <1>6, <1>7, <1>10, <1>11 DEF BroadcastParts

(* A member that may quit is the only one whose connection closes. *)
LEMMA PeerBroadcast ==
    ASSUME BaseInv, BroadcastParts, NEW x \in Makers, PeerCloses(x)
    PROVE  BroadcastParts'
<1>0. NetType /\ StillInv /\ WalkInv /\ TokenInv /\ QueueInv /\ SentInv
  BY TypeParts DEF BaseInv, BroadcastParts
<1>1. UNCHANGED <<manager, mgr, open, sent, msg_queue, pc, loc>>
  BY DEF PeerCloses
<1>2. \A p \in Members \ Quitters : peer'[p] = peer[p]
  <2>1. \A p \in Members \ Quitters : p # x
    BY SetsAssumption DEF PeerCloses
  <2> QED
    BY <1>0, <2>1, SetsAssumption DEF PeerCloses, NetType, Makers
<1>3. StillInv'
  BY <1>0, <1>1, <1>2 DEF StillInv, manager, mgr
<1>4. WalkInv' /\ QueueInv'
  BY <1>0, <1>1 DEF WalkInv, Broadcasting, QueueInv, Waiting
<1>5. TokenInv'
  BY <1>0, <1>1 DEF TokenInv, Queued, Pushed, Holds, Broadcasting
<1>6. SentInv'
  BY <1>0, <1>1 DEF SentInv, Pending, Queued, Pushed, Holds, Owes, Broadcasting
<1> QED
  BY <1>3, <1>4, <1>5, <1>6 DEF BroadcastParts

(* Nothing has been pushed or sent. *)
LEMMA BroadcastInit ==
    ASSUME Init PROVE BroadcastParts
<1>0. Members \subseteq Makers
  BY SetsAssumption DEF Makers
<1>1. PICK ids \in [Members -> 1..Cardinality(Members)] :
          messenger = [x \in Makers |->
                IF x \in Members
                THEN [id |-> ids[x], sock_fd |-> x, disconnect_time |-> StartTime]
                ELSE NoParticipant]
  BY DEF Init
<1>2. /\ \A t \in Tasks : pc[t] = "idle" /\ loc[t].kind = "none"
      /\ msg_queue = <<>> /\ Len(msg_queue) = 0
  BY DEF Init, NoLocals
<1>3. StillInv
  BY <1>0, <1>1 DEF Init, StillInv
<1>4. WalkInv
  BY <1>2 DEF WalkInv, Broadcasting
<1>5. TokenInv
  BY <1>2 DEF TokenInv, Queued, Holds, Broadcasting
<1>6. QueueInv
  <2>1. Waiting = {}
    BY <1>2 DEF Waiting
  <2> QED
    BY <1>2, <2>1, FS_EmptySet DEF QueueInv
<1>7. SentInv
  <2>1. ASSUME NEW p \in Members, NEW m \in Tasks
        PROVE  Pending(m, p) /\ Count(sent[p], m) = 0
    <3>1. sent[p] = <<>>
      BY <1>0 DEF Init
    <3>2. {n \in DOMAIN sent[p] : sent[p][n] = m} = {}
      BY <3>1
    <3> QED
      BY <1>2, <3>2, FS_EmptySet DEF Pending, Pushed, Count
  <2> QED
    BY <2>1 DEF SentInv
<1> QED
  BY <1>3, <1>4, <1>5, <1>6, <1>7 DEF BroadcastParts

(* Every step, while no request is of another kind. *)
LEMMA BroadcastNext ==
    ASSUME BaseInv, BroadcastInv, [Next]_vars
    PROVE  BroadcastInv'
<1> SUFFICES ASSUME OnlyMulticasts' PROVE BroadcastParts'
  BY DEF BroadcastInv
<1>1. CASE \E t \in Tasks : TaskStep(t)
  <2>1. PICK t \in Tasks : TaskStep(t)
    BY <1>1
  <2>2. /\ BroadcastParts
        /\ \/ \E p \in Active : Accept(t, p, "multicast")
           \/ AcceptNothing(t) \/ HandleMulticast(t)
    BY <2>1, OnlyMoves DEF BroadcastInv
  <2> QED
    BY <2>2, BeginsBroadcast, PushBroadcast, PopBroadcast, NextBroadcast, SendBroadcast, LogBroadcast
       DEF HandleMulticast
<1>2. CASE \E x \in Makers : PeerCloses(x)
  <2>1. OnlyMulticasts
    BY <1>2 DEF OnlyMulticasts, PeerCloses
  <2> QED
    BY <1>2, <2>1, PeerBroadcast DEF BroadcastInv
<1>3. CASE UNCHANGED vars
  <2>0. UNCHANGED <<manager, mgr, net, msg_queue, pc, loc>>
    BY <1>3 DEF vars
  <2>1. BroadcastParts
    BY <2>0 DEF OnlyMulticasts, BroadcastInv
  <2>2. StillInv' /\ WalkInv' /\ QueueInv'
    BY <2>0, <2>1, StillFrame DEF BroadcastParts, WalkInv, Broadcasting, QueueInv, Waiting
  <2>3. TokenInv'
    BY <2>0, <2>1 DEF BroadcastParts, TokenInv, Queued, Pushed, Holds, Broadcasting
  <2>4. SentInv'
    BY <2>0, <2>1 DEF BroadcastParts, SentInv, Pending, Queued, Pushed, Holds, Owes, Broadcasting, net
  <2> QED
    BY <2>2, <2>3, <2>4 DEF BroadcastParts
<1> QED
  BY <1>1, <1>2, <1>3 DEF Next, TaskStep

(* When every task has ended no message is left on its way. *)
LEMMA BroadcastDelivers ==
    ASSUME BaseInv, BroadcastInv PROVE EveryMessageOnce
<1> SUFFICES ASSUME OnlyMulticasts, NEW p \in Members \ Quitters, NEW m \in Tasks
             PROVE  /\ Count(sent[p], m) <= 1
                    /\ Settled /\ loc[m].kind = "multicast" => Count(sent[p], m) = 1
  BY DEF EveryMessageOnce, OnlyMulticasts
<1>0. /\ Count(sent[p], m) = IF Pending(m, p) THEN 0 ELSE 1
      /\ QueueInv /\ msg_queue \in Seq(Tasks)
  BY TypeParts DEF BaseInv, MessageType, BroadcastInv, BroadcastParts, SentInv
<1>1. ASSUME Settled, loc[m].kind = "multicast"
      PROVE  ~Pending(m, p)
  <2>1. \A t \in Tasks : pc[t] \in {"idle", "done"}
    BY <1>1 DEF Settled, InProgress
  <2>2. pc[m] = "done"
    <3>1. LocalAt(m, pc[m], loc[m])
      BY DEF BaseInv, LocalInv
    <3> QED
      BY <1>1, <2>1, <3>1 DEF LocalAt, NoLocals
  <2>3. Waiting = {}
    BY <2>1 DEF Waiting
  <2>4. Len(msg_queue) = 0
    BY <1>0, <2>3, FS_EmptySet DEF QueueInv
  <2> QED
    BY <1>1, <2>1, <2>2, <2>4 DEF Pending, Pushed, Queued, Holds, Broadcasting
<1> QED
  BY <1>0, <1>1

(* While nobody joins or leaves, every multicast reaches every member that   *)
(* stays once, for any number of members and multicasts, whichever task      *)
(* takes which message from the queue (coordinator.cpp:199-201) and whoever  *)
(* has quit without a word (messenger_manager.cpp:31-44).                    *)
THEOREM EveryMessageOnceHolds == Spec => []EveryMessageOnce
<1>1. Init => BroadcastInv
  BY BroadcastInit DEF BroadcastInv
<1>2. BaseInv /\ BroadcastInv /\ [Next]_vars => BroadcastInv'
  BY BroadcastNext
<1>3. BaseInv /\ BroadcastInv => EveryMessageOnce
  BY BroadcastDelivers
<1> QED
  BY <1>1, <1>2, <1>3, BaseInvHolds, PTL DEF Spec

=============================================================================
