----------------------------- MODULE Ftp_proofs -----------------------------
(***************************************************************************)
(* Proofs about module Ftp, for any clients, files, chunks and number of   *)
(* commands: IdsAreAccounted and StopsSoon are invariants, and             *)
(* TransfersAreWhole is true of every step.                                *)
(*                                                                         *)
(* The invariants come first.  Neither needs the ids to be different: two  *)
(* commands may draw the same id.  What is needed is that an agent looks   *)
(* its id up between any two chunks it carries, so that the count of late  *)
(* chunks is bounded at each place of the code (Counted), and that a count *)
(* above zero means that the id is still missing (MissingId): an insertion *)
(* resets the counts.                                                      *)
(*                                                                         *)
(* The transfers follow, with an invariant of their own, WInv.  It follows *)
(* a file from its sender to its receiver: what has been received is the   *)
(* start of the file, the messages on their way are its next chunks, and   *)
(* the sender goes on behind them (Uploads, Downloads).  That nothing else *)
(* is among those messages is what a connection in step means: there is at *)
(* most one request or response on it, and one task uses it (OneTask,      *)
(* Asked, Answered).  A download that has ended but still cleans up might  *)
(* drop the chunks of the next one; in step it does not, because it is the *)
(* only task then and the next response is not taken before it has ended   *)
(* (Cleans).                                                               *)
(***************************************************************************)
EXTENDS Ftp, TLAPS, SequenceTheorems

(* The part of the type that the proofs need. *)
Types ==
    /\ alive \in BOOLEAN
    /\ apc \in [Clients -> AgentLabels]
    /\ late \in [Clients -> Nat]
    /\ terminated \in [Clients -> BOOLEAN]
    /\ DOMAIN cid = Clients /\ DOMAIN command = Clients /\ DOMAIN shell = Clients

(* A client that has not connected has no agent. *)
Unconnected(c) == shell[c] = "new" => apc[c] = "none"

(* Only gets and puts draw an id, and only puts receive chunks. *)
Handled(c) ==
    /\ apc[c] \in {"load", "store", "check", "take", "insert", "respond"} =>
          command[c] \in {"get", "put"}
    /\ apc[c] \in {"check_received", "receive", "clean", "write"} => command[c] = "put"

(* Where chunks have been carried since the id was removed, it is missing. *)
MissingId(c) == apc[c] \in Holding /\ late[c] > 0 => cid[c] \notin command_ids

(* How many chunks those can be, at each place of the code. *)
Counted(c) ==
    /\ apc[c] \notin Holding \cup {"ended"} => late[c] = 0
    /\ apc[c] \in {"respond", "open", "send"} => late[c] = 0
    /\ apc[c] \in {"check_sent", "check_received", "receive"} => late[c] <= 1
    /\ apc[c] = "receive" /\ ~terminated[c] => late[c] = 0
    /\ late[c] <= (IF command[c] = "put" THEN 2 ELSE 1)

AgentInv(c) == Unconnected(c) /\ Handled(c) /\ MissingId(c) /\ Counted(c)

(* The inductive invariant. *)
IInv == Types /\ (\A c \in Clients : AgentInv(c)) /\ IdsAreAccounted

USE DEF server_vars, process, ids, handler, connection, client_vars

(* What the proofs know of client c. *)
Same(c) ==
    /\ apc'[c] = apc[c] /\ cid'[c] = cid[c] /\ command'[c] = command[c]
    /\ terminated'[c] = terminated[c] /\ late'[c] = late[c] /\ shell'[c] = shell[c]

(* Nothing has been asked for. *)
LEMMA InitInv == Init => IInv
  BY DEF Init, ServerInit, IInv, Types, AgentInv, Unconnected, Handled, MissingId, Counted,
         IdsAreAccounted, Holding, AgentLabels

(* A step that changes nothing the invariant speaks of. *)
LEMMA Frame ==
    ASSUME IInv, UNCHANGED <<alive, apc, cid, command, terminated, late, shell>>,
           command_ids' \subseteq command_ids
    PROVE  IInv'
  BY DEF IInv, Types, AgentInv, Unconnected, Handled, MissingId, Counted, IdsAreAccounted,
         Holding

(* A step of one client or its agent, after which no id is left behind. *)
LEMMA Local ==
    ASSUME IInv, Types', NEW c \in Clients,
           \A d \in Clients \ {c} : Same(d),
           AgentInv(c)', alive' = alive, command_ids' \subseteq command_ids,
           \/ apc[c] \notin Holding
           \/ apc'[c] \in Holding /\ cid'[c] = cid[c]
           \/ cid[c] \notin command_ids'
    PROVE  IInv'
<1>1. ASSUME NEW d \in Clients PROVE AgentInv(d)'
  <2>1. CASE d = c
    BY <2>1
  <2>2. CASE d # c
    BY <2>2 DEF IInv, Same, AgentInv, Unconnected, Handled, MissingId, Counted
  <2>. QED
    BY <2>1, <2>2
<1>2. ASSUME alive', NEW x \in command_ids'
      PROVE  \E d \in Clients : apc'[d] \in Holding /\ x = cid'[d]
  <2>1. PICK d \in Clients : apc[d] \in Holding /\ x = cid[d]
    BY <1>2 DEF IInv, IdsAreAccounted
  <2>. QED
    BY <1>2, <2>1 DEF Same
<1>3. IdsAreAccounted'
  BY <1>2 DEF IdsAreAccounted, Holding
<1>. QED
  BY <1>1, <1>3 DEF IInv

(* A step that the process does not survive. *)
LEMMA CrashStep ==
    ASSUME IInv, Crash, NEW c \in Clients, apc[c] # "none",
           UNCHANGED <<cid, terminated, shell>>, DOMAIN command' = Clients,
           late' \in [Clients -> Nat], late'[c] <= (IF command'[c] = "put" THEN 2 ELSE 1),
           \A d \in Clients \ {c} : late'[d] = late[d] /\ command'[d] = command[d]
    PROVE  IInv'
<1>1. Types'
  BY DEF Crash, IInv, Types, AgentLabels
<1>2. ASSUME NEW d \in Clients PROVE AgentInv(d)'
  <2>1. apc'[d] \in {"none", "ended"} /\ (apc'[d] = "none" <=> apc[d] = "none")
    BY DEF Crash
  <2>2. /\ late'[d] <= (IF command'[d] = "put" THEN 2 ELSE 1)
        /\ apc[d] = "none" => late'[d] = 0
    BY DEF IInv, AgentInv, Counted, Holding
  <2>. QED
    BY <2>1, <2>2 DEF IInv, AgentInv, Unconnected, Handled, MissingId, Counted, Holding
<1>. QED
  BY <1>1, <1>2 DEF Crash, IInv, IdsAreAccounted

(* An agent goes on to another place while it holds no id, or keeps it.  The *)
(* new place asks for nothing that the old one has not.                      *)
LEMMA MoveStep ==
    ASSUME IInv, NEW c \in Clients, NEW label \in AgentLabels, Goto(c, label),
           UNCHANGED <<cid, command, terminated, late, shell, command_ids>>,
           apc[c] \in Holding => label \in Holding,
           shell[c] # "new",
           Handled(c)', MissingId(c)', Counted(c)'
    PROVE  IInv'
<1>1. Types'
  BY DEF Goto, IInv, Types
<1>2. AgentInv(c)'
  BY DEF AgentInv, Unconnected
<1>3. \A d \in Clients \ {c} : Same(d)
  BY DEF Goto, IInv, Types, Same
<1>4. apc'[c] = label /\ alive' = alive
  BY DEF Goto, IInv, Types
<1>. QED
  BY <1>1, <1>2, <1>3, <1>4, Local

-----------------------------------------------------------------------------
(* The steps of an agent and the termination port. *)

LEMMA Connected ==
    ASSUME IInv, NEW c \in Clients, apc[c] # "none" PROVE shell[c] # "new"
  BY DEF IInv, AgentInv, Unconnected

(* NPortTask::Listen(). *)
LEMMA NPortStep ==
    ASSUME IInv, NEW c \in Clients, NPortListen(c), UNCHANGED client_vars PROVE IInv'
<1>1. CASE Goto(c, "read")
  <2>1. apc'[c] = "read" /\ UNCHANGED handler /\ apc[c] \notin Holding
    BY <1>1 DEF NPortListen, Goto, IInv, Types, Holding
  <2>2. Handled(c)' /\ MissingId(c)' /\ Counted(c)'
    BY <2>1 DEF NPortListen, IInv, AgentInv, Handled, MissingId, Counted, Holding
  <2>. QED
    BY <1>1, <2>1, <2>2, Connected, MoveStep DEF NPortListen, AgentLabels
<1>2. CASE UNCHANGED <<alive, apc>>
  BY <1>2, Frame DEF NPortListen
<1>. QED
  BY <1>1, <1>2 DEF NPortListen

(* HandleRequest(TerminateRequest). *)
LEMMA TerminateStep ==
    ASSUME IInv, NEW t, Terminate(t), UNCHANGED client_vars PROVE IInv'
  BY Frame DEF Terminate, Deleted

(* Agent::ReadNextMessage(). *)
LEMMA ReadStep ==
    ASSUME IInv, NEW c \in Clients, ReadNextMessage(c), UNCHANGED client_vars PROVE IInv'
<1>1. /\ UNCHANGED <<cid, terminated, late, shell, command_ids, alive>>
      /\ apc[c] = "read" /\ apc[c] \notin Holding /\ late[c] = 0
  BY DEF ReadNextMessage, Dispatch, Goto, IInv, AgentInv, Counted, Holding
<1>2. ASSUME NEW label \in {"load", "ended", "del", "other"}, Goto(c, label),
             DOMAIN command' = Clients, \A d \in Clients \ {c} : command'[d] = command[d],
             label = "load" => command'[c] \in {"get", "put"}
      PROVE  IInv'
  <2>1. apc'[c] = label /\ shell[c] # "new"
    BY <1>1, <1>2, Connected DEF Goto, IInv, Types
  <2>2. Types' /\ \A d \in Clients \ {c} : Same(d)
    BY <1>1, <1>2 DEF Goto, IInv, Types, Same, AgentLabels
  <2>3. AgentInv(c)'
    BY <1>1, <1>2, <2>1 DEF AgentInv, Unconnected, Handled, MissingId, Counted, Holding
  <2>. QED
    BY <1>1, <2>2, <2>3, Local
<1>3. ASSUME NEW m, Dispatch(c, m) PROVE IInv'
  BY <1>2, <1>3 DEF Dispatch, IInv, Types
<1>4. CASE Goto(c, "ended") /\ UNCHANGED command
  BY <1>2, <1>4 DEF IInv, Types
<1>. QED
  BY <1>3, <1>4 DEF ReadNextMessage

(* CommandIDs::GenerateID(). *)
LEMMA GenerateStep ==
    ASSUME IInv, NEW c \in Clients,
           GenerateLoad(c) \/ GenerateStore(c) \/ GenerateCheck(c) \/ GenerateTake(c),
           UNCHANGED client_vars
    PROVE  IInv'
<1>1. PICK label \in {"load", "store", "check", "take", "insert"} : Goto(c, label)
  BY DEF GenerateLoad, GenerateStore, GenerateCheck, GenerateTake
<1>2. /\ UNCHANGED <<command, terminated, late, shell, command_ids, alive>>
      /\ apc[c] \in {"load", "store", "check", "take"} /\ apc[c] \notin Holding
      /\ \E id : cid' = [cid EXCEPT ![c] = id] \/ cid' = cid
  BY <1>1 DEF GenerateLoad, GenerateStore, GenerateCheck, GenerateTake, Goto, Holding
<1>3. late[c] = 0 /\ command[c] \in {"get", "put"} /\ shell[c] # "new" /\ apc'[c] = label
  BY <1>1, <1>2, Connected DEF Goto, IInv, Types, AgentInv, Handled, Counted, Holding
<1>4. Types' /\ \A d \in Clients \ {c} : Same(d)
  BY <1>1, <1>2 DEF Goto, IInv, Types, Same, AgentLabels
<1>5. AgentInv(c)'
  BY <1>2, <1>3 DEF AgentInv, Unconnected, Handled, MissingId, Counted, Holding
<1>. QED
  BY <1>2, <1>4, <1>5, Local

(* CommandIDs::Insert(): a command with the same id counts anew. *)
LEMMA InsertStep ==
    ASSUME IInv, NEW c \in Clients, Insert(c), UNCHANGED client_vars PROVE IInv'
<1>1. /\ UNCHANGED <<cid, command, terminated, shell, alive>>
      /\ apc' = [apc EXCEPT ![c] = "respond"] /\ apc[c] = "insert"
      /\ command_ids' = command_ids \cup {cid[c]}
      /\ late' = [d \in Clients |-> IF cid[d] = cid[c] THEN 0 ELSE late[d]]
  BY DEF Insert, Goto
<1>2. Types'
  BY <1>1 DEF IInv, Types, AgentLabels, Holding
<1>3. ASSUME NEW d \in Clients PROVE AgentInv(d)'
  <2>1. late'[d] \in Nat /\ late'[d] <= late[d] /\ late[d] \in Nat
    BY <1>1 DEF IInv, Types
  <2>2. CASE d = c
    <3>1. apc'[d] = "respond" /\ late'[d] = 0 /\ shell[d] # "new" /\ command[d] \in {"get", "put"}
      BY <1>1, <2>2, Connected DEF IInv, Types, AgentInv, Handled
    <3>. QED
      BY <1>1, <3>1 DEF AgentInv, Unconnected, Handled, MissingId, Counted, Holding
  <2>3. CASE d # c
    <3>1. apc'[d] = apc[d]
      BY <1>1, <2>3 DEF IInv, Types
    <3>2. Unconnected(d)' /\ Handled(d)' /\ Counted(d)'
      BY <1>1, <2>1, <3>1 DEF IInv, AgentInv, Unconnected, Handled, Counted
    <3>3. MissingId(d)'
      BY <1>1, <2>1, <3>1 DEF IInv, AgentInv, MissingId
    <3>. QED
      BY <3>2, <3>3 DEF AgentInv
  <2>. QED
    BY <2>2, <2>3
<1>4. IdsAreAccounted'
  <2>1. \A d \in Clients : apc[d] \in Holding => apc'[d] \in Holding
    BY <1>1 DEF IInv, Types, Holding
  <2>2. apc'[c] \in Holding
    BY <1>1 DEF IInv, Types, Holding
  <2>. QED
    BY <1>1, <2>1, <2>2 DEF IInv, IdsAreAccounted
<1>. QED
  BY <1>2, <1>3, <1>4 DEF IInv

(* What send() does to the agent. *)
LEMMA SendOutcome ==
    ASSUME NEW c, NEW m, NEW sent, NEW failed, Send(c, m, sent, failed)
    PROVE  Goto(c, sent) \/ Goto(c, failed) \/ Crash
  BY DEF Send

(* SendResponse() of a get or a put. *)
LEMMA RespondStep ==
    ASSUME IInv, NEW c \in Clients, RespondWithId(c), UNCHANGED client_vars PROVE IInv'
<1>1. /\ UNCHANGED <<cid, command, terminated, late, shell, command_ids>>
      /\ apc[c] = "respond" /\ late[c] = 0 /\ command[c] \in {"get", "put"}
      /\ shell[c] # "new"
  BY Connected DEF RespondWithId, IInv, AgentInv, Handled, Counted
<1>2. DEFINE next == IF command[c] = "get" THEN "open" ELSE "check_received"
<1>3. CASE Goto(c, next)
  <2>1. apc'[c] = next
    BY <1>3 DEF Goto, IInv, Types
  <2>2. Handled(c)' /\ MissingId(c)' /\ Counted(c)'
    BY <1>1, <2>1 DEF Handled, MissingId, Counted, Holding
  <2>. QED
    BY <1>1, <1>3, <2>2, MoveStep DEF AgentLabels, Holding
<1>4. CASE Crash
  BY <1>1, <1>4, CrashStep DEF IInv, Types
<1>. QED
  BY <1>3, <1>4, SendOutcome DEF RespondWithId

(* FileHandler::Get() and SetFileContents(). *)
LEMMA OpenStep ==
    ASSUME IInv, NEW c \in Clients, OpenFile(c), UNCHANGED client_vars PROVE IInv'
<1>1. /\ UNCHANGED <<cid, command, terminated, late, shell, command_ids>>
      /\ apc[c] = "open" /\ late[c] = 0 /\ shell[c] # "new"
  BY Connected DEF OpenFile, IInv, AgentInv, Counted
<1>2. ASSUME NEW label \in {"send", "delete"}, Goto(c, label) PROVE IInv'
  <2>1. apc'[c] = label
    BY <1>2 DEF Goto, IInv, Types
  <2>2. Handled(c)' /\ MissingId(c)' /\ Counted(c)'
    BY <1>1, <2>1 DEF Handled, MissingId, Counted, Holding
  <2>. QED
    BY <1>1, <1>2, <2>2, MoveStep DEF AgentLabels, Holding
<1>3. CASE Crash
  BY <1>1, <1>3, CrashStep DEF IInv, Types
<1>. QED
  BY <1>2, <1>3 DEF OpenFile, SendLabel

(* Carrying a chunk adds at most one to the count, none if the id is active. *)
LEMMA CarriedOne ==
    ASSUME IInv, NEW c \in Clients, Carried(c)
    PROVE  /\ late' \in [Clients -> Nat]
           /\ \A d \in Clients \ {c} : late'[d] = late[d]
           /\ late'[c] = 0 \/ (late'[c] = late[c] + 1 /\ cid[c] \notin command_ids)
  BY DEF Carried, IInv, Types

(* SendNextChunk(): sending starts with a count of zero. *)
LEMMA SendStep ==
    ASSUME IInv, NEW c \in Clients, SendChunk(c), UNCHANGED client_vars PROVE IInv'
<1>1. /\ UNCHANGED <<cid, command, terminated, shell, command_ids>>
      /\ apc[c] = "send" /\ late[c] = 0 /\ shell[c] # "new"
  BY Connected DEF SendChunk, IInv, AgentInv, Counted
<1>2. /\ late' \in [Clients -> Nat]
      /\ \A d \in Clients \ {c} : late'[d] = late[d]
      /\ late'[c] = 0 \/ (late'[c] = 1 /\ cid[c] \notin command_ids)
  BY <1>1, CarriedOne DEF SendChunk
<1>3. ASSUME NEW label \in {"check_sent", "abort"}, Goto(c, label) PROVE IInv'
  <2>1. apc'[c] = label /\ alive' = alive
    BY <1>3 DEF Goto, IInv, Types
  <2>2. Types' /\ \A d \in Clients \ {c} : Same(d)
    BY <1>1, <1>2, <1>3 DEF Goto, IInv, Types, Same, AgentLabels, Holding
  <2>3. AgentInv(c)'
    BY <1>1, <1>2, <2>1 DEF AgentInv, Unconnected, Handled, MissingId, Counted, Holding
  <2>. QED
    BY <1>1, <2>1, <2>2, <2>3, Local DEF Holding
<1>4. CASE Crash
  BY <1>1, <1>2, <1>4, CrashStep DEF IInv, Types
<1>. QED
  BY <1>3, <1>4, SendOutcome DEF SendChunk, AfterFailedSend

(* The id is looked up between two chunks: the next one is sent only if it  *)
(* is active.                                                               *)
LEMMA CheckSentStep ==
    ASSUME IInv, NEW c \in Clients, CheckSent(c), UNCHANGED client_vars PROVE IInv'
<1>1. /\ UNCHANGED <<cid, command, terminated, late, shell, command_ids>>
      /\ apc[c] = "check_sent" /\ late[c] <= 1 /\ shell[c] # "new"
      /\ late[c] \in Nat /\ (late[c] > 0 => cid[c] \notin command_ids)
  BY Connected DEF CheckSent, IInv, Types, AgentInv, Counted, MissingId, Holding
<1>2. PICK label \in {"send", "delete"} : Goto(c, label) /\ (label = "send" => late[c] = 0)
  BY <1>1 DEF CheckSent, SendLabel, IsTerminated
<1>3. apc'[c] = label
  BY <1>2 DEF Goto, IInv, Types
<1>4. Handled(c)' /\ MissingId(c)' /\ Counted(c)'
  BY <1>1, <1>2, <1>3 DEF Handled, MissingId, Counted, Holding
<1>. QED
  BY <1>1, <1>2, <1>4, MoveStep DEF AgentLabels, Holding

(* The same in ReadFileContents(), which remembers the result. *)
LEMMA CheckReceivedStep ==
    ASSUME IInv, NEW c \in Clients, CheckReceived(c), UNCHANGED client_vars PROVE IInv'
<1>1. /\ UNCHANGED <<cid, command, late, shell, command_ids, alive>>
      /\ apc[c] = "check_received" /\ late[c] <= 1 /\ shell[c] # "new" /\ command[c] = "put"
      /\ late[c] \in Nat /\ (late[c] > 0 => cid[c] \notin command_ids)
      /\ apc' = [apc EXCEPT ![c] = "receive"]
  BY Connected DEF CheckReceived, Goto, IInv, Types, AgentInv, Handled, Counted, MissingId, Holding
<1>2. terminated' \in [Clients -> BOOLEAN] /\ terminated'[c] = (cid[c] \notin command_ids)
      /\ \A d \in Clients \ {c} : terminated'[d] = terminated[d]
  BY DEF CheckReceived, IsTerminated, IInv, Types
<1>3. Types' /\ \A d \in Clients \ {c} : Same(d)
  BY <1>1, <1>2 DEF IInv, Types, Same, AgentLabels, Holding
<1>4. apc'[c] = "receive"
  BY <1>1 DEF IInv, Types
<1>5. AgentInv(c)'
  BY <1>1, <1>2, <1>4 DEF AgentInv, Unconnected, Handled, MissingId, Counted, Holding
<1>. QED
  BY <1>1, <1>3, <1>4, <1>5, Local DEF Holding

(* ReceiveNextChunk(): a chunk that follows a lookup without the id is the  *)
(* last one.                                                                *)
LEMMA ReceiveStep ==
    ASSUME IInv, NEW c \in Clients, ReceiveChunk(c), UNCHANGED client_vars PROVE IInv'
<1>1. /\ UNCHANGED <<cid, command, shell, command_ids>>
      /\ apc[c] = "receive" /\ late[c] \in Nat /\ late[c] <= 1 /\ shell[c] # "new"
      /\ command[c] = "put" /\ (~terminated[c] => late[c] = 0)
      /\ late[c] > 0 => cid[c] \notin command_ids
  BY Connected
     DEF ReceiveChunk, IInv, Types, AgentInv, Handled, Counted, MissingId, Holding
<1>2. ASSUME NEW label \in {"check_received", "clean", "write"}, Goto(c, label),
             late' \in [Clients -> Nat],
             \A d \in Clients \ {c} : late'[d] = late[d],
             late'[c] <= 2, label = "check_received" => late'[c] <= 1,
             late'[c] > 0 => cid[c] \notin command_ids
      PROVE  IInv'
  <2>1. apc'[c] = label /\ alive' = alive
    BY <1>2 DEF Goto, IInv, Types
  <2>2. /\ terminated' \in [Clients -> BOOLEAN]
        /\ \A d \in Clients \ {c} : terminated'[d] = terminated[d]
    BY DEF ReceiveChunk, IInv, Types
  <2>3. Types' /\ \A d \in Clients \ {c} : Same(d)
    BY <1>1, <1>2, <2>2 DEF Goto, IInv, Types, Same, AgentLabels, Holding
  <2>4. AgentInv(c)'
    BY <1>1, <1>2, <2>1 DEF AgentInv, Unconnected, Handled, MissingId, Counted, Holding
  <2>. QED
    BY <1>1, <2>1, <2>3, <2>4, Local DEF Holding
<1>3. ASSUME NEW m, NEW behind, TakeChunk(c, m, behind), Carried(c) PROVE IInv'
  <2>1. PICK label \in {"check_received", "clean", "write"} :
           Goto(c, label) /\ (terminated[c] => label # "check_received")
    BY <1>3 DEF TakeChunk
  <2>2. /\ late' \in [Clients -> Nat]
        /\ \A d \in Clients \ {c} : late'[d] = late[d]
        /\ late'[c] = 0 \/ (late'[c] = late[c] + 1 /\ cid[c] \notin command_ids)
    BY <1>3, CarriedOne
  <2>. QED
    BY <1>1, <1>2, <2>1, <2>2
<1>4. CASE Goto(c, "write") /\ UNCHANGED late
  <2>1. late \in [Clients -> Nat]
    BY DEF IInv, Types
  <2>. QED
    BY <1>1, <1>2, <1>4, <2>1
<1>. QED
  BY <1>3, <1>4 DEF ReceiveChunk

(* CleanUp(): nothing that is counted. *)
LEMMA CleanStep ==
    ASSUME IInv, NEW c \in Clients, CleanUp(c), UNCHANGED client_vars PROVE IInv'
<1>1. /\ UNCHANGED <<cid, command, terminated, late, shell, command_ids>>
      /\ apc[c] = "clean" /\ shell[c] # "new"
  BY Connected DEF CleanUp
<1>2. PICK label \in {"clean", "write"} : Goto(c, label)
  BY DEF CleanUp
<1>3. apc'[c] = label
  BY <1>2 DEF Goto, IInv, Types
<1>4. Handled(c)' /\ MissingId(c)' /\ Counted(c)'
  BY <1>1, <1>3 DEF IInv, AgentInv, Handled, MissingId, Counted, Holding
<1>. QED
  BY <1>1, <1>2, <1>4, MoveStep DEF AgentLabels, Holding

(* FileHandler::Put(). *)
LEMMA WriteStep ==
    ASSUME IInv, NEW c \in Clients, WriteFile(c), UNCHANGED client_vars PROVE IInv'
<1>1. /\ UNCHANGED <<cid, command, terminated, late, shell, command_ids>>
      /\ apc[c] = "write" /\ shell[c] # "new" /\ Goto(c, "delete")
  BY Connected DEF WriteFile
<1>2. apc'[c] = "delete"
  BY <1>1 DEF Goto, IInv, Types
<1>3. Handled(c)' /\ MissingId(c)' /\ Counted(c)'
  BY <1>1, <1>2 DEF IInv, AgentInv, Handled, MissingId, Counted, Holding
<1>. QED
  BY <1>1, <1>3, MoveStep DEF AgentLabels, Holding

(* Delete(): whichever way a command has ended, its id goes. *)
LEMMA EndStep ==
    ASSUME IInv, NEW c \in Clients, EndCommand(c), UNCHANGED client_vars PROVE IInv'
<1>1. PICK label \in {"read", "ended"} : Goto(c, label)
  BY DEF EndCommand
<1>2. /\ UNCHANGED <<terminated, shell>> /\ shell[c] # "new" /\ alive' = alive
      /\ command_ids' = command_ids \ {cid[c]}
      /\ cid' = [cid EXCEPT ![c] = 0] /\ command' = [command EXCEPT ![c] = "other"]
      /\ late' = [late EXCEPT ![c] = 0]
  BY <1>1, Connected DEF EndCommand, Forget, Deleted, Goto
<1>3. apc'[c] = label /\ late'[c] = 0
  BY <1>1, <1>2 DEF Goto, IInv, Types
<1>4. Types' /\ \A d \in Clients \ {c} : Same(d)
  BY <1>1, <1>2 DEF Goto, IInv, Types, Same, AgentLabels
<1>5. AgentInv(c)'
  BY <1>2, <1>3 DEF AgentInv, Unconnected, Handled, MissingId, Counted, Holding
<1>. QED
  BY <1>2, <1>4, <1>5, Local

(* The requests that are answered at once hold no id. *)
LEMMA OtherStep ==
    ASSUME IInv, NEW c \in Clients, HandleDelete(c) \/ HandleOther(c) \/ Reply(c),
           UNCHANGED client_vars
    PROVE  IInv'
<1>1. /\ UNCHANGED <<cid, terminated, late, shell, command_ids>> /\ shell[c] # "new"
      /\ apc[c] \in {"del", "other", "reply"} /\ apc[c] \notin Holding /\ late[c] = 0
  BY Connected
     DEF HandleDelete, HandleOther, Reply, Forget, Holding, IInv, AgentInv, Counted
<1>2. DOMAIN command' = Clients /\ \A d \in Clients \ {c} : command'[d] = command[d]
  BY DEF HandleDelete, HandleOther, Reply, Forget, IInv, Types
<1>3. ASSUME NEW label \in {"read", "reply", "ended"}, Goto(c, label) PROVE IInv'
  <2>1. apc'[c] = label /\ alive' = alive
    BY <1>3 DEF Goto, IInv, Types
  <2>2. Types' /\ \A d \in Clients \ {c} : Same(d)
    BY <1>1, <1>2, <1>3 DEF Goto, IInv, Types, Same, AgentLabels
  <2>3. AgentInv(c)'
    BY <1>1, <2>1 DEF AgentInv, Unconnected, Handled, MissingId, Counted, Holding
  <2>. QED
    BY <1>1, <2>1, <2>2, <2>3, Local
<1>4. CASE Crash
  BY <1>1, <1>2, <1>4, CrashStep DEF IInv, Types
<1>. QED
  BY <1>3, <1>4, SendOutcome DEF HandleDelete, HandleOther, Reply

(* The steps of the agents. *)
LEMMA AgentStep ==
    ASSUME IInv, NEW c \in Clients, Agent(c), UNCHANGED client_vars PROVE IInv'
  BY ReadStep, GenerateStep, InsertStep, RespondStep, OpenStep, SendStep, CheckSentStep,
     CheckReceivedStep, ReceiveStep, CleanStep, WriteStep, EndStep, OtherStep
     DEF Agent, GenerateID

-----------------------------------------------------------------------------
(* The steps of a client. *)

(* Client::Connect() gives the client an agent. *)
LEMMA ConnectStep == ASSUME IInv, NEW c \in Clients, Connect(c) PROVE IInv'
<1>1. /\ UNCHANGED <<alive, cid, command, terminated, late, command_ids>>
      /\ shell' = [shell EXCEPT ![c] = "prompt"] /\ apc' = [apc EXCEPT ![c] = "pending"]
      /\ apc[c] = "none" /\ apc[c] \notin Holding /\ late[c] = 0
  BY DEF Connect, IInv, AgentInv, Unconnected, Counted, Holding
<1>2. Types' /\ \A d \in Clients \ {c} : Same(d)
  BY <1>1 DEF IInv, Types, Same, AgentLabels
<1>3. apc'[c] = "pending" /\ shell'[c] = "prompt"
  BY <1>1 DEF IInv, Types
<1>4. AgentInv(c)'
  BY <1>1, <1>3 DEF AgentInv, Unconnected, Handled, MissingId, Counted, Holding
<1>. QED
  BY <1>1, <1>2, <1>4, Local

(* Everything else a client does leaves the agents and the ids alone. *)
LEMMA ShellChange ==
    ASSUME IInv, NEW c \in Clients,
           UNCHANGED <<alive, apc, cid, command, terminated, late, command_ids>>,
           DOMAIN shell' = Clients, shell'[c] = "new" => shell[c] = "new",
           \A d \in Clients \ {c} : shell'[d] = shell[d]
    PROVE  IInv'
<1>1. Types' /\ \A d \in Clients : AgentInv(d)'
  BY DEF IInv, Types, AgentInv, Unconnected, Handled, MissingId, Counted, Holding
<1>. QED
  BY <1>1 DEF IInv, IdsAreAccounted, Holding

(* A client sends to its agent. *)
LEMMA SendsStep ==
    ASSUME IInv, NEW c \in Clients, NEW m, NEW next,
           next # "new" \/ next = shell[c], SendToAgent(c, m, next),
           UNCHANGED <<alive, apc, cid, command, terminated, late, command_ids>>
    PROVE  IInv'
<1>1. \E s : shell' = [shell EXCEPT ![c] = s] /\ (s = "new" => shell[c] = "new")
  BY DEF SendToAgent, Leave
<1>. QED
  BY <1>1, ShellChange DEF IInv, Types

(* The steps of a client. *)
LEMMA ClientStep ==
    ASSUME IInv, NEW c \in Clients,
           TypeRequest(c) \/ TypeTerminate(c) \/ TypeQuit(c) \/ Shell(c) \/ RunTask(c)
    PROVE  IInv'
<1>1. UNCHANGED <<alive, apc, cid, command, terminated, late, command_ids>>
  BY DEF TypeRequest, TypeTerminate, TypeQuit, Shell, WaitForMessage, TaskCompleted, RunTask,
         UploadRun, DownloadRun, DownloadCleanUp
<1>2. CASE TypeRequest(c)
  BY <1>1, <1>2, SendsStep DEF TypeRequest
<1>3. CASE TypeTerminate(c)
  BY <1>1, <1>3, ShellChange DEF TypeTerminate, IInv, Types
<1>4. CASE TypeQuit(c)
  BY <1>1, <1>4, ShellChange DEF TypeQuit, Leave, IInv, Types
<1>5. CASE WaitForMessage(c)
  BY <1>1, <1>5, ShellChange DEF WaitForMessage, AfterResponse, IInv, Types
<1>6. CASE TaskCompleted(c)
  BY <1>1, <1>6, ShellChange DEF TaskCompleted, IInv, Types
<1>7. ASSUME NEW i \in 1..Len(tasks[c]), UploadRun(c, i) PROVE IInv'
  <2>1. CASE UNCHANGED shell
    BY <1>1, <2>1, Frame
  <2>2. CASE SendToAgent(c, NextChunk(tasks[c][i].socket), shell[c])
    BY <1>1, <2>2, SendsStep
  <2>. QED
    BY <1>7, <2>1, <2>2 DEF UploadRun
<1>8. ASSUME NEW i \in 1..Len(tasks[c]), DownloadRun(c, i) \/ DownloadCleanUp(c, i) PROVE IInv'
  BY <1>1, <1>8, Frame DEF DownloadRun, DownloadCleanUp
<1>. QED
  BY <1>2, <1>3, <1>4, <1>5, <1>6, <1>7, <1>8 DEF Shell, RunTask

-----------------------------------------------------------------------------
(* The invariant is inductive. *)
THEOREM IInvHolds == Spec => []IInv
<1>1. IInv /\ [Next]_vars => IInv'
  <2>. SUFFICES ASSUME IInv, [Next]_vars PROVE IInv'
    OBVIOUS
  <2>1. CASE UNCHANGED vars
    BY <2>1, Frame DEF vars
  <2>2. CASE Next
    BY <2>2, NPortStep, AgentStep, TerminateStep, ConnectStep, ClientStep DEF Next, Server
  <2>. QED
    BY <2>1, <2>2
<1>. QED
  BY InitInv, <1>1, PTL DEF Spec

(* No way out of a handler leaves an id in CommandIDs behind               *)
(* (agent.cpp:213-258), for any number of clients and any number of ids.   *)
THEOREM IdsAreAccountedHolds == Spec => []IdsAreAccounted
<1>1. IInv => IdsAreAccounted
  BY DEF IInv
<1>. QED
  BY IInvHolds, <1>1, PTL

(* The transfer of a command whose id is removed carries at most one chunk   *)
(* more, or two if it is a put, however long the files are (agent.cpp:64 and *)
(* 198); what CleanUp() then reads and drops does not count.                 *)
THEOREM StopsSoonHolds == Spec => []StopsSoon
<1>1. IInv => StopsSoon
  BY DEF IInv, AgentInv, Counted, StopsSoon
<1>. QED
  BY IInvHolds, <1>1, PTL

-----------------------------------------------------------------------------
(* Transfers.  What a file on its way looks like.                            *)

(* A piece of a file, or one that a message read as another kind shows. *)
Pieces == Piece \cup {Header, Noise}

FileData == Seq(Pieces)

(* The messages of each kind. *)
Kinds == {"get", "put", "del", "other", "none"}
RequestMessage == [type : {"request"}, kind : Kinds, file : Files \cup {NoFile}]
ResponseMessage == [type : {"response"}, kind : Kinds, id : Nat]
ContentsMessage == [type : {"contents"}, data : FileData, last : BOOLEAN]
ToAgent == RequestMessage \cup ContentsMessage
ToClient == ResponseMessage \cup ContentsMessage

SenderType == [file_contents : FileData, total_sent : Nat]
ReceiverType(M) == [parser : Seq(M), file_contents : FileData, complete_file : BOOLEAN]

(* The chunk of file f that starts behind its first k pieces. *)
Chunk(f, k) == NextChunk([file_contents |-> f, total_sent |-> k])

(* Where the chunk that follows n others behind k pieces starts. *)
Behind(k, n) == k + n * ChunkSize

IsChunk(f, k, m) == k < Len(f) /\ m = Chunk(f, k)

(* The messages q are the chunks of f that follow its first k pieces. *)
Chunks(f, k, q) == \A i \in 1..Len(q) : IsChunk(f, Behind(k, i - 1), q[i])

(* A sender has sent as many pieces of its file as there are in the first n. *)
SentUpTo(s, n) == s.total_sent = IF n < Len(s.file_contents) THEN n ELSE Len(s.file_contents)

(* The first pieces of f. *)
IsStartOf(s, f) == Len(s) <= Len(f) /\ s = SubSeq(f, 1, Len(s))

ReceivingLabels == {"check_received", "receive"}
Unanswered == {"load", "store", "check", "take", "insert", "respond", "del", "other", "reply"}
SendingLabels == {"send", "check_sent"}

(* Where the agent can be once it has answered a get, and a put. *)
AfterGet == SendingLabels \cup {"open", "delete", "abort", "read", "ended"}
AfterPut == ReceivingLabels \cup {"ended"}
AfterOther == {"read", "ended"}

(* What the agent has not taken yet. *)
Up(c) ==
    (IF apc[c] \in ReceivingLabels THEN receiver[c].parser ELSE parser[c]) \o to_agent[c]

LastTask(c) == tasks[c][Len(tasks[c])]

GetRuns(c) == tasks[c] # <<>> /\ LastTask(c).kind = "get" /\ LastTask(c).status = "RUNNING"

AllContents(q) == \A i \in 1..Len(q) : q[i].type = "contents"

(* A client that has left has closed its end. *)
OpenEnd(c) ==
    /\ open[c] <=> shell[c] \in {"prompt", "response", "waiting"}
    /\ ~open[c] => to_client[c] = <<>>

(* Only downloads are cancelled (client.cpp:175). *)
CancelsGets(c) ==
    /\ get_task[c] # 0 => get_task[c] \in 1..Len(tasks[c]) /\ tasks[c][get_task[c]].kind = "get"
    /\ \A i \in 1..Len(tasks[c]) : tasks[c][i].kind = "put" => ~tasks[c][i].cancelled

(* Receivers and contents are local to the handler of a put. *)
LocalToPut(c) ==
    /\ apc[c] \notin ReceivingLabels \cup {"ended"} => receiver[c] = NewReceiver
    /\ apc[c] = "send" => ~SentCompleteFile(sender[c])
    /\ apc[c] \in {"del", "other", "reply"} => command[c] \in {"del", "other"}

(* One task at a time uses the connection, and none while the shell waits    *)
(* for a response.                                                           *)
OneTask(c) ==
    /\ \A i \in 1..Len(tasks[c]) : tasks[c][i].status = "RUNNING" => i = Len(tasks[c])
    /\ shell[c] = "response" => \A i \in 1..Len(tasks[c]) : tasks[c][i].status # "RUNNING"

(* The agent is reached by chunks, and by the request the shell waits for    *)
(* behind them, as long as nothing has answered it.                          *)
Asked(c) ==
    apc[c] # "ended" =>
       /\ apc[c] # "read" => parser[c] = <<>>
       /\ \A i \in 1..Len(Up(c)) :
             \/ Up(c)[i].type = "contents"
             \/ /\ Up(c)[i] = request[c] /\ i = Len(Up(c)) /\ shell[c] = "response"
                /\ apc[c] \notin Unanswered /\ AllContents(to_client[c])
       /\ apc[c] \in Unanswered =>
             /\ shell[c] = "response" /\ request[c].kind = command[c]
             /\ Up(c) = <<>> /\ AllContents(to_client[c])

(* The answer is alone, and what has been asked for goes on behind it. *)
Answered(c) ==
    \A p \in 1..Len(to_client[c]) :
       \/ to_client[c][p].type = "contents"
       \/ /\ shell[c] = "response"
          /\ \A i \in 1..Len(to_client[c]) : i # p => to_client[c][i].type = "contents"
          /\ apc[c] # "ended" => Up(c) = <<>>
          /\ apc[c] \in (CASE request[c].kind = "get" -> AfterGet
                           [] request[c].kind = "put" -> AfterPut
                           [] OTHER -> AfterOther)

GetAnswered(c) == GetRuns(c) => apc[c] \in AfterGet

(* An upload: what has been received, what is on its way and what is to be   *)
(* sent make up the file.                                                    *)
Uploads(c) ==
    LET f == Serialized(Source[c])
        r == receiver[c]
        k == Len(r.file_contents)
        t == LastTask(c)
    IN  /\ ~r.complete_file /\ k < Len(f) /\ IsStartOf(r.file_contents, f)
        /\ \A i \in 1..Len(Up(c)) :
              IF Up(c)[i].type = "contents" THEN IsChunk(f, Behind(k, i - 1), Up(c)[i])
              ELSE Behind(k, i - 1) >= Len(f)
        /\ \/ /\ shell[c] = "response" /\ request[c].kind = "put" /\ Up(c) = <<>>
              /\ r.file_contents = <<>>
           \/ /\ tasks[c] # <<>> /\ t.kind = "put"
              /\ shell[c] = "response" => Up(c) # <<>> /\ Up(c)[Len(Up(c))].type = "request"
              /\ t.status = "RUNNING" =>
                    t.socket.file_contents = f /\ SentUpTo(t.socket, Behind(k, Len(Up(c))))
              /\ t.status # "RUNNING" /\ open[c] /\ shell[c] # "response" =>
                    Behind(k, Len(Up(c))) >= Len(f)

(* The same for a download into receiver r, with the messages q to come.     *)
Downloads(c, r, q) ==
    LET k == Len(r.file_contents)
    IN  \E f \in WholeFiles \cap FileData :
           /\ IsStartOf(r.file_contents, f)
           /\ r.complete_file => k = Len(f)
           /\ Chunks(f, k, q)
           /\ apc[c] = "open" => k = 0 /\ q = <<>> /\ ~r.complete_file
           /\ apc[c] \in SendingLabels /\ open[c] =>
                 sender[c].file_contents = f /\ SentUpTo(sender[c], Behind(k, Len(q)))

AllInStep == \A c \in Clients : InStep(c)

(* A client whose connection has been used in step. *)
StepInv(c) ==
    InStep(c) =>
       /\ OneTask(c) /\ Asked(c) /\ Answered(c) /\ GetAnswered(c)
       /\ apc[c] \in ReceivingLabels => Uploads(c)
       /\ contents[c] \in WholeFiles

(* Files that are read again, if no connection has been used out of step. *)
WholeInv(c) ==
    AllInStep =>
       /\ GetRuns(c) => Downloads(c, LastTask(c).socket, LastTask(c).socket.parser \o to_client[c])
       /\ request[c].kind = "get" =>
             \A p \in 1..Len(to_client[c]) : to_client[c][p].type = "response" =>
                 Downloads(c, NewReceiver, SubSeq(to_client[c], p + 1, Len(to_client[c])))

(* A task; an upload that runs has a sender, a download a receiver. *)
TaskType ==
    [kind : {"put", "get"}, status : {"RUNNING", "DONE", "FAILED", "CANCELLED"},
     cancelled : BOOLEAN, cleaning : BOOLEAN, socket : SenderType \cup ReceiverType(ToClient)]

HasSocket(t) ==
    /\ t.kind = "put" /\ t.status = "RUNNING" => t.socket \in SenderType
    /\ t.kind = "get" => t.socket \in ReceiverType(ToClient)

(* The types of what a transfer goes through. *)
WTypes ==
    /\ command \in [Clients -> Kinds] /\ file \in [Clients -> Files \cup {NoFile}]
    /\ next_id \in Nat /\ cid \in [Clients -> Nat] /\ loaded \in [Clients -> Nat]
    /\ files \in [Files -> {Missing} \cup FileData]
    /\ sender \in [Clients -> SenderType] /\ receiver \in [Clients -> ReceiverType(ToAgent)]
    /\ contents \in [Clients -> FileData] /\ parser \in [Clients -> Seq(ToAgent)]
    /\ to_agent \in [Clients -> Seq(ToAgent)] /\ to_client \in [Clients -> Seq(ToClient)]
    /\ open \in [Clients -> BOOLEAN] /\ DOMAIN out_of_step = Clients /\ DOMAIN saved = Clients
    /\ request \in [Clients -> RequestMessage] /\ get_task \in [Clients -> Nat]
    /\ tasks \in [Clients -> Seq(TaskType)]
    /\ \A c \in Clients : \A i \in 1..Len(tasks[c]) : HasSocket(tasks[c][i])

FilesWhole == AllInStep => \A f \in Files : files[f] \in WholeFiles \cup {Missing}

ClientInv(c) == OpenEnd(c) /\ CancelsGets(c) /\ LocalToPut(c) /\ StepInv(c) /\ WholeInv(c)

(* The inductive invariant. *)
WInv == WTypes /\ (\A c \in Clients : ClientInv(c)) /\ FilesWhole
-----------------------------------------------------------------------------
(* Chunks. *)

(* The chunk that starts behind k pieces of f. *)
LEMMA ChunkFact ==
    ASSUME NEW f \in FileData, NEW k \in Nat, k < Len(f)
    PROVE  LET m == Chunk(f, k) e == k + Len(m.data)
           IN  /\ m \in ContentsMessage /\ m.type = "contents"
               /\ Len(m.data) \in Nat \ {0} /\ e <= Len(f)
               /\ e = Len(f) \/ e = k + ChunkSize
               /\ m.last <=> e = Len(f)
               /\ SubSeq(f, 1, k) \o m.data = SubSeq(f, 1, e)
<1> DEFINE end == IF k + ChunkSize < Len(f) THEN k + ChunkSize ELSE Len(f)
           d == SubSeq(f, k + 1, end)
           m == Chunk(f, k)
<1>1. /\ ChunkSize \in Nat \ {0} /\ Len(f) \in Nat /\ end \in Nat
      /\ end > k /\ end <= Len(f)
      /\ end = Len(f) \/ end = k + ChunkSize
      /\ k + ChunkSize >= Len(f) <=> end = Len(f)
  BY ChunkAssumption DEF FileData
<1>2. m = [type |-> "contents", data |-> d, last |-> k + ChunkSize >= Len(f)]
  BY DEF Chunk, NextChunk, FileContents
<1>3. d \in FileData /\ Len(d) = end - k
  BY <1>1 DEF FileData
<1>4. SubSeq(f, 1, k) \o d = SubSeq(f, 1, end)
  <2>1. 1 \in 1..Len(f)+1 /\ k \in 1-1..Len(f) /\ end \in k..Len(f)
    BY <1>1
  <2> HIDE DEF end
  <2>. QED
    BY <2>1, ConcatAdjacentSubSeq DEF FileData
<1> HIDE DEF end, d, m
<1>5. /\ m \in ContentsMessage /\ m.type = "contents" /\ m.data = d
      /\ m.last <=> end = Len(f)
  <2>1. (k + ChunkSize >= Len(f)) \in BOOLEAN
    OBVIOUS
  <2>2. /\ m \in ContentsMessage /\ m.type = "contents" /\ m.data = d
        /\ m.last = (k + ChunkSize >= Len(f))
    BY <1>2, <1>3, <2>1, Zenon DEF ContentsMessage
  <2>. QED
    BY <1>1, <2>2
<1>6. k + Len(m.data) = end /\ Len(m.data) \in Nat \ {0}
  BY <1>1, <1>3, <1>5
<1>. QED
  BY <1>1, <1>4, <1>5, <1>6 DEF m

(* Where the following chunks start. *)
LEMMA BehindFact ==
    ASSUME NEW k \in Nat, NEW n \in Nat
    PROVE  /\ Behind(k, n) \in Nat /\ Behind(k, 0) = k /\ Behind(k, n) >= k
           /\ Behind(k, n + 1) = Behind(k, n) + ChunkSize
           /\ Behind(k, n + 1) = Behind(k + ChunkSize, n)
<1>1. ChunkSize \in Nat \ {0}
  BY ChunkAssumption
<1>2. n * ChunkSize \in Nat /\ (n + 1) * ChunkSize = n * ChunkSize + ChunkSize
  BY <1>1
<1>. QED
  BY <1>1, <1>2 DEF Behind

(* From e on n chunks are what n + 1 chunks are from k on. *)
SameBehind(f, k, n, e) ==
    /\ \A x : IsChunk(f, Behind(k, n + 1), x) => IsChunk(f, Behind(e, n), x)
    /\ Behind(k, n + 1) >= Len(f) <=> Behind(e, n) >= Len(f)
    /\ \A s : Len(s.file_contents) = Len(f) /\ SentUpTo(s, Behind(k, n + 1))
                 => SentUpTo(s, Behind(e, n))

(* Behind the chunk at k everything is where it was. *)
LEMMA BehindChunk ==
    ASSUME NEW f \in FileData, NEW k \in Nat, k < Len(f), NEW n \in Nat,
           NEW e \in Nat, e = k + Len(Chunk(f, k).data)
    PROVE  SameBehind(f, k, n, e)
<1> USE DEF SameBehind
<1>1. e = Len(f) \/ e = k + ChunkSize
  BY ChunkFact
<1>2. /\ Behind(k, n + 1) = Behind(k + ChunkSize, n) /\ Behind(k, n + 1) \in Nat
      /\ Behind(e, n) \in Nat /\ Behind(e, n) >= e
      /\ Behind(k, n + 1) >= k + ChunkSize
  <2>1. k + ChunkSize \in Nat
    BY ChunkAssumption
  <2>. QED
    BY <2>1, BehindFact, ZenonT(40)
<1>3. CASE e = k + ChunkSize
  BY <1>2, <1>3
<1>4. CASE e # k + ChunkSize
  <2>1. e = Len(f) /\ k + ChunkSize >= Len(f)
    BY <1>1, <1>4, ChunkAssumption DEF Chunk, NextChunk, FileContents, FileData
  <2>2. Behind(k, n + 1) >= Len(f) /\ Behind(e, n) >= Len(f) /\ Len(f) \in Nat
    BY <1>2, <2>1, ChunkAssumption
  <2>. QED
    BY <1>2, <2>2 DEF IsChunk, SentUpTo
<1>. QED
  BY <1>3, <1>4

(* What a sender sends next is the chunk that comes next. *)
LEMMA NextChunkFact ==
    ASSUME NEW s \in SenderType, NEW k \in Nat, NEW n \in Nat,
           ~SentCompleteFile(s), SentUpTo(s, Behind(k, n))
    PROVE  /\ IsChunk(s.file_contents, Behind(k, n), NextChunk(s))
           /\ Behind(k, n) < Len(s.file_contents)
           /\ AfterChunk(s).file_contents = s.file_contents
           /\ SentUpTo(AfterChunk(s), Behind(k, n + 1))
<1> DEFINE f == s.file_contents
           t == s.total_sent
<1>1. f \in FileData /\ t \in Nat /\ s = [file_contents |-> f, total_sent |-> t]
  BY DEF SenderType
<1>2. t = Behind(k, n) /\ t < Len(f) /\ Behind(k, n + 1) = t + ChunkSize /\ Len(f) \in Nat
  BY <1>1, BehindFact DEF SentUpTo, SentCompleteFile, FileData
<1>3. NextChunk(s) = Chunk(f, t)
  BY <1>1 DEF Chunk
<1> DEFINE e == t + Len(NextChunk(s).data)
<1>4. e <= Len(f) /\ (e = Len(f) \/ e = t + ChunkSize) /\ (NextChunk(s).last <=> e = Len(f))
  BY <1>1, <1>2, <1>3, ChunkFact
<1>5. e = Len(f) => t + ChunkSize >= Len(f)
  <2>1. NextChunk(s).last <=> t + ChunkSize >= Len(f)
    BY DEF NextChunk, FileContents
  <2>. QED
    BY <1>4, <2>1
<1>6. AfterChunk(s).file_contents = f /\ AfterChunk(s).total_sent = e
  BY <1>1 DEF AfterChunk, SenderType
<1>7. SentUpTo(AfterChunk(s), t + ChunkSize)
  <2>1. e = IF t + ChunkSize < Len(f) THEN t + ChunkSize ELSE Len(f)
    <3> HIDE DEF e, f, t
    <3>. QED
      BY <1>1, <1>2, <1>4, <1>5, ChunkAssumption
  <2>. QED
    BY <1>6, <2>1, Zenon DEF SentUpTo
<1> HIDE DEF e, f, t
<1>. QED
  BY <1>2, <1>3, <1>6, <1>7 DEF IsChunk, f

(* A sender stays one. *)
LEMMA SenderFact ==
    ASSUME NEW s \in SenderType
    PROVE  NextChunk(s) \in ContentsMessage /\ AfterChunk(s) \in SenderType
<1> DEFINE f == s.file_contents
           t == s.total_sent
           end == IF t + ChunkSize < Len(f) THEN t + ChunkSize ELSE Len(f)
           d == SubSeq(f, t + 1, end)
<1>1. f \in FileData /\ t \in Nat /\ end \in Nat /\ end <= Len(f)
  BY ChunkAssumption DEF SenderType, FileData
<1>2. NextChunk(s) = [type |-> "contents", data |-> d, last |-> t + ChunkSize >= Len(f)]
  BY DEF NextChunk, FileContents
<1>3. d \in FileData /\ Len(d) \in Nat
  BY <1>1, SubSeqProperties DEF FileData
<1> HIDE DEF d, end
<1>4. NextChunk(s) \in ContentsMessage /\ NextChunk(s).data = d
  BY <1>2, <1>3 DEF ContentsMessage
<1>5. AfterChunk(s) = [s EXCEPT !.total_sent = t + Len(d)] /\ t + Len(d) \in Nat
  BY <1>1, <1>3, <1>4 DEF AfterChunk
<1>. QED
  BY <1>4, <1>5 DEF SenderType

(* What a receiver makes of the next message. *)
LEMMA WithChunkFact ==
    ASSUME NEW M \in {ToAgent, ToClient}, NEW r \in ReceiverType(M), NEW m \in M,
           NEW behind \in Seq(M)
    PROVE  /\ WithChunk(r, m, behind) \in ReceiverType(M)
           /\ WithChunk(r, m, behind).parser = behind
           /\ m.type = "contents" =>
                 /\ WithChunk(r, m, behind).file_contents = r.file_contents \o m.data
                 /\ WithChunk(r, m, behind).complete_file <=> (r.complete_file \/ m.last)
                 /\ ChunkLength(m) = Len(m.data)
<1> DEFINE a == AsFileContents(m)
<1>1. m.type = "contents" => m \in ContentsMessage /\ a = m
  BY DEF ToAgent, ToClient, RequestMessage, ResponseMessage, ContentsMessage, AsFileContents
<1>2. m.type # "contents" => a = FileContents(<<Noise>>, FALSE) \/ a = FileContents(<<>>, FALSE)
  BY DEF AsFileContents
<1> HIDE DEF a
<1>3. a.data \in FileData /\ a.last \in BOOLEAN
  <2>1. <<Noise>> \in FileData /\ <<>> \in FileData
    BY DEF FileData, Pieces
  <2>2. CASE m.type = "contents"
    BY <1>1, <2>2, Zenon DEF ContentsMessage
  <2>3. CASE m.type # "contents"
    <3>1. PICK d \in {<<Noise>>, <<>>} : a = [type |-> "contents", data |-> d, last |-> FALSE]
      BY <1>2, <2>3 DEF FileContents
    <3>. QED
      BY <2>1, <3>1
  <2>. QED
    BY <2>2, <2>3, Zenon
<1>4. r.file_contents \in FileData /\ r.complete_file \in BOOLEAN
  BY DEF ReceiverType
<1>5. r.file_contents \o a.data \in FileData
  BY <1>3, <1>4 DEF FileData
<1>6. WithChunk(r, m, behind) = [parser |-> behind, file_contents |-> r.file_contents \o a.data,
                                 complete_file |-> r.complete_file \/ a.last]
  BY Zenon DEF WithChunk, a
<1>7. WithChunk(r, m, behind) \in ReceiverType(M)
  BY <1>3, <1>4, <1>5, <1>6 DEF ReceiverType
<1>8. ChunkLength(m) = Len(a.data)
  BY DEF ChunkLength, a
<1>9. WithChunk(r, m, behind).parser = behind
  BY <1>6
<1>10. WithChunk(r, m, behind).file_contents = r.file_contents \o a.data
  <2> DEFINE y == r.file_contents \o a.data
  <2>1. WithChunk(r, m, behind) = [parser |-> behind, file_contents |-> y,
                                   complete_file |-> r.complete_file \/ a.last]
    BY <1>6, Zenon
  <2> HIDE DEF y
  <2>2. WithChunk(r, m, behind).file_contents = y
    BY <2>1
  <2>. QED
    BY <2>2, Zenon DEF y
<1>11. WithChunk(r, m, behind).complete_file <=> (r.complete_file \/ a.last)
  BY <1>6, <1>3, <1>4
<1>. QED
  BY <1>1, <1>7, <1>8, <1>9, <1>10, <1>11, Zenon

-----------------------------------------------------------------------------
(* The types of what a transfer goes through. *)

(* An empty sender and an empty receiver. *)
LEMMA EmptyFacts ==
    /\ SetFileContents(<<>>) \in SenderType
    /\ \A M : NewReceiver \in ReceiverType(M)
    /\ \A M : NewReceiver.parser = <<>>
    /\ NewReceiver.file_contents = <<>> /\ ~NewReceiver.complete_file
    /\ <<>> \in FileData
  BY DEF SetFileContents, SenderType, NewReceiver, ReceiverType, FileData

(* A file as the client uploads it. *)
LEMMA SerializedFact ==
    ASSUME NEW c \in Clients
    PROVE  Serialized(Source[c]) \in FileData /\ Len(Serialized(Source[c])) > 0
<1>1. Source[c] \in FileData
  BY ContentsAssumption DEF FileData, Pieces
<1>2. <<Header>> \in FileData
  BY DEF FileData, Pieces
<1>. QED
  BY <1>1, <1>2 DEF Serialized, FileData

(* The tasks that the shell begins. *)
LEMMA NewTasks ==
    ASSUME NEW c \in Clients
    PROVE  /\ UploadTask(c) \in TaskType /\ HasSocket(UploadTask(c))
           /\ UploadTask(c).kind = "put" /\ UploadTask(c).status = "RUNNING"
           /\ ~UploadTask(c).cancelled /\ ~UploadTask(c).cleaning /\ ~DownloadTask.cleaning
           /\ UploadTask(c).socket = SetFileContents(Serialized(Source[c]))
           /\ DownloadTask \in TaskType /\ HasSocket(DownloadTask)
           /\ DownloadTask.kind = "get" /\ DownloadTask.status = "RUNNING"
           /\ DownloadTask.socket = NewReceiver
<1>1. SetFileContents(Serialized(Source[c])) \in SenderType
  BY SerializedFact DEF SetFileContents, SenderType
<1>2. NewReceiver \in ReceiverType(ToClient)
  BY EmptyFacts
<1>. QED
  BY <1>1, <1>2 DEF UploadTask, DownloadTask, TaskType, HasSocket

(* At first. *)
LEMMA TypesInit == Init => WTypes
<1> SUFFICES ASSUME Init PROVE WTypes
  OBVIOUS
<1>1. files \in [Files -> {Missing} \cup FileData]
  BY ContentsAssumption DEF Init, FileData, Pieces
<1>2. Request("other", NoFile) \in RequestMessage
  BY DEF Request, RequestMessage, Kinds
<1>. QED
  BY <1>1, <1>2, EmptyFacts DEF Init, ServerInit, WTypes, Kinds

(* Part of a sequence. *)
LEMMA PartFact ==
    ASSUME NEW S, NEW s \in Seq(S), NEW i \in Nat \ {0}, NEW n \in 0..Len(s)
    PROVE  SubSeq(s, i, n) \in Seq(S)
  BY SubSeqProperties

(* Agent::ReadNextMessage(). *)
LEMMA ReadTypes ==
    ASSUME WTypes, NEW c \in Clients, ReadNextMessage(c), UNCHANGED client_vars
    PROVE  WTypes'
<1>1. command' \in [Clients -> Kinds] /\ file' \in [Clients -> Files \cup {NoFile}]
      /\ DOMAIN out_of_step' = Clients
  <2>1. ASSUME NEW m \in ToAgent, Dispatch(c, m)
        PROVE  command' \in [Clients -> Kinds] /\ file' \in [Clients -> Files \cup {NoFile}]
               /\ DOMAIN out_of_step' = Clients
    <3>1. PICK r \in AsRequest(m) : command' = [command EXCEPT ![c] = r.kind]
                                    /\ file' = [file EXCEPT ![c] = r.file]
      BY <2>1 DEF Dispatch
    <3>2. r.kind \in Kinds /\ r.file \in Files \cup {NoFile}
      BY DEF AsRequest, ToAgent, RequestMessage, ContentsMessage, Request, Kinds
    <3>3. DOMAIN out_of_step' = Clients
      BY <2>1 DEF Dispatch, Disturbed, WTypes
    <3>. QED
      BY <3>1, <3>2, <3>3 DEF WTypes
  <2>2. parser[c] # <<>> => Head(parser[c]) \in ToAgent
    BY DEF WTypes
  <2>3. to_agent[c] # <<>> => Head(to_agent[c]) \in ToAgent
    BY DEF WTypes
  <2>4. \A n \in 1..Len(to_agent[c]) : to_agent[c] # <<>>
    BY DEF WTypes
  <2>. QED
    BY <2>1, <2>2, <2>3, <2>4 DEF ReadNextMessage, WTypes
<1>2. parser' \in [Clients -> Seq(ToAgent)] /\ to_agent' \in [Clients -> Seq(ToAgent)]
  <2>1. parser[c] # <<>> => Tail(parser[c]) \in Seq(ToAgent)
    BY DEF WTypes
  <2>2. \A n \in 1..Len(to_agent[c]) : /\ SubSeq(to_agent[c], 2, n) \in Seq(ToAgent)
                                       /\ SubSeq(to_agent[c], n + 1, Len(to_agent[c])) \in Seq(ToAgent)
    BY PartFact DEF WTypes
  <2>3. \E p, q \in Seq(ToAgent) :
           /\ parser' = [parser EXCEPT ![c] = p] \/ parser' = parser
           /\ to_agent' = [to_agent EXCEPT ![c] = q] \/ to_agent' = to_agent
    <3>1. CASE parser[c] # <<>> /\ parser' = [parser EXCEPT ![c] = Tail(@)] /\ UNCHANGED to_agent
      BY <2>1, <3>1
    <3>2. CASE \E n \in 1..Len(to_agent[c]) :
                  /\ parser' = [parser EXCEPT ![c] = SubSeq(to_agent[c], 2, n)]
                  /\ to_agent' = [to_agent EXCEPT ![c] = SubSeq(@, n + 1, Len(@))]
      BY <2>2, <3>2
    <3>3. CASE UNCHANGED <<parser, to_agent>>
      <4>1. <<>> \in Seq(ToAgent)
        OBVIOUS
      <4>. QED
        BY <3>3, <4>1
    <3>. QED
      BY <3>1, <3>2, <3>3 DEF ReadNextMessage
  <2>. QED
    BY <2>3, ZenonT(40) DEF WTypes
<1>. QED
  BY <1>1, <1>2 DEF ReadNextMessage, WTypes

(* The ids. *)
LEMMA GenerateTypes ==
    ASSUME WTypes, NEW c \in Clients, GenerateID(c), UNCHANGED client_vars
    PROVE  WTypes'
<1>1. next_id' \in Nat
  <2>1. (loaded[c] + 1) % IdModulus \in Nat
    BY IdAssumption DEF WTypes
  <2>. QED
    BY <2>1 DEF GenerateID, GenerateLoad, GenerateStore, GenerateCheck, GenerateTake, Insert, WTypes
<1>2. cid' \in [Clients -> Nat] /\ loaded' \in [Clients -> Nat]
  <2>1. \E x, y \in Nat : /\ cid' = [cid EXCEPT ![c] = x] \/ cid' = cid
                          /\ loaded' = [loaded EXCEPT ![c] = y] \/ loaded' = loaded
    BY DEF GenerateID, GenerateLoad, GenerateStore, GenerateCheck, GenerateTake, Insert, WTypes
  <2>. QED
    BY <2>1, ZenonT(40) DEF WTypes
<1>3. UNCHANGED <<command, file, files, sender, receiver, contents, parser, to_agent, to_client,
                  open, out_of_step, saved, request, get_task, tasks>>
  BY DEF GenerateID, GenerateLoad, GenerateStore, GenerateCheck, GenerateTake, Insert
<1>. QED
  BY <1>1, <1>2, <1>3 DEF WTypes

(* send() to a client. *)
LEMMA SendTypes ==
    ASSUME WTypes, NEW c \in Clients, NEW m \in ToClient, NEW sent, NEW failed,
           Send(c, m, sent, failed)
    PROVE  to_client' \in [Clients -> Seq(ToClient)]
<1>1. Append(to_client[c], m) \in Seq(ToClient)
  BY DEF WTypes
<1>. QED
  BY <1>1 DEF Send, WTypes

(* SendResponse(). *)
LEMMA RespondTypes ==
    ASSUME WTypes, NEW c \in Clients, RespondWithId(c) \/ Reply(c), UNCHANGED client_vars
    PROVE  WTypes'
<1>1. Response(command[c], cid[c]) \in ToClient /\ Response(command[c], 0) \in ToClient
  BY DEF Response, ToClient, ResponseMessage, WTypes
<1>2. to_client' \in [Clients -> Seq(ToClient)]
  BY <1>1, SendTypes DEF RespondWithId, Reply
<1>3. /\ UNCHANGED <<next_id, cid, loaded, files, sender, receiver, contents, parser, to_agent,
                     open, out_of_step, saved, request, get_task, tasks>>
      /\ command' \in [Clients -> Kinds] /\ file' \in [Clients -> Files \cup {NoFile}]
  BY DEF RespondWithId, Reply, Forget, WTypes, Kinds
<1>. QED
  BY <1>2, <1>3 DEF WTypes

(* FileHandler::Get(). *)
LEMMA StoredType == ASSUME WTypes, NEW f PROVE Stored(f) \in FileData
<1>1. CASE f \in Files /\ files[f] # Missing
  BY <1>1 DEF Stored, WTypes
<1>2. CASE ~(f \in Files /\ files[f] # Missing)
  BY <1>2, EmptyFacts DEF Stored
<1>. QED
  BY <1>1, <1>2

(* SetFileContents() makes a sender that has sent nothing. *)
LEMMA SetContentsType ==
    ASSUME NEW f \in FileData
    PROVE  /\ SetFileContents(f) \in SenderType
           /\ SetFileContents(f).file_contents = f /\ SetFileContents(f).total_sent = 0
  BY DEF SetFileContents, SenderType

(* The steps of HandleRequest(GetRequest). *)
LEMMA SenderTypes ==
    ASSUME WTypes, NEW c \in Clients, OpenFile(c) \/ SendChunk(c) \/ CheckSent(c) \/ EndCommand(c),
           UNCHANGED client_vars
    PROVE  WTypes'
<1>1. sender' \in [Clients -> SenderType]
  <2>1. SetFileContents(Stored(file[c])) \in SenderType
    BY StoredType, SetContentsType
  <2>2. AfterChunk(sender[c]) \in SenderType
    BY SenderFact DEF WTypes
  <2>3. \E s \in SenderType : sender' = [sender EXCEPT ![c] = s] \/ sender' = sender
    BY <2>1, <2>2, EmptyFacts DEF OpenFile, SendChunk, CheckSent, EndCommand
  <2>. QED
    BY <2>3 DEF WTypes
<1>2. to_client' \in [Clients -> Seq(ToClient)]
  <2>1. NextChunk(sender[c]) \in ToClient
    BY SenderFact DEF WTypes, ToClient
  <2>2. CASE SendChunk(c)
    BY <2>1, <2>2, SendTypes DEF SendChunk
  <2>3. CASE UNCHANGED to_client
    BY <2>3 DEF WTypes
  <2>. QED
    BY <2>2, <2>3 DEF OpenFile, CheckSent, EndCommand
<1>3. /\ UNCHANGED <<next_id, loaded, files, receiver, contents, parser, to_agent,
                     open, out_of_step, saved, request, get_task, tasks>>
  BY DEF OpenFile, SendChunk, CheckSent, EndCommand
<1>4. \/ UNCHANGED <<command, file, cid>>
      \/ /\ command' = [command EXCEPT ![c] = "other"] /\ file' = [file EXCEPT ![c] = NoFile]
         /\ cid' = [cid EXCEPT ![c] = 0]
  BY DEF OpenFile, SendChunk, CheckSent, EndCommand, Forget
<1>5. /\ command' \in [Clients -> Kinds] /\ file' \in [Clients -> Files \cup {NoFile}]
      /\ cid' \in [Clients -> Nat]
  <2>1. CASE UNCHANGED <<command, file, cid>>
    BY <2>1 DEF WTypes
  <2>2. CASE /\ command' = [command EXCEPT ![c] = "other"] /\ file' = [file EXCEPT ![c] = NoFile]
             /\ cid' = [cid EXCEPT ![c] = 0]
    BY <2>2 DEF WTypes, Kinds
  <2>. QED
    BY <1>4, <2>1, <2>2
<1>. QED
  BY <1>1, <1>2, <1>3, <1>5 DEF WTypes

(* The steps of ReadFileContents(). *)
LEMMA ReceiverTypes ==
    ASSUME WTypes, NEW c \in Clients, CheckReceived(c) \/ ReceiveChunk(c) \/ CleanUp(c),
           UNCHANGED client_vars
    PROVE  WTypes'
<1>1. /\ receiver[c] \in ReceiverType(ToAgent) /\ receiver[c].parser \in Seq(ToAgent)
      /\ to_agent[c] \in Seq(ToAgent)
  BY DEF WTypes, ReceiverType
<1>2. ASSUME NEW m \in ToAgent, NEW behind \in Seq(ToAgent), TakeChunk(c, m, behind)
      PROVE  /\ contents' \in [Clients -> FileData] /\ receiver' \in [Clients -> ReceiverType(ToAgent)]
             /\ DOMAIN out_of_step' = Clients
  <2>1. WithChunk(receiver[c], m, behind) \in ReceiverType(ToAgent)
    BY <1>1, WithChunkFact
  <2>2. WithChunk(receiver[c], m, behind).file_contents \in FileData
    BY <2>1 DEF ReceiverType
  <2>3. \E x \in FileData, r \in ReceiverType(ToAgent) :
           contents' = [contents EXCEPT ![c] = x] /\ receiver' = [receiver EXCEPT ![c] = r]
    BY <1>2, <2>1, <2>2, EmptyFacts DEF TakeChunk, ContentsRead
  <2>. QED
    BY <1>2, <2>3 DEF TakeChunk, Disturbed, WTypes
<1>3. ASSUME NEW n \in 1..Len(to_agent[c])
      PROVE  /\ Head(to_agent[c]) \in ToAgent
             /\ SubSeq(to_agent[c], 2, n) \in Seq(ToAgent)
             /\ SubSeq(to_agent[c], n + 1, Len(to_agent[c])) \in Seq(ToAgent)
  <2>1. to_agent[c] # <<>>
    BY <1>1, <1>3
  <2>. QED
    BY <1>1, <1>3, <2>1, PartFact
<1>4. receiver[c].parser # <<>> =>
         Head(receiver[c].parser) \in ToAgent /\ Tail(receiver[c].parser) \in Seq(ToAgent)
  BY <1>1
<1>5. /\ contents' \in [Clients -> FileData] /\ receiver' \in [Clients -> ReceiverType(ToAgent)]
      /\ DOMAIN out_of_step' = Clients
  <2>1. CASE \E m \in ToAgent, behind \in Seq(ToAgent) : TakeChunk(c, m, behind)
    BY <1>2, <2>1
  <2>2. CASE UNCHANGED <<contents, out_of_step>>
             /\ (receiver' = [receiver EXCEPT ![c] = NewReceiver] \/ UNCHANGED receiver)
    <3>1. NewReceiver \in ReceiverType(ToAgent)
      BY EmptyFacts
    <3>. QED
      BY <2>2, <3>1, ZenonT(40) DEF WTypes
  <2>3. CASE CleanUp(c)
    BY <2>3 DEF CleanUp, Disturbed, WTypes
  <2>. QED
    BY <1>3, <1>4, <2>1, <2>2, <2>3 DEF CheckReceived, ReceiveChunk
<1>6. to_agent' \in [Clients -> Seq(ToAgent)]
  <2>1. UNCHANGED to_agent \/ \E n \in 1..Len(to_agent[c]) :
           to_agent' = [to_agent EXCEPT ![c] = SubSeq(@, n + 1, Len(@))]
    BY DEF CheckReceived, ReceiveChunk, CleanUp
  <2>. QED
    BY <1>3, <2>1, ZenonT(40) DEF WTypes
<1>7. UNCHANGED <<next_id, cid, loaded, files, sender, command, file, parser, to_client,
                  open, saved, request, get_task, tasks>>
  BY DEF CheckReceived, ReceiveChunk, CleanUp
<1>. QED
  BY <1>5, <1>6, <1>7 DEF WTypes

(* The steps that use the disk, or nothing of this. *)
LEMMA FileTypes ==
    ASSUME WTypes, NEW c \in Clients,
           WriteFile(c) \/ HandleDelete(c) \/ HandleOther(c) \/ NPortListen(c),
           UNCHANGED client_vars
    PROVE  WTypes'
<1>1. files' \in [Files -> {Missing} \cup FileData] /\ contents' \in [Clients -> FileData]
  BY EmptyFacts, ZenonT(40) DEF WriteFile, HandleDelete, HandleOther, NPortListen, WTypes
<1>2. UNCHANGED <<next_id, cid, loaded, sender, receiver, command, file, parser, to_agent,
                  to_client, open, out_of_step, saved, request, get_task, tasks>>
  BY DEF WriteFile, HandleDelete, HandleOther, NPortListen
<1>. QED
  BY <1>1, <1>2 DEF WTypes

(* The task i of client c becomes t, and nothing else changes. *)
TaskBecomes(c, i, t) ==
    /\ \A d \in Clients \ {c} : tasks'[d] = tasks[d]
    /\ Len(tasks'[c]) = Len(tasks[c]) /\ tasks'[c] \in Seq(TaskType)
    /\ \A j \in 1..Len(tasks[c]) : tasks'[c][j] = IF j = i THEN t ELSE tasks[c][j]

(* Such a step keeps the types. *)
LEMMA OneTaskTypes ==
    ASSUME WTypes, NEW c \in Clients, NEW i \in 1..Len(tasks[c]), NEW t \in TaskType, HasSocket(t),
           tasks' = [tasks EXCEPT ![c] = [@ EXCEPT ![i] = t]]
    PROVE  /\ TaskBecomes(c, i, t) /\ tasks' \in [Clients -> Seq(TaskType)]
           /\ \A d \in Clients : \A j \in 1..Len(tasks'[d]) : HasSocket(tasks'[d][j])
<1> DEFINE s == [tasks[c] EXCEPT ![i] = t]
<1>1. tasks[c] \in Seq(TaskType)
  BY DEF WTypes
<1>2. s \in Seq(TaskType) /\ Len(s) = Len(tasks[c])
      /\ \A j \in 1..Len(tasks[c]) : s[j] = IF j = i THEN t ELSE tasks[c][j]
  BY <1>1
<1>3. tasks' = [tasks EXCEPT ![c] = s]
  OBVIOUS
<1> HIDE DEF s
<1>4. tasks'[c] = s /\ \A d \in Clients \ {c} : tasks'[d] = tasks[d]
  BY <1>3 DEF WTypes
<1>5. tasks' \in [Clients -> Seq(TaskType)]
  BY <1>2, <1>3 DEF WTypes
<1>6. TaskBecomes(c, i, t)
  BY <1>2, <1>4 DEF TaskBecomes
<1>7. ASSUME NEW d \in Clients, NEW j \in 1..Len(tasks'[d]) PROVE HasSocket(tasks'[d][j])
  <2>1. CASE d = c
    BY <1>2, <1>4, <1>7, <2>1 DEF WTypes
  <2>2. CASE d # c
    BY <1>4, <1>7, <2>2 DEF WTypes
  <2>. QED
    BY <2>1, <2>2
<1>. QED
  BY <1>5, <1>6, <1>7

(* The task as RunAtomic() has left it. *)
Returned(t, status, socket, part) ==
    LET final == IF t.cancelled THEN "CANCELLED" ELSE status
    IN  [t EXCEPT !.status = final,
                  !.socket = IF final = "RUNNING" THEN socket ELSE NewReceiver,
                  !.cleaning = final # "RUNNING" /\ part]

(* RunAtomic() has returned. *)
LEMMA ReturnsFact ==
    ASSUME WTypes, NEW c \in Clients, NEW i \in 1..Len(tasks[c]),
           NEW status \in {"RUNNING", "DONE", "FAILED"}, NEW socket, NEW part \in BOOLEAN,
           tasks[c][i].kind = "put" => socket \in SenderType,
           tasks[c][i].kind = "get" => socket \in ReceiverType(ToClient),
           Returns(c, i, status, socket, part)
    PROVE  LET t == Returned(tasks[c][i], status, socket, part)
           IN  /\ TaskBecomes(c, i, t) /\ t \in TaskType /\ t.kind = tasks[c][i].kind
               /\ t.cancelled = tasks[c][i].cancelled
               /\ t.status = IF t.cancelled THEN "CANCELLED" ELSE status
               /\ t.socket = IF t.status = "RUNNING" THEN socket ELSE NewReceiver
               /\ t.cleaning => part /\ t.status # "RUNNING"
               /\ tasks' \in [Clients -> Seq(TaskType)]
               /\ \A d \in Clients : \A j \in 1..Len(tasks'[d]) : HasSocket(tasks'[d][j])
<1> DEFINE o == tasks[c][i]
           final == IF o.cancelled THEN "CANCELLED" ELSE status
           new == IF final = "RUNNING" THEN socket ELSE NewReceiver
           clean == final # "RUNNING" /\ part
           t == Returned(o, status, socket, part)
<1>1. o \in TaskType /\ tasks[c] \in Seq(TaskType)
  BY DEF WTypes
<1>2. t = [o EXCEPT !.status = final, !.socket = new, !.cleaning = clean]
  BY DEF Returned
<1>3. o.kind \in {"put", "get"} /\ o.cancelled \in BOOLEAN
      /\ DOMAIN o = {"kind", "status", "cancelled", "cleaning", "socket"}
  BY <1>1 DEF TaskType
<1>4. /\ new \in SenderType \cup ReceiverType(ToClient)
      /\ final \in {"RUNNING", "DONE", "FAILED", "CANCELLED"}
      /\ clean \in BOOLEAN
      /\ o.kind = "get" => new \in ReceiverType(ToClient)
      /\ o.kind = "put" /\ final = "RUNNING" => new \in SenderType
  <2>1. NewReceiver \in ReceiverType(ToClient)
    BY EmptyFacts
  <2>. QED
    BY <1>3, <2>1
<1>5. tasks' = [tasks EXCEPT ![c][i] = [@ EXCEPT !.status = final, !.socket = new, !.cleaning = clean]]
  BY DEF Returns
<1> HIDE DEF final, new, clean, t, o
<1>6. t.kind = o.kind /\ t.cancelled = o.cancelled /\ t.status = final /\ t.socket = new
      /\ t.cleaning = clean
  BY <1>1, <1>2 DEF TaskType
<1>7. t \in TaskType /\ HasSocket(t)
  <2>1. t \in TaskType
    BY <1>1, <1>2, <1>3, <1>4 DEF TaskType
  <2>. QED
    BY <1>4, <1>6, <2>1 DEF HasSocket
<1> USE DEF o
<1>8. tasks' = [tasks EXCEPT ![c] = [@ EXCEPT ![i] = t]]
  BY <1>2, <1>5
<1>9. /\ TaskBecomes(c, i, t) /\ tasks' \in [Clients -> Seq(TaskType)]
      /\ \A d \in Clients : \A j \in 1..Len(tasks'[d]) : HasSocket(tasks'[d][j])
  BY <1>7, <1>8, OneTaskTypes
<1>. QED
  BY <1>7, <1>9, <1>6, Zenon DEF final, new, clean, t

(* A client sends to its agent. *)
LEMMA SendToAgentTypes ==
    ASSUME WTypes, NEW c \in Clients, NEW m \in ToAgent, NEW next, SendToAgent(c, m, next)
    PROVE  /\ to_agent' \in [Clients -> Seq(ToAgent)] /\ to_client' \in [Clients -> Seq(ToClient)]
           /\ open' \in [Clients -> BOOLEAN]
<1>1. Append(to_agent[c], m) \in Seq(ToAgent)
  BY DEF WTypes
<1>2. <<>> \in Seq(ToClient)
  OBVIOUS
<1>3. CASE to_agent' = [to_agent EXCEPT ![c] = IF apc[c] = "ended" THEN @ ELSE Append(@, m)]
           /\ UNCHANGED <<open, to_client>>
  BY <1>1, <1>3 DEF WTypes
<1>4. CASE Leave(c, "dead") /\ UNCHANGED to_agent
  BY <1>2, <1>4 DEF Leave, WTypes
<1>. QED
  BY <1>3, <1>4 DEF SendToAgent

(* What is typed is a request. *)
LEMMA RequestsFact ==
    /\ \A l \in CommandLines : l[1] \in RequestMessage /\ l[1] \in ToAgent
    /\ Request("other", NoFile) \in RequestMessage /\ Request("other", NoFile).kind = "other"
<1>1. \A k \in {"get", "put", "del", "other"}, f \in Files \cup {NoFile} :
         Request(k, f) \in RequestMessage
  BY DEF Request, RequestMessage, Kinds
<1>2. \A l \in CommandLines : l[1] \in Requests
  BY DEF CommandLines
<1>3. \A r \in Requests : r \in RequestMessage
  BY <1>1 DEF Requests
<1>4. Request("other", NoFile).kind = "other"
  BY DEF Request
<1>. QED
  BY <1>1, <1>2, <1>3, <1>4 DEF ToAgent

(* The shell. *)
LEMMA ShellTypes ==
    ASSUME WTypes, NEW c \in Clients, Connect(c) \/ TypeRequest(c) \/ TypeQuit(c) \/ TaskCompleted(c)
    PROVE  WTypes'
<1>1. CASE Connect(c)
  BY <1>1 DEF Connect, WTypes
<1>2. CASE TypeRequest(c)
  <2>1. PICK l \in CommandLines : /\ request' = [request EXCEPT ![c] = l[1]]
                                  /\ SendToAgent(c, l[1], "response")
    BY <1>2 DEF TypeRequest
  <2>2. /\ to_agent' \in [Clients -> Seq(ToAgent)] /\ to_client' \in [Clients -> Seq(ToClient)]
        /\ open' \in [Clients -> BOOLEAN] /\ request' \in [Clients -> RequestMessage]
    BY <2>1, RequestsFact, SendToAgentTypes DEF WTypes
  <2>3. /\ DOMAIN out_of_step' = Clients
        /\ UNCHANGED <<next_id, cid, loaded, files, sender, receiver, contents, command, file,
                       parser, saved, get_task, tasks>>
    BY <1>2 DEF TypeRequest, Disturbed, WTypes
  <2>. QED
    BY <2>2, <2>3 DEF WTypes
<1>3. CASE TypeQuit(c)
  <2>1. <<>> \in Seq(ToClient)
    OBVIOUS
  <2>2. to_client' \in [Clients -> Seq(ToClient)] /\ open' \in [Clients -> BOOLEAN]
    BY <1>3, <2>1 DEF TypeQuit, Leave, WTypes
  <2>. QED
    BY <1>3, <2>2 DEF TypeQuit, WTypes
<1>4. CASE TaskCompleted(c)
  BY <1>4 DEF TaskCompleted, WTypes
<1>. QED
  BY <1>1, <1>2, <1>3, <1>4

(* TerminateTask cancels the last download. *)
LEMMA TerminateFact ==
    ASSUME WTypes, NEW c \in Clients, CancelsGets(c), TypeTerminate(c), get_task[c] # 0
    PROVE  LET i == get_task[c]
               t == [tasks[c][i] EXCEPT !.cancelled = TRUE]
           IN  /\ i \in 1..Len(tasks[c]) /\ TaskBecomes(c, i, t) /\ t \in TaskType
               /\ t.kind = "get" /\ t.kind = tasks[c][i].kind
               /\ t.status = tasks[c][i].status /\ t.socket = tasks[c][i].socket
               /\ t.cleaning = tasks[c][i].cleaning
               /\ tasks' \in [Clients -> Seq(TaskType)]
               /\ \A d \in Clients : \A j \in 1..Len(tasks'[d]) : HasSocket(tasks'[d][j])
<1> DEFINE i == get_task[c]
           o == tasks[c][i]
           t == [o EXCEPT !.cancelled = TRUE]
<1>1. i \in 1..Len(tasks[c]) /\ o.kind = "get"
  BY DEF CancelsGets
<1>2. o \in TaskType /\ HasSocket(o)
  BY <1>1 DEF WTypes
<1>3. tasks' = [tasks EXCEPT ![c] = [@ EXCEPT ![i] = t]]
  BY DEF TypeTerminate, TaskToCancel
<1> HIDE DEF o, i
<1>4. t \in TaskType /\ t.kind = o.kind /\ t.status = o.status /\ t.socket = o.socket
      /\ t.cleaning = o.cleaning
  BY <1>2 DEF TaskType
<1>5. HasSocket(t)
  BY <1>2, <1>4 DEF HasSocket
<1> HIDE DEF t
<1>6. /\ TaskBecomes(c, i, t) /\ tasks' \in [Clients -> Seq(TaskType)]
      /\ \A d \in Clients : \A j \in 1..Len(tasks'[d]) : HasSocket(tasks'[d][j])
  BY <1>1, <1>3, <1>4, <1>5, OneTaskTypes
<1>. QED
  BY <1>1, <1>4, <1>6 DEF o, i, t

(* So it keeps the types. *)
LEMMA TerminateTypes ==
    ASSUME WTypes, NEW c \in Clients, CancelsGets(c), TypeTerminate(c) PROVE WTypes'
<1>1. UNCHANGED <<command, file, next_id, cid, loaded, files, sender, receiver, contents, parser,
                  to_agent, to_client, open, out_of_step, saved, request, get_task>>
  BY DEF TypeTerminate
<1>2. CASE get_task[c] = 0
  BY <1>1, <1>2 DEF TypeTerminate, TaskToCancel, WTypes
<1>3. CASE get_task[c] # 0
  BY <1>1, <1>3, TerminateFact DEF WTypes
<1>. QED
  BY <1>2, <1>3

(* A new task. *)
TaskAdded(c, t) ==
    /\ \A d \in Clients \ {c} : tasks'[d] = tasks[d]
    /\ Len(tasks'[c]) = Len(tasks[c]) + 1 /\ tasks'[c] # <<>>
    /\ tasks'[c][Len(tasks[c]) + 1] = t
    /\ \A j \in 1..Len(tasks[c]) : tasks'[c][j] = tasks[c][j]

(* It keeps the types. *)
LEMMA AppendedTypes ==
    ASSUME WTypes, NEW c \in Clients, NEW t \in TaskType, HasSocket(t),
           tasks' = [tasks EXCEPT ![c] = Append(@, t)]
    PROVE  /\ TaskAdded(c, t) /\ tasks' \in [Clients -> Seq(TaskType)]
           /\ \A d \in Clients : \A j \in 1..Len(tasks'[d]) : HasSocket(tasks'[d][j])
<1> DEFINE s == Append(tasks[c], t)
<1>1. tasks[c] \in Seq(TaskType)
  BY DEF WTypes
<1>2. /\ s \in Seq(TaskType) /\ Len(s) = Len(tasks[c]) + 1 /\ s # <<>>
      /\ s[Len(tasks[c]) + 1] = t /\ \A j \in 1..Len(tasks[c]) : s[j] = tasks[c][j]
  BY <1>1
<1>3. tasks' = [tasks EXCEPT ![c] = s]
  OBVIOUS
<1> HIDE DEF s
<1>4. tasks'[c] = s /\ \A d \in Clients \ {c} : tasks'[d] = tasks[d]
  BY <1>3 DEF WTypes
<1>5. tasks' \in [Clients -> Seq(TaskType)]
  BY <1>2, <1>3 DEF WTypes
<1>6. TaskAdded(c, t)
  BY <1>2, <1>4 DEF TaskAdded
<1>7. ASSUME NEW d \in Clients, NEW j \in 1..Len(tasks'[d]) PROVE HasSocket(tasks'[d][j])
  <2>1. CASE d = c
    <3>1. j \in 1..Len(tasks[c]) \/ j = Len(tasks[c]) + 1
      BY <1>1, <1>2, <1>4, <1>7, <2>1
    <3>. QED
      BY <1>2, <1>4, <2>1, <3>1 DEF WTypes
  <2>2. CASE d # c
    BY <1>4, <1>7, <2>2 DEF WTypes
  <2>. QED
    BY <2>1, <2>2
<1>. QED
  BY <1>5, <1>6, <1>7

(* What follows a response. *)
LEMMA AfterResponseFact ==
    ASSUME WTypes, NEW c \in Clients, AfterResponse(c)
    PROVE  /\ CASE request[c].kind = "put" -> TaskAdded(c, UploadTask(c)) /\ UNCHANGED get_task
                [] request[c].kind = "get" ->
                      TaskAdded(c, DownloadTask)
                      /\ get_task' = [get_task EXCEPT ![c] = Len(tasks[c]) + 1]
                [] OTHER -> UNCHANGED <<tasks, get_task>>
           /\ shell'[c] \in {"waiting", "prompt"} \/ c \notin DOMAIN shell
           /\ \E s : shell' = [shell EXCEPT ![c] = s]
           /\ request' = [request EXCEPT ![c] = Request("other", NoFile)]
           /\ tasks' \in [Clients -> Seq(TaskType)]
           /\ get_task' \in [Clients -> Nat] /\ request' \in [Clients -> RequestMessage]
           /\ \A d \in Clients : \A j \in 1..Len(tasks'[d]) : HasSocket(tasks'[d][j])
<1>1. /\ UploadTask(c) \in TaskType /\ HasSocket(UploadTask(c))
      /\ DownloadTask \in TaskType /\ HasSocket(DownloadTask)
  BY NewTasks
<1>2. /\ shell'[c] \in {"waiting", "prompt"} \/ c \notin DOMAIN shell
      /\ \E s : shell' = [shell EXCEPT ![c] = s]
  BY DEF AfterResponse
<1>3. /\ request' = [request EXCEPT ![c] = Request("other", NoFile)]
      /\ request' \in [Clients -> RequestMessage]
  BY RequestsFact DEF AfterResponse, WTypes
<1>4. CASE request[c].kind = "put"
  <2>1. tasks' = [tasks EXCEPT ![c] = Append(@, UploadTask(c))] /\ UNCHANGED get_task
    BY <1>4 DEF AfterResponse
  <2>2. /\ TaskAdded(c, UploadTask(c)) /\ tasks' \in [Clients -> Seq(TaskType)]
        /\ \A d \in Clients : \A j \in 1..Len(tasks'[d]) : HasSocket(tasks'[d][j])
    BY <1>1, <2>1, AppendedTypes
  <2>3. get_task' \in [Clients -> Nat]
    BY <2>1 DEF WTypes
  <2>. QED
    BY <1>2, <1>3, <1>4, <2>1, <2>2, <2>3
<1>5. CASE request[c].kind = "get"
  <2>1. tasks' = [tasks EXCEPT ![c] = Append(@, DownloadTask)]
        /\ get_task' = [get_task EXCEPT ![c] = Len(tasks[c]) + 1]
    BY <1>5 DEF AfterResponse
  <2>2. /\ TaskAdded(c, DownloadTask) /\ tasks' \in [Clients -> Seq(TaskType)]
        /\ \A d \in Clients : \A j \in 1..Len(tasks'[d]) : HasSocket(tasks'[d][j])
    BY <1>1, <2>1, AppendedTypes
  <2>3. get_task' \in [Clients -> Nat]
    BY <2>1 DEF WTypes
  <2>. QED
    BY <1>2, <1>3, <1>5, <2>1, <2>2, <2>3
<1>6. CASE request[c].kind \notin {"get", "put"}
  <2>1. UNCHANGED <<tasks, get_task>>
    BY <1>6 DEF AfterResponse
  <2>. QED
    BY <1>2, <1>3, <1>6, <2>1 DEF WTypes
<1>. QED
  BY <1>4, <1>5, <1>6

(* WaitForMessage(). *)
LEMMA WaitTypes ==
    ASSUME WTypes, NEW c \in Clients, WaitForMessage(c) PROVE WTypes'
<1>1. AfterResponse(c)
  BY DEF WaitForMessage
<1>2. to_client' \in [Clients -> Seq(ToClient)] /\ DOMAIN out_of_step' = Clients
  <2>1. \A n \in 1..Len(to_client[c]) : SubSeq(to_client[c], n + 1, Len(to_client[c])) \in Seq(ToClient)
    BY PartFact DEF WTypes
  <2>2. \/ UNCHANGED <<to_client, out_of_step>>
        \/ /\ \E n \in 1..Len(to_client[c]) :
                  to_client' = [to_client EXCEPT ![c] = SubSeq(@, n + 1, Len(@))]
           /\ DOMAIN out_of_step' = DOMAIN out_of_step
    BY DEF WaitForMessage, Disturbed
  <2>. QED
    BY <2>1, <2>2, ZenonT(40) DEF WTypes
<1>3. UNCHANGED <<command, file, next_id, cid, loaded, files, sender, receiver, contents, parser,
                  to_agent, open, saved>>
  BY DEF WaitForMessage
<1>. QED
  BY <1>1, <1>2, <1>3, AfterResponseFact DEF WTypes

(* A running task and its socket. *)
LEMMA RunningFact ==
    ASSUME WTypes, NEW c \in Clients, NEW i \in 1..Len(tasks[c]), i \in Running(c)
    PROVE  /\ tasks[c][i] \in TaskType /\ tasks[c][i].status = "RUNNING"
           /\ tasks[c][i].kind = "put" => tasks[c][i].socket \in SenderType
           /\ tasks[c][i].kind = "get" => tasks[c][i].socket \in ReceiverType(ToClient)
  BY DEF WTypes, Running, HasSocket

(* UploadTask::RunAtomic(). *)
LEMMA UploadTypes ==
    ASSUME WTypes, NEW c \in Clients, NEW i \in 1..Len(tasks[c]), UploadRun(c, i)
    PROVE  WTypes'
<1> DEFINE s == tasks[c][i].socket
<1>1. s \in SenderType /\ tasks[c][i].kind = "put"
  BY RunningFact DEF UploadRun
<1>2. /\ AfterChunk(s) \in SenderType /\ NextChunk(s) \in ToAgent
  BY <1>1, SenderFact DEF ToAgent
<1>3. \E status \in {"RUNNING", "DONE", "FAILED"}, t \in SenderType :
         Returns(c, i, status, t, FALSE)
  BY <1>1, <1>2 DEF UploadRun
<1>4. /\ tasks' \in [Clients -> Seq(TaskType)]
      /\ \A d \in Clients : \A j \in 1..Len(tasks'[d]) : HasSocket(tasks'[d][j])
  BY <1>1, <1>3, ReturnsFact
<1>5. /\ to_agent' \in [Clients -> Seq(ToAgent)] /\ to_client' \in [Clients -> Seq(ToClient)]
      /\ open' \in [Clients -> BOOLEAN]
  <2>1. CASE UNCHANGED <<to_agent, to_client, open>>
    BY <2>1 DEF WTypes
  <2>2. CASE SendToAgent(c, NextChunk(s), shell[c])
    BY <1>2, <2>2, SendToAgentTypes
  <2>. QED
    BY <2>1, <2>2 DEF UploadRun
<1>6. UNCHANGED <<command, file, next_id, cid, loaded, files, sender, receiver, contents, parser,
                  out_of_step, saved, request, get_task>>
  BY DEF UploadRun
<1>. QED
  BY <1>4, <1>5, <1>6 DEF WTypes

(* DownloadTask::RunAtomic(). *)
LEMMA DownloadTypes ==
    ASSUME WTypes, NEW c \in Clients, NEW i \in 1..Len(tasks[c]), DownloadRun(c, i)
    PROVE  WTypes'
<1> DEFINE r == tasks[c][i].socket
<1>1. r \in ReceiverType(ToClient) /\ tasks[c][i].kind = "get"
  BY RunningFact DEF DownloadRun
<1>2. r.parser \in Seq(ToClient) /\ to_client[c] \in Seq(ToClient)
  BY <1>1 DEF ReceiverType, WTypes
<1>3. ASSUME NEW m \in ToClient, NEW behind \in Seq(ToClient), TakeDownload(c, i, m, behind)
      PROVE  \E status \in {"RUNNING", "DONE", "FAILED"}, t \in ReceiverType(ToClient),
                part \in BOOLEAN : Returns(c, i, status, t, part)
  <2>1. WithChunk(r, m, behind) \in ReceiverType(ToClient)
    BY <1>1, WithChunkFact
  <2>. QED
    BY <1>3, <2>1 DEF TakeDownload, MayHoldPart
<1>4. ASSUME NEW n \in 1..Len(to_client[c])
      PROVE  /\ Head(to_client[c]) \in ToClient
             /\ SubSeq(to_client[c], 2, n) \in Seq(ToClient)
             /\ SubSeq(to_client[c], n + 1, Len(to_client[c])) \in Seq(ToClient)
  <2>1. to_client[c] # <<>>
    BY <1>2, <1>4
  <2>. QED
    BY <1>2, <1>4, <2>1, PartFact
<1>5. r.parser # <<>> => Head(r.parser) \in ToClient /\ Tail(r.parser) \in Seq(ToClient)
  BY <1>2
<1> DEFINE Goes == \E status \in {"RUNNING", "DONE", "FAILED"}, t \in ReceiverType(ToClient),
                      part \in BOOLEAN : Returns(c, i, status, t, part)
<1>6. Goes
  <2>1. ASSUME NEW m \in ToClient, NEW behind \in Seq(ToClient), TakeDownload(c, i, m, behind)
        PROVE  Goes
    BY <1>3, <2>1
  <2>2. ASSUME NEW status \in {"RUNNING", "DONE", "FAILED"}, NEW part \in BOOLEAN,
               Returns(c, i, status, r, part)
        PROVE  Goes
    BY <1>1, <2>2
  <2> HIDE DEF Goes
  <2>3. CASE r.parser # <<>> /\ TakeDownload(c, i, Head(r.parser), Tail(r.parser))
    BY <1>5, <2>1, <2>3
  <2>4. CASE \E n \in 1..Len(to_client[c]) :
               TakeDownload(c, i, Head(to_client[c]), SubSeq(to_client[c], 2, n))
    BY <1>4, <2>1, <2>4
  <2>5. CASE \E status \in {"RUNNING", "DONE", "FAILED"}, part \in BOOLEAN :
               Returns(c, i, status, r, part)
    BY <2>2, <2>5
  <2>6. \/ \E status \in {"RUNNING", "DONE", "FAILED"}, part \in BOOLEAN :
              Returns(c, i, status, r, part)
        \/ r.parser # <<>> /\ TakeDownload(c, i, Head(r.parser), Tail(r.parser))
        \/ \E n \in 1..Len(to_client[c]) :
              TakeDownload(c, i, Head(to_client[c]), SubSeq(to_client[c], 2, n))
    BY ZenonT(40) DEF DownloadRun, MayHoldPart
  <2>. QED
    BY <2>3, <2>4, <2>5, <2>6
<1>7. /\ tasks' \in [Clients -> Seq(TaskType)]
      /\ \A d \in Clients : \A j \in 1..Len(tasks'[d]) : HasSocket(tasks'[d][j])
  BY <1>1, <1>6, ReturnsFact
<1>8. to_client' \in [Clients -> Seq(ToClient)]
  <2>1. UNCHANGED to_client \/ \E n \in 1..Len(to_client[c]) :
           to_client' = [to_client EXCEPT ![c] = SubSeq(@, n + 1, Len(@))]
    BY DEF DownloadRun
  <2>2. UNCHANGED to_client \/ \E q \in Seq(ToClient) : to_client' = [to_client EXCEPT ![c] = q]
    BY <1>4, <2>1
  <2>. QED
    BY <2>2 DEF WTypes
<1>9. DOMAIN saved' = Clients
  BY DEF DownloadRun, WTypes
<1>10. UNCHANGED <<command, file, next_id, cid, loaded, files, sender, receiver, contents, parser,
                   to_agent, open, out_of_step, request, get_task>>
  BY DEF DownloadRun
<1>. QED
  BY <1>7, <1>8, <1>9, <1>10 DEF WTypes

(* DownloadTask::CleanUp(): the task is done with receiving, or not yet. *)
LEMMA CleanUpFact ==
    ASSUME WTypes, NEW c \in Clients, NEW i \in 1..Len(tasks[c]), NEW part \in BOOLEAN,
           tasks' = [tasks EXCEPT ![c][i].cleaning = part]
    PROVE  /\ \E t : /\ TaskBecomes(c, i, t) /\ t.cleaning = part
                     /\ t.kind = tasks[c][i].kind /\ t.cancelled = tasks[c][i].cancelled
                     /\ t.status = tasks[c][i].status /\ t.socket = tasks[c][i].socket
           /\ tasks' \in [Clients -> Seq(TaskType)]
           /\ \A d \in Clients : \A j \in 1..Len(tasks'[d]) : HasSocket(tasks'[d][j])
<1> DEFINE o == tasks[c][i]
           t == [o EXCEPT !.cleaning = part]
<1>1. o \in TaskType /\ HasSocket(o)
  BY DEF WTypes
<1>2. tasks' = [tasks EXCEPT ![c] = [@ EXCEPT ![i] = t]]
  OBVIOUS
<1> HIDE DEF o
<1>3. /\ t \in TaskType /\ t.kind = o.kind /\ t.cancelled = o.cancelled /\ t.status = o.status
      /\ t.socket = o.socket /\ t.cleaning = part
  BY <1>1 DEF TaskType
<1>4. HasSocket(t)
  BY <1>1, <1>3 DEF HasSocket
<1> HIDE DEF t
<1>5. /\ TaskBecomes(c, i, t) /\ tasks' \in [Clients -> Seq(TaskType)]
      /\ \A d \in Clients : \A j \in 1..Len(tasks'[d]) : HasSocket(tasks'[d][j])
  BY <1>2, <1>3, <1>4, OneTaskTypes
<1>. QED
  BY <1>3, <1>5 DEF o

(* So it keeps the types. *)
LEMMA CleanUpTypes ==
    ASSUME WTypes, NEW c \in Clients, NEW i \in 1..Len(tasks[c]), DownloadCleanUp(c, i)
    PROVE  WTypes'
<1>1. /\ tasks' \in [Clients -> Seq(TaskType)]
      /\ \A d \in Clients : \A j \in 1..Len(tasks'[d]) : HasSocket(tasks'[d][j])
  <2>1. \E part \in BOOLEAN : tasks' = [tasks EXCEPT ![c][i].cleaning = part]
    BY DEF DownloadCleanUp, MayHoldPart
  <2>. QED
    BY <2>1, CleanUpFact
<1>2. to_client' \in [Clients -> Seq(ToClient)]
  <2>1. UNCHANGED to_client \/ \E n \in 1..Len(to_client[c]) :
           to_client' = [to_client EXCEPT ![c] = SubSeq(@, n + 1, Len(@))]
    BY DEF DownloadCleanUp
  <2>2. to_client[c] \in Seq(ToClient)
    BY DEF WTypes
  <2>3. ASSUME NEW n \in 1..Len(to_client[c])
        PROVE  SubSeq(to_client[c], n + 1, Len(to_client[c])) \in Seq(ToClient)
    BY <2>2, PartFact
  <2>4. UNCHANGED to_client \/ \E q \in Seq(ToClient) : to_client' = [to_client EXCEPT ![c] = q]
    BY <2>1, <2>3
  <2>. QED
    BY <2>4 DEF WTypes
<1>3. DOMAIN out_of_step' = Clients
  BY DEF DownloadCleanUp, Disturbed, WTypes
<1>4. UNCHANGED <<command, file, next_id, cid, loaded, files, sender, receiver, contents, parser,
                  to_agent, open, saved, request, get_task>>
  BY DEF DownloadCleanUp
<1>. QED
  BY <1>1, <1>2, <1>3, <1>4 DEF WTypes

(* Every step keeps the types. *)
LEMMA TypesStep ==
    ASSUME WTypes, \A c \in Clients : CancelsGets(c), [Next]_vars PROVE WTypes'
<1>1. CASE UNCHANGED vars
  BY <1>1 DEF vars, WTypes
<1>2. ASSUME NEW c \in Clients, Server(c), UNCHANGED client_vars PROVE WTypes'
  BY <1>2, FileTypes, ReadTypes, GenerateTypes, RespondTypes, SenderTypes, ReceiverTypes
     DEF Server, Agent
<1>3. ASSUME NEW t, Terminate(t), UNCHANGED client_vars PROVE WTypes'
  BY <1>3 DEF Terminate, WTypes
<1>4. ASSUME NEW c \in Clients,
             Connect(c) \/ TypeRequest(c) \/ TypeTerminate(c) \/ TypeQuit(c) \/ Shell(c)
             \/ RunTask(c)
      PROVE  WTypes'
  BY <1>4, ShellTypes, TerminateTypes, WaitTypes, UploadTypes, DownloadTypes, CleanUpTypes
     DEF Shell, RunTask
<1>. QED
  BY <1>1, <1>2, <1>3, <1>4 DEF Next

-----------------------------------------------------------------------------
(* The invariant of one client. *)

(* Nothing has changed for client d but where its agent is, and what only    *)
(* the agent knows.                                                          *)
SameButLabel(d) ==
    /\ shell'[d] = shell[d] /\ open'[d] = open[d] /\ request'[d] = request[d]
    /\ tasks'[d] = tasks[d] /\ get_task'[d] = get_task[d] /\ out_of_step'[d] = out_of_step[d]
    /\ to_client'[d] = to_client[d] /\ to_agent'[d] = to_agent[d] /\ parser'[d] = parser[d]
    /\ receiver'[d] = receiver[d]

(* Nothing has changed for client d. *)
SameClient(d) ==
    /\ SameButLabel(d) /\ apc'[d] = apc[d] /\ command'[d] = command[d]
    /\ sender'[d] = sender[d] /\ contents'[d] = contents[d]

(* The agent of d is at `label' and nothing that matters there has changed. *)
Moves(d, label) ==
    /\ apc'[d] = label
    /\ label # "ended" =>
          /\ apc[d] # "ended"
          /\ label \in ReceivingLabels <=> apc[d] \in ReceivingLabels
          /\ label # "read" => apc[d] # "read"
          /\ apc[d] \in Unanswered => label \in Unanswered
    /\ label \in Unanswered => apc[d] \in Unanswered /\ command'[d] = command[d]
    /\ \A L \in {AfterGet, AfterPut, AfterOther} : apc[d] \in L => label \in L

(* Nor in what it sends. *)
SendsSame(d, label) ==
    /\ label = "open" => apc[d] = "open"
    /\ label \in SendingLabels => apc[d] \in SendingLabels /\ sender'[d] = sender[d]

(* What is on its way to and from the client stays. *)
LEMMA SameStreams ==
    ASSUME NEW d, SameButLabel(d)
    PROVE  /\ LastTask(d)' = LastTask(d)
           /\ GetRuns(d)' <=> GetRuns(d)
           /\ InStep(d)' <=> InStep(d)
           /\ (apc'[d] \in ReceivingLabels <=> apc[d] \in ReceivingLabels) => Up(d)' = Up(d)
<1>1. LastTask(d)' = LastTask(d)
  BY Zenon DEF SameButLabel, LastTask
<1>. QED
  BY <1>1, Zenon DEF SameButLabel, GetRuns, InStep, Up

(* The agent moves on, and downloads stay whole. *)
LEMMA StageInv ==
    ASSUME NEW d, ClientInv(d), SameButLabel(d), AllInStep' => AllInStep,
           NEW label, Moves(d, label), LocalToPut(d)',
           InStep(d) => contents'[d] \in WholeFiles,
           AllInStep' => \A r, q : Downloads(d, r, q) => Downloads(d, r, q)'
    PROVE  ClientInv(d)'
<1>1. /\ LastTask(d)' = LastTask(d)
      /\ GetRuns(d)' <=> GetRuns(d)
      /\ InStep(d)' <=> InStep(d)
  BY SameStreams
<1>2. label # "ended" => Up(d)' = Up(d)
  BY SameStreams DEF Moves
<1>3. OpenEnd(d)' /\ CancelsGets(d)'
  BY DEF ClientInv, OpenEnd, CancelsGets, SameButLabel
<1>4. ASSUME InStep(d) PROVE OneTask(d)' /\ GetAnswered(d)'
  <2>1. OneTask(d)'
    BY <1>4 DEF ClientInv, StepInv, OneTask, SameButLabel
  <2>2. GetAnswered(d)'
    BY <1>1, <1>4 DEF ClientInv, StepInv, GetAnswered, Moves
  <2>. QED
    BY <2>1, <2>2
<1>5. ASSUME InStep(d) PROVE Asked(d)'
  <2> SUFFICES ASSUME apc'[d] # "ended" PROVE Asked(d)'
    BY DEF Asked
  <2>1. Up(d)' = Up(d) /\ apc[d] # "ended" /\ (apc'[d] # "read" => apc[d] # "read")
    BY <1>2 DEF Moves
  <2>2. apc'[d] \in Unanswered <=> apc[d] \in Unanswered
    BY DEF Moves
  <2>3. Asked(d)
    BY <1>5 DEF ClientInv, StepInv
  <2>4. request'[d].kind = command[d] => (apc'[d] \in Unanswered => request'[d].kind = command'[d])
    BY DEF Moves
  <2>. QED
    BY <2>1, <2>2, <2>3, <2>4 DEF Asked, SameButLabel, AllContents
<1>6. ASSUME InStep(d) PROVE Answered(d)'
  <2>1. Answered(d)
    BY <1>6 DEF ClientInv, StepInv
  <2>2. apc'[d] # "ended" => Up(d)' = Up(d) /\ apc[d] # "ended"
    BY <1>2 DEF Moves
  <2>3. \A L \in {AfterGet, AfterPut, AfterOther} : apc[d] \in L => apc'[d] \in L
    BY DEF Moves
  <2>. QED
    BY <2>1, <2>2, <2>3 DEF Answered, SameButLabel
<1>7. ASSUME InStep(d), apc'[d] \in ReceivingLabels PROVE Uploads(d)'
  <2>1. Up(d)' = Up(d) /\ apc[d] \in ReceivingLabels
    BY <1>2, <1>7 DEF Moves, ReceivingLabels
  <2>2. Uploads(d)
    BY <1>7, <2>1 DEF ClientInv, StepInv
  <2>. QED
    BY <1>1, <2>1, <2>2 DEF Uploads, SameButLabel
<1>8. StepInv(d)'
  BY <1>1, <1>4, <1>5, <1>6, <1>7 DEF StepInv
<1>9. WholeInv(d)'
  BY <1>1 DEF ClientInv, WholeInv, SameButLabel
<1>. QED
  BY <1>3, <1>8, <1>9 DEF ClientInv

(* The agent moves on, and sends what it would have sent. *)
LEMMA MoveInv ==
    ASSUME NEW d, ClientInv(d), SameButLabel(d), AllInStep' => AllInStep,
           NEW label, Moves(d, label), SendsSame(d, label), LocalToPut(d)',
           InStep(d) => contents'[d] \in WholeFiles
    PROVE  ClientInv(d)'
<1>1. ASSUME NEW r, NEW q, Downloads(d, r, q) PROVE Downloads(d, r, q)'
  <2>1. apc'[d] = "open" => apc[d] = "open"
    BY DEF Moves, SendsSame
  <2>2. apc'[d] \in SendingLabels => apc[d] \in SendingLabels /\ sender'[d] = sender[d]
    BY DEF Moves, SendsSame
  <2>. QED
    BY <1>1, <2>1, <2>2 DEF Downloads, SameButLabel
<1>. QED
  BY <1>1, StageInv

(* A client that takes no part in a step. *)
LEMMA OtherInv ==
    ASSUME NEW d, ClientInv(d), SameClient(d), AllInStep' => AllInStep PROVE ClientInv(d)'
<1>1. Moves(d, apc[d]) /\ SendsSame(d, apc[d])
  BY DEF Moves, SendsSame, SameClient
<1>2. LocalToPut(d)'
  BY DEF LocalToPut, SameClient, SameButLabel, ClientInv
<1>3. InStep(d) => contents'[d] \in WholeFiles
  BY DEF SameClient, ClientInv, StepInv
<1>. QED
  BY <1>1, <1>2, <1>3, MoveInv DEF SameClient

(* A step of client c or its agent. *)
LEMMA OneClient ==
    ASSUME WInv, WTypes', NEW c \in Clients, \A d \in Clients \ {c} : SameClient(d),
           ClientInv(c)', InStep(c)' => InStep(c), FilesWhole'
    PROVE  WInv'
<1>1. AllInStep' => AllInStep
  BY DEF AllInStep, InStep, SameClient, SameButLabel
<1>2. \A d \in Clients : ClientInv(d)'
  BY <1>1, OtherInv DEF WInv
<1>. QED
  BY <1>2 DEF WInv

(* The same, if no more is to be read from the disk than before. *)
LEMMA FilesStay ==
    ASSUME FilesWhole, AllInStep' => AllInStep, UNCHANGED files PROVE FilesWhole'
  BY DEF FilesWhole

(* A step that only takes the agent of c further. *)
LEMMA OneMove ==
    ASSUME WInv, WTypes', NEW c \in Clients, \A d \in Clients \ {c} : SameClient(d),
           SameButLabel(c), NEW label, Moves(c, label), SendsSame(c, label), LocalToPut(c)',
           InStep(c) => contents'[c] \in WholeFiles, FilesWhole'
    PROVE  WInv'
<1>1. (AllInStep' => AllInStep) /\ (InStep(c)' => InStep(c))
  BY DEF AllInStep, InStep, SameClient, SameButLabel
<1>2. ClientInv(c)'
  BY <1>1, MoveInv DEF WInv
<1>. QED
  BY <1>1, <1>2, OneClient

(* The process dies. *)
LEMMA CrashInv ==
    ASSUME WInv, WTypes', Crash, \A d \in Clients : SameButLabel(d), UNCHANGED <<files, contents>>,
           \A d \in Clients : apc[d] = "none" => command'[d] = command[d] /\ sender'[d] = sender[d]
    PROVE  WInv'
<1>1. AllInStep' => AllInStep
  BY DEF AllInStep, InStep, SameButLabel
<1>2. ASSUME NEW d \in Clients PROVE ClientInv(d)'
  <2>1. \/ apc'[d] = "ended"
        \/ apc'[d] = apc[d] /\ command'[d] = command[d] /\ sender'[d] = sender[d]
    BY DEF Crash
  <2>2. InStep(d) => contents'[d] \in WholeFiles
    BY DEF WInv, ClientInv, StepInv
  <2>3. CASE apc'[d] = "ended"
    <3>1. Moves(d, "ended") /\ SendsSame(d, "ended")
      BY <2>3 DEF Moves, SendsSame, Unanswered, AfterGet, AfterPut, AfterOther, SendingLabels
    <3>2. LocalToPut(d)'
      BY <2>3 DEF LocalToPut
    <3>. QED
      BY <1>1, <2>2, <3>1, <3>2, MoveInv DEF WInv
  <2>4. CASE apc'[d] = apc[d] /\ command'[d] = command[d] /\ sender'[d] = sender[d]
    BY <1>1, <2>4, OtherInv DEF SameClient, WInv
  <2>. QED
    BY <2>1, <2>3, <2>4
<1>. QED
  BY <1>1, <1>2, FilesStay DEF WInv

(* Where the agent goes. *)
LEMMA GotoFact ==
    ASSUME IInv, NEW c \in Clients, NEW label, Goto(c, label)
    PROVE  apc'[c] = label /\ \A d \in Clients \ {c} : apc'[d] = apc[d]
  BY DEF Goto, IInv, Types

USE DEF ReceivingLabels, SendingLabels, Unanswered, AfterGet, AfterPut, AfterOther

(* NPortTask::Listen(). *)
LEMMA NPortInv ==
    ASSUME IInv, WInv, WTypes', NEW c \in Clients, NPortListen(c), UNCHANGED client_vars PROVE WInv'
<1>1. \A d \in Clients : SameButLabel(d)
  BY DEF NPortListen, SameButLabel
<1>2. UNCHANGED <<command, sender, contents, files, receiver>> /\ apc[c] = "pending"
  BY DEF NPortListen
<1>3. \A d \in Clients \ {c} : SameClient(d)
  BY <1>1, <1>2 DEF NPortListen, SameClient, Goto, IInv, Types
<1>4. CASE Goto(c, "read")
  <2>1. apc'[c] = "read"
    BY <1>4, GotoFact
  <2>2. Moves(c, "read") /\ SendsSame(c, "read")
    BY <1>2, <2>1 DEF Moves, SendsSame
  <2>3. LocalToPut(c)'
    BY <1>2, <2>1 DEF LocalToPut, WInv, ClientInv
  <2>4. FilesWhole'
    BY <1>1, <1>2, FilesStay DEF WInv, AllInStep, InStep, SameButLabel
  <2>5. InStep(c) => contents'[c] \in WholeFiles
    BY <1>2 DEF WInv, ClientInv, StepInv
  <2>. QED
    BY <1>1, <1>3, <2>2, <2>3, <2>4, <2>5, OneMove
<1>5. CASE UNCHANGED apc
  <2>1. \A d \in Clients : SameClient(d)
    BY <1>1, <1>2, <1>5 DEF SameClient
  <2>. QED
    BY <1>1, <1>2, <2>1, OtherInv, FilesStay DEF WInv, AllInStep, InStep, SameButLabel
<1>. QED
  BY <1>4, <1>5 DEF NPortListen

(* A move of an agent that changes nothing but its local variables. *)
LEMMA LocalMove ==
    ASSUME IInv, WInv, WTypes', NEW c \in Clients, NEW label, Goto(c, label),
           UNCHANGED <<files, receiver, parser, to_agent, to_client, open, out_of_step,
                       shell, request, tasks, get_task>>,
           \A d \in Clients \ {c} :
              command'[d] = command[d] /\ sender'[d] = sender[d] /\ contents'[d] = contents[d],
           InStep(c) => contents'[c] \in WholeFiles,
           apc'[c] = label => Moves(c, label) /\ SendsSame(c, label) /\ LocalToPut(c)'
    PROVE  WInv'
<1>1. \A d \in Clients : SameButLabel(d)
  BY DEF SameButLabel
<1>2. apc'[c] = label /\ \A d \in Clients \ {c} : SameClient(d)
  BY <1>1, GotoFact DEF SameClient
<1>3. FilesWhole'
  BY <1>1, FilesStay DEF WInv, AllInStep, InStep, SameButLabel
<1>. QED
  BY <1>1, <1>2, <1>3, OneMove

(* CommandIDs::GenerateID() and Insert(). *)
LEMMA GenerateInv ==
    ASSUME IInv, WInv, WTypes', NEW c \in Clients, GenerateID(c), UNCHANGED client_vars PROVE WInv'
<1>1. /\ UNCHANGED <<files, receiver, parser, to_agent, to_client, open, out_of_step,
                     shell, request, tasks, get_task, command, sender, contents>>
      /\ apc[c] \in {"load", "store", "check", "take", "insert"}
  BY DEF GenerateID, GenerateLoad, GenerateStore, GenerateCheck, GenerateTake, Insert
<1>2. PICK label \in {"load", "store", "check", "take", "insert", "respond"} : Goto(c, label)
  BY DEF GenerateID, GenerateLoad, GenerateStore, GenerateCheck, GenerateTake, Insert
<1>3. apc'[c] = label => Moves(c, label) /\ SendsSame(c, label)
  BY <1>1, <1>2 DEF Moves, SendsSame
<1>4. apc'[c] = label => LocalToPut(c)'
  BY <1>1, <1>2 DEF LocalToPut, WInv, ClientInv
<1>5. InStep(c) => contents'[c] \in WholeFiles
  BY <1>1 DEF WInv, ClientInv, StepInv
<1>. QED
  BY <1>1, <1>2, <1>3, <1>4, <1>5, LocalMove

(* The id is looked up. *)
LEMMA CheckInv ==
    ASSUME IInv, WInv, WTypes', NEW c \in Clients, CheckSent(c) \/ CheckReceived(c),
           UNCHANGED client_vars
    PROVE  WInv'
<1>1. UNCHANGED <<files, receiver, parser, to_agent, to_client, open, out_of_step,
                  shell, request, tasks, get_task, command, sender, contents>>
  BY DEF CheckSent, CheckReceived
<1>2. PICK label : Goto(c, label)
         /\ \/ apc[c] = "check_sent" /\ label = SendLabel(sender[c], IsTerminated(c))
            \/ apc[c] = "check_received" /\ label = "receive"
  BY DEF CheckSent, CheckReceived
<1>3. apc'[c] = label => Moves(c, label) /\ SendsSame(c, label)
  BY <1>1, <1>2 DEF Moves, SendsSame, SendLabel
<1>4. apc'[c] = label => LocalToPut(c)'
  BY <1>1, <1>2 DEF LocalToPut, WInv, ClientInv, SendLabel, SentCompleteFile
<1>5. InStep(c) => contents'[c] \in WholeFiles
  BY <1>1 DEF WInv, ClientInv, StepInv
<1>. QED
  BY <1>1, <1>2, <1>3, <1>4, <1>5, LocalMove

(* Delete(). *)
LEMMA EndInv ==
    ASSUME IInv, WInv, WTypes', NEW c \in Clients, EndCommand(c), UNCHANGED client_vars PROVE WInv'
<1>1. /\ UNCHANGED <<files, receiver, parser, to_agent, to_client, open, out_of_step,
                     shell, request, tasks, get_task, contents>>
      /\ command' = [command EXCEPT ![c] = "other"]
      /\ sender' = [sender EXCEPT ![c] = SetFileContents(<<>>)]
  BY DEF EndCommand, Forget
<1>2. PICK label : Goto(c, label)
         /\ \/ apc[c] = "delete" /\ label = "read"
            \/ apc[c] = "abort" /\ label = "ended"
  BY DEF EndCommand
<1>3. apc'[c] = label => Moves(c, label) /\ SendsSame(c, label)
  BY <1>1, <1>2 DEF Moves, SendsSame
<1>4. apc'[c] = label => LocalToPut(c)'
  BY <1>1, <1>2 DEF LocalToPut, WInv, ClientInv
<1>5. InStep(c) => contents'[c] \in WholeFiles
  BY <1>1 DEF WInv, ClientInv, StepInv
<1>6. \A d \in Clients \ {c} : command'[d] = command[d] /\ sender'[d] = sender[d]
  BY <1>1 DEF WInv, WTypes
<1>. QED
  BY <1>1, <1>2, <1>3, <1>4, <1>5, <1>6, LocalMove

(* The requests that are answered at once. *)
LEMMA OtherRequestsInv ==
    ASSUME IInv, WInv, WTypes', NEW c \in Clients, HandleDelete(c) \/ HandleOther(c),
           UNCHANGED client_vars
    PROVE  WInv'
<1>1. /\ UNCHANGED <<receiver, parser, to_agent, to_client, open, out_of_step,
                     shell, request, tasks, get_task, command, sender, contents>>
      /\ apc[c] \in {"del", "other"}
  BY DEF HandleDelete, HandleOther
<1>2. CASE Crash
  <2>1. UNCHANGED files \/ apc'[c] = "reply"
    BY DEF HandleDelete, HandleOther, Goto, IInv, Types
  <2>2. UNCHANGED files
    BY <1>1, <1>2, <2>1 DEF Crash
  <2>. QED
    BY <1>1, <1>2, <2>2, CrashInv DEF SameButLabel
<1>3. ASSUME NEW label \in {"reply", "ended"}, Goto(c, label) PROVE WInv'
  <2>1. apc'[c] = label
    BY <1>3, GotoFact
  <2>2. Moves(c, label) /\ SendsSame(c, label)
    BY <1>1, <2>1 DEF Moves, SendsSame
  <2>3. LocalToPut(c)'
    BY <1>1, <2>1 DEF LocalToPut, WInv, ClientInv
  <2>4. InStep(c) => contents'[c] \in WholeFiles
    BY <1>1 DEF WInv, ClientInv, StepInv
  <2>5. \A d \in Clients : SameButLabel(d)
    BY <1>1 DEF SameButLabel
  <2>6. \A d \in Clients \ {c} : SameClient(d)
    BY <1>1, <1>3, <2>5, GotoFact DEF SameClient
  <2>7. FilesWhole'
    <3>1. AllInStep' <=> AllInStep
      BY <1>1 DEF AllInStep, InStep
    <3>2. \A f \in Files : files'[f] \in {files[f], Missing}
      BY DEF HandleDelete, HandleOther, WInv, WTypes
    <3>. QED
      BY <3>1, <3>2 DEF FilesWhole, WInv
  <2>. QED
    BY <2>2, <2>3, <2>4, <2>5, <2>6, <2>7, OneMove
<1>. QED
  BY <1>2, <1>3 DEF HandleDelete, HandleOther

(* FileHandler::Put(): what is written is whole, or its connection has been  *)
(* used out of step.                                                         *)
LEMMA WriteInv ==
    ASSUME IInv, WInv, WTypes', NEW c \in Clients, WriteFile(c), UNCHANGED client_vars PROVE WInv'
<1>1. /\ UNCHANGED <<receiver, parser, to_agent, to_client, open, out_of_step,
                     shell, request, tasks, get_task, command, sender>>
      /\ apc[c] = "write" /\ Goto(c, "delete") /\ contents' = [contents EXCEPT ![c] = <<>>]
  BY DEF WriteFile
<1>2. apc'[c] = "delete" /\ contents'[c] = <<>>
  BY <1>1, GotoFact DEF WInv, WTypes
<1>3. Moves(c, "delete") /\ SendsSame(c, "delete")
  BY <1>1, <1>2 DEF Moves, SendsSame
<1>4. LocalToPut(c)'
  BY <1>1, <1>2 DEF LocalToPut, WInv, ClientInv
<1>5. \A d \in Clients : SameButLabel(d)
  BY <1>1 DEF SameButLabel
<1>6. \A d \in Clients \ {c} : SameClient(d)
  BY <1>1, <1>5, GotoFact DEF SameClient, WInv, WTypes
<1>7. FilesWhole'
  <2>1. AllInStep' <=> AllInStep
    BY <1>1 DEF AllInStep, InStep
  <2>2. \A f \in Files : files'[f] \in {files[f], contents[c]}
    BY DEF WriteFile, WInv, WTypes
  <2>3. AllInStep => contents[c] \in WholeFiles
    BY DEF AllInStep, WInv, ClientInv, StepInv
  <2>. QED
    BY <2>1, <2>2, <2>3 DEF FilesWhole, WInv
<1>8. contents'[c] \in WholeFiles
  BY <1>2 DEF WholeFiles
<1>. QED
  BY <1>3, <1>4, <1>5, <1>6, <1>7, <1>8, OneMove

-----------------------------------------------------------------------------
(* Messages on their way. *)

(* u2 is what is left of u when its first message m has been taken. *)
Popped(u, u2, m) ==
    /\ Len(u) > 0 /\ m = u[1] /\ Len(u2) = Len(u) - 1
    /\ \A i \in 1..Len(u2) : u2[i] = u[i + 1]

(* The first of the messages that the parser holds. *)
LEMMA PopHeld ==
    ASSUME NEW S, NEW p \in Seq(S), NEW q \in Seq(S), p # <<>>
    PROVE  Popped(p \o q, Tail(p) \o q, Head(p))
<1>1. Tail(p) \in Seq(S) /\ Len(Tail(p)) = Len(p) - 1 /\ Len(p) > 0 /\ Head(p) = p[1]
      /\ \A i \in 1..Len(Tail(p)) : Tail(p)[i] = p[i + 1]
  BY HeadTailProperties
<1>2. /\ Len(p \o q) = Len(p) + Len(q) /\ Len(Tail(p) \o q) = Len(p) - 1 + Len(q)
      /\ \A i \in 1..(Len(p) + Len(q)) : (p \o q)[i] = IF i <= Len(p) THEN p[i] ELSE q[i - Len(p)]
      /\ \A i \in 1..(Len(p) - 1 + Len(q)) :
            (Tail(p) \o q)[i] = IF i <= Len(p) - 1 THEN Tail(p)[i] ELSE q[i - (Len(p) - 1)]
  BY <1>1, ConcatProperties
<1>3. Len(p) \in Nat /\ Len(q) \in Nat
  OBVIOUS
<1> DEFINE u == p \o q
           v == Tail(p) \o q
<1> HIDE DEF u, v
<1>4. /\ Len(u) = Len(p) + Len(q) /\ Len(v) = Len(p) - 1 + Len(q)
      /\ \A i \in 1..(Len(p) + Len(q)) : u[i] = IF i <= Len(p) THEN p[i] ELSE q[i - Len(p)]
      /\ \A i \in 1..(Len(p) - 1 + Len(q)) :
            v[i] = IF i <= Len(p) - 1 THEN Tail(p)[i] ELSE q[i - (Len(p) - 1)]
  BY <1>2, Zenon DEF u, v
<1>5. ASSUME NEW i \in 1..Len(v) PROVE v[i] = u[i + 1]
  <2>1. i \in Nat \ {0} /\ i <= Len(p) - 1 + Len(q) /\ i + 1 \in 1..(Len(p) + Len(q))
    BY <1>3, <1>4, <1>5
  <2>2. CASE i <= Len(p) - 1
    <3>1. v[i] = Tail(p)[i] /\ u[i + 1] = p[i + 1] /\ i \in 1..Len(Tail(p))
      BY <1>1, <1>3, <1>4, <1>5, <2>1, <2>2
    <3>. QED
      BY <1>1, <3>1
  <2>3. CASE ~(i <= Len(p) - 1)
    <3>1. v[i] = q[i - (Len(p) - 1)] /\ u[i + 1] = q[i + 1 - Len(p)]
      BY <1>3, <1>4, <1>5, <2>1, <2>3
    <3>2. i - (Len(p) - 1) = i + 1 - Len(p)
      BY <1>3, <2>1
    <3>. QED
      BY <3>1, <3>2
  <2>. QED
    BY <2>2, <2>3
<1>6. Popped(u, v, Head(p))
  BY <1>1, <1>3, <1>4, <1>5 DEF Popped
<1>. QED
  BY <1>6 DEF u, v

(* The first of those that recv() returns, with some behind it. *)
LEMMA PopRead ==
    ASSUME NEW S, NEW q \in Seq(S), NEW n \in 1..Len(q)
    PROVE  /\ Popped(q, SubSeq(q, 2, n) \o SubSeq(q, n + 1, Len(q)), Head(q))
           /\ <<>> \o q = q
           /\ \A i \in 1..Len(SubSeq(q, n + 1, Len(q))) : SubSeq(q, n + 1, Len(q))[i] = q[n + i]
           /\ Len(SubSeq(q, n + 1, Len(q))) = Len(q) - n
<1>1. /\ Len(q) \in Nat \ {0} /\ Head(q) = q[1] /\ q # <<>>
  OBVIOUS
<1>2. SubSeq(q, 2, n) \o SubSeq(q, n + 1, Len(q)) = SubSeq(q, 2, Len(q))
  <2>1. 2 \in 1..Len(q)+1 /\ n \in 2-1..Len(q) /\ Len(q) \in n..Len(q)
    BY <1>1
  <2>. QED
    BY <2>1, ConcatAdjacentSubSeq
<1>3. /\ Len(SubSeq(q, 2, Len(q))) = Len(q) - 1
      /\ \A i \in 1..(Len(q) - 1) : SubSeq(q, 2, Len(q))[i] = q[i + 1]
  <2>1. \A i \in 2..Len(q) : q[i] \in S
    OBVIOUS
  <2>2. /\ Len(SubSeq(q, 2, Len(q))) = IF 2 <= Len(q) THEN Len(q) - 2 + 1 ELSE 0
        /\ \A i \in 1..(Len(q) - 2 + 1) : SubSeq(q, 2, Len(q))[i] = q[2 + i - 1]
    BY <1>1, <2>1, SubSeqProperties
  <2> DEFINE t == SubSeq(q, 2, Len(q))
  <2> HIDE DEF t
  <2>3. /\ Len(t) = IF 2 <= Len(q) THEN Len(q) - 2 + 1 ELSE 0
        /\ \A i \in 1..(Len(q) - 2 + 1) : t[i] = q[2 + i - 1]
    BY <2>2, Zenon DEF t
  <2>4. Len(t) = Len(q) - 1
    <3> DEFINE l == Len(q)
               y == Len(t)
    <3>1. l \in Nat \ {0} /\ y = IF 2 <= l THEN l - 2 + 1 ELSE 0
      BY <1>1, <2>3, Zenon
    <3> HIDE DEF l, y
    <3>2. y = l - 1
      BY <3>1
    <3>. QED
      BY <3>2 DEF l, y
  <2>5. ASSUME NEW i \in 1..(Len(q) - 1) PROVE t[i] = q[i + 1]
    <3>1. i \in 1..(Len(q) - 2 + 1) /\ 2 + i - 1 = i + 1
      BY <1>1
    <3>2. t[i] = q[2 + i - 1]
      BY <2>3, <3>1
    <3>. QED
      BY <3>1, <3>2
  <2>. QED
    BY <2>4, <2>5 DEF t
<1>4. /\ Len(SubSeq(q, n + 1, Len(q))) = Len(q) - n
      /\ \A i \in 1..(Len(q) - n) : SubSeq(q, n + 1, Len(q))[i] = q[n + i]
  BY <1>1, SubSeqProperties
<1>5. Popped(q, SubSeq(q, 2, Len(q)), Head(q))
  BY <1>1, <1>3 DEF Popped
<1>6. <<>> \o q = q
  BY ConcatEmptySeq
<1>. QED
  BY <1>2, <1>4, <1>5, <1>6

(* One more message. *)
LEMMA PushFact ==
    ASSUME NEW S, NEW p \in Seq(S), NEW q \in Seq(S), NEW m \in S
    PROVE  /\ p \o Append(q, m) = Append(p \o q, m)
           /\ Append(q, m) \in Seq(S) /\ Len(Append(q, m)) = Len(q) + 1
           /\ Append(q, m)[Len(q) + 1] = m /\ \A i \in 1..Len(q) : Append(q, m)[i] = q[i]
<1>1. Append(q, m) = q \o <<m>> /\ p \o q \in Seq(S) /\ <<m>> \in Seq(S)
  BY AppendIsConcat
<1>2. Append(p \o q, m) = (p \o q) \o <<m>>
  BY <1>1, AppendIsConcat
<1>3. (p \o q) \o <<m>> = p \o (q \o <<m>>)
  BY <1>1, ConcatAssociative
<1>4. /\ Append(q, m) \in Seq(S) /\ Len(Append(q, m)) = Len(q) + 1
      /\ Append(q, m)[Len(q) + 1] = m /\ \A i \in 1..Len(q) : Append(q, m)[i] = q[i]
  OBVIOUS
<1>. QED
  BY <1>1, <1>2, <1>3, <1>4, Zenon

(* The part of it that a parser needs. *)
LEMMA PushHeld ==
    ASSUME NEW S, NEW p \in Seq(S), NEW q \in Seq(S), NEW m \in S
    PROVE  p \o q \in Seq(S) /\ p \o Append(q, m) = Append(p \o q, m)
  BY PushFact, ConcatProperties

(* What the agent has not taken is made of messages to it. *)
LEMMA UpType ==
    ASSUME WTypes, NEW c \in Clients
    PROVE  /\ Up(c) \in Seq(ToAgent) /\ Len(Up(c)) \in Nat
           /\ parser[c] \in Seq(ToAgent) /\ receiver[c].parser \in Seq(ToAgent)
           /\ to_agent[c] \in Seq(ToAgent)
           /\ Up(c) = <<>> => /\ to_agent[c] = <<>>
                              /\ apc[c] \notin ReceivingLabels => parser[c] = <<>>
<1>1. parser[c] \in Seq(ToAgent) /\ receiver[c].parser \in Seq(ToAgent) /\ to_agent[c] \in Seq(ToAgent)
  BY DEF WTypes, ReceiverType
<1> DEFINE p == IF apc[c] \in ReceivingLabels THEN receiver[c].parser ELSE parser[c]
<1>2. p \in Seq(ToAgent) /\ Up(c) = p \o to_agent[c]
  BY <1>1, Zenon DEF Up
<1> HIDE DEF p
<1>3. p \o to_agent[c] \in Seq(ToAgent) /\ (p \o to_agent[c] = <<>> => p = <<>> /\ to_agent[c] = <<>>)
  BY <1>1, <1>2, ConcatEqualIffEmpty
<1>4. Up(c) \in Seq(ToAgent) /\ (Up(c) = <<>> => p = <<>> /\ to_agent[c] = <<>>)
  BY <1>2, <1>3, Zenon
<1>5. Len(Up(c)) \in Nat
  BY <1>4
<1>6. apc[c] \notin ReceivingLabels => p = parser[c]
  BY Zenon DEF p
<1>. QED
  BY <1>1, <1>4, <1>5, <1>6, Zenon

(* A message is of the kind that its type says. *)
LEMMA MessageTypes ==
    /\ \A m \in ToAgent : m.type \in {"request", "contents"}
    /\ \A m \in ToAgent : m.type = "contents" => m \in ContentsMessage
    /\ \A m \in ToAgent : m.type = "request" => m \in RequestMessage
    /\ \A m \in ToClient : m.type \in {"response", "contents"}
    /\ \A m \in ToClient : m.type = "contents" => m \in ContentsMessage
  BY DEF ToAgent, ToClient, RequestMessage, ResponseMessage, ContentsMessage

(* While the shell waits for a response no download runs. *)
LEMMA NoGetRuns ==
    ASSUME WTypes, NEW c \in Clients, OneTask(c), shell[c] = "response" PROVE ~GetRuns(c)
<1>1. tasks[c] # <<>> => Len(tasks[c]) \in 1..Len(tasks[c])
  BY DEF WTypes
<1>. QED
  BY <1>1 DEF OneTask, GetRuns, LastTask

-----------------------------------------------------------------------------
(* The steps of the agent that use the connection. *)

(* Nobody comes back into step. *)
LEMMA StepsStay ==
    ASSUME NEW c \in Clients, \A d \in Clients \ {c} : SameClient(d), InStep(c)' => InStep(c)
    PROVE  AllInStep' => AllInStep
  BY DEF AllInStep, InStep, SameClient, SameButLabel

(* The same for a client that uses its connection. *)
LEMMA UseInv ==
    ASSUME WInv, WTypes', NEW c \in Clients, \A d \in Clients \ {c} : SameClient(d),
           UNCHANGED files, InStep(c)' => InStep(c),
           OpenEnd(c)', CancelsGets(c)', LocalToPut(c)', StepInv(c)',
           AllInStep /\ AllInStep' => WholeInv(c)'
    PROVE  WInv'
<1>1. AllInStep' => AllInStep
  BY StepsStay
<1>2. ClientInv(c)'
  BY <1>1 DEF ClientInv, WholeInv
<1>. QED
  BY <1>1, <1>2, FilesStay, OneClient DEF WInv

(* The request that the shell waits for has been taken. *)
LEMMA ReadInv ==
    ASSUME IInv, WInv, WTypes', NEW c \in Clients, ReadNextMessage(c), UNCHANGED client_vars
    PROVE  WInv'
<1>1. /\ UNCHANGED <<files, sender, receiver, contents, to_client, open, shell, request, tasks,
                     get_task>>
      /\ apc[c] = "read"
  BY DEF ReadNextMessage
<1>2. WTypes /\ ClientInv(c) /\ FilesWhole
  BY DEF WInv
<1>3. /\ Up(c) = parser[c] \o to_agent[c] /\ Up(c) \in Seq(ToAgent)
      /\ parser[c] \in Seq(ToAgent) /\ to_agent[c] \in Seq(ToAgent)
  BY <1>1, <1>2, UpType, Zenon DEF Up
<1>4. CASE Goto(c, "ended") /\ UNCHANGED <<command, file, parser, to_agent, out_of_step>>
  <2>1. apc'[c] = "ended" => Moves(c, "ended") /\ SendsSame(c, "ended") /\ LocalToPut(c)'
    BY <1>1, <1>4 DEF Moves, SendsSame, LocalToPut
  <2>2. InStep(c) => contents'[c] \in WholeFiles
    BY <1>1, <1>2 DEF ClientInv, StepInv
  <2>. QED
    BY <1>1, <1>4, <2>1, <2>2, LocalMove
<1>5. ASSUME NEW m \in ToAgent, Dispatch(c, m),
             Popped(Up(c), parser'[c] \o to_agent'[c], m),
             \A d \in Clients \ {c} : parser'[d] = parser[d] /\ to_agent'[d] = to_agent[d]
      PROVE  WInv'
  <2>1. PICK r \in AsRequest(m) :
           /\ command' = [command EXCEPT ![c] = r.kind]
           /\ Goto(c, CASE r.kind \in {"get", "put"} -> "load"
                        [] r.kind = "none" -> "ended"
                        [] r.kind = "del" -> "del"
                        [] OTHER -> "other")
           /\ Disturbed(c, m.type # "request", "contents_as_request")
    BY <1>5 DEF Dispatch
  <2>2. apc'[c] = CASE r.kind \in {"get", "put"} -> "load"
                        [] r.kind = "none" -> "ended"
                        [] r.kind = "del" -> "del"
                        [] OTHER -> "other"
    BY <2>1, GotoFact
  <2>3. command'[c] = r.kind /\ r.kind \in Kinds
    BY <1>2, <2>1 DEF WTypes
  <2>4. apc'[c] \in {"load", "ended", "del", "other"}
        /\ (apc'[c] \in {"del", "other"} => command'[c] \in {"del", "other"})
    BY <2>2, <2>3 DEF Kinds
  <2>5. \A d \in Clients \ {c} : SameClient(d)
    BY <1>1, <1>2, <1>5, <2>1, GotoFact DEF SameClient, SameButLabel, Disturbed, WTypes
  <2>6. InStep(c)' => InStep(c) /\ m.type = "request"
    BY <1>2, <2>1 DEF InStep, Disturbed, WTypes
  <2>7. OpenEnd(c)' /\ CancelsGets(c)'
    BY <1>1, <1>2 DEF ClientInv, OpenEnd, CancelsGets
  <2>8. LocalToPut(c)'
    BY <1>1, <1>2, <2>4 DEF ClientInv, LocalToPut
  <2>9. ASSUME InStep(c)'
        PROVE  /\ Up(c)' = <<>> /\ parser'[c] = <<>>
               /\ shell[c] = "response" /\ request[c].kind = command'[c]
               /\ AllContents(to_client[c])
    <3>1. Asked(c) /\ Up(c)[1] = m /\ Len(Up(c)) > 0 /\ m.type = "request"
      BY <1>2, <1>5, <2>6, <2>9 DEF ClientInv, StepInv, Popped
    <3>2. Len(Up(c)) \in Nat
      BY <1>2, UpType
    <3>3. 1 \in 1..Len(Up(c))
      BY <3>2, <3>1
    <3>4. m = request[c] /\ 1 = Len(Up(c)) /\ shell[c] = "response" /\ AllContents(to_client[c])
      BY <1>1, <3>1, <3>3 DEF Asked
    <3>5. r = m
      BY <2>1, <3>1 DEF AsRequest
    <3> DEFINE v == parser'[c] \o to_agent'[c]
    <3>6. Len(v) = Len(Up(c)) - 1
      BY <1>5, Zenon DEF Popped
    <3>7. parser'[c] \in Seq(ToAgent) /\ to_agent'[c] \in Seq(ToAgent) /\ v \in Seq(ToAgent)
      BY DEF WTypes
    <3>8. v = <<>>
      <4> HIDE DEF v
      <4>1. Len(v) = 0
        BY <3>4, <3>6
      <4>. QED
        BY <3>7, <4>1, EmptySeq
    <3>9. parser'[c] = <<>>
      BY <3>7, <3>8, ConcatEqualIffEmpty
    <3>10. Up(c)' = parser'[c] \o to_agent'[c]
      BY <2>4, Zenon DEF Up
    <3>. QED
      BY <2>3, <3>4, <3>5, <3>8, <3>9, <3>10
  <2>10. InStep(c)' => OneTask(c) /\ ~GetRuns(c) /\ contents[c] \in WholeFiles
    BY <1>2, <2>6, <2>9, NoGetRuns DEF ClientInv, StepInv
  <2>11. (GetRuns(c)' <=> GetRuns(c)) /\ (OneTask(c)' <=> OneTask(c))
    BY <1>1, Zenon DEF GetRuns, LastTask, OneTask
  <2>12. ASSUME InStep(c)' PROVE Asked(c)' /\ Answered(c)'
    <3>1. \A p \in 1..Len(to_client[c]) : to_client'[c][p].type = "contents"
      BY <1>1, <2>9, <2>12 DEF AllContents
    <3>2. AllContents(to_client[c])'
      BY <1>1, <2>9, <2>12 DEF AllContents
    <3>3. Answered(c)'
      BY <1>1, <3>1 DEF Answered
    <3>4. Asked(c)'
      BY <1>1, <2>9, <2>12, <2>4, <3>2 DEF Asked
    <3>. QED
      BY <3>3, <3>4
  <2>13. StepInv(c)'
    BY <1>1, <2>4, <2>10, <2>11, <2>12 DEF StepInv, GetAnswered
  <2>14. ASSUME AllInStep' PROVE WholeInv(c)'
    <3>1. InStep(c)'
      BY <2>14 DEF AllInStep
    <3>2. \A p \in 1..Len(to_client'[c]) : to_client'[c][p].type # "response"
      BY <1>1, <2>9, <3>1 DEF AllContents
    <3>. QED
      BY <2>10, <2>11, <3>1, <3>2 DEF WholeInv
  <2>. QED
    BY <1>1, <2>5, <2>6, <2>7, <2>8, <2>13, <2>14, UseInv
<1>6. CASE /\ parser[c] # <<>> /\ Dispatch(c, Head(parser[c]))
           /\ parser' = [parser EXCEPT ![c] = Tail(@)] /\ UNCHANGED to_agent
  <2>1. Head(parser[c]) \in ToAgent
    BY <1>3, <1>6
  <2>2. Popped(parser[c] \o to_agent[c], Tail(parser[c]) \o to_agent[c], Head(parser[c]))
    BY <1>3, <1>6, PopHeld
  <2>3. parser'[c] = Tail(parser[c]) /\ to_agent'[c] = to_agent[c]
        /\ \A d \in Clients \ {c} : parser'[d] = parser[d] /\ to_agent'[d] = to_agent[d]
    BY <1>2, <1>6 DEF WTypes
  <2>4. Popped(Up(c), parser'[c] \o to_agent'[c], Head(parser[c]))
    BY <1>3, <2>2, <2>3, Zenon
  <2>. QED
    BY <1>5, <1>6, <2>1, <2>3, <2>4
<1>7. ASSUME parser[c] = <<>>, NEW n \in 1..Len(to_agent[c]), Dispatch(c, Head(to_agent[c])),
             parser' = [parser EXCEPT ![c] = SubSeq(to_agent[c], 2, n)],
             to_agent' = [to_agent EXCEPT ![c] = SubSeq(@, n + 1, Len(@))]
      PROVE  WInv'
  <2>1. Head(to_agent[c]) \in ToAgent
    BY <1>3, <1>7
  <2>2. /\ Popped(to_agent[c], SubSeq(to_agent[c], 2, n) \o SubSeq(to_agent[c], n + 1, Len(to_agent[c])),
                  Head(to_agent[c]))
        /\ <<>> \o to_agent[c] = to_agent[c]
    BY <1>3, <1>7, PopRead
  <2>3. /\ parser'[c] = SubSeq(to_agent[c], 2, n)
        /\ to_agent'[c] = SubSeq(to_agent[c], n + 1, Len(to_agent[c]))
        /\ \A d \in Clients \ {c} : parser'[d] = parser[d] /\ to_agent'[d] = to_agent[d]
    BY <1>2, <1>7 DEF WTypes
  <2>4. Popped(Up(c), parser'[c] \o to_agent'[c], Head(to_agent[c]))
    BY <1>3, <1>7, <2>2, <2>3, Zenon
  <2>. QED
    BY <1>5, <1>7, <2>1, <2>3, <2>4
<1>. QED
  BY <1>4, <1>6, <1>7 DEF ReadNextMessage

(* A response is sent. *)
LEMMA AnswerInv ==
    ASSUME IInv, WInv, WTypes', NEW c \in Clients, NEW m \in ToClient, m.type = "response",
           NEW next, NEW failed, Send(c, m, next, failed), apc[c] \in {"respond", "reply"},
           next = (CASE command[c] = "get" -> "open"
                     [] command[c] = "put" -> "check_received"
                     [] OTHER -> "read"),
           failed \in {"open", "check_received", "ended"},
           UNCHANGED <<files, sender, receiver, contents, parser, to_agent, open, out_of_step,
                       shell, request, tasks, get_task>>,
           \A d \in Clients \ {c} : command'[d] = command[d]
    PROVE  WInv'
<1>1. WTypes /\ ClientInv(c) /\ FilesWhole
  BY DEF WInv
<1>2. CASE UNCHANGED to_client /\ Crash
  <2>1. \A d \in Clients : SameButLabel(d)
    BY <1>2 DEF SameButLabel
  <2>. QED
    BY <1>2, <2>1, CrashInv
<1> SUFFICES ASSUME NEW label, Goto(c, label), label \in {next, failed}, open[c] => label = next,
                    to_client' = [to_client EXCEPT ![c] = IF open[c] THEN Append(@, m) ELSE @]
             PROVE  WInv'
  <2>1. ~open[c] /\ UNCHANGED to_client =>
           to_client' = [to_client EXCEPT ![c] = IF open[c] THEN Append(@, m) ELSE @]
    BY <1>1 DEF WTypes
  <2>. QED
    BY <1>2, <2>1 DEF Send
<1>3. apc'[c] = label /\ label \in {"open", "check_received", "read", "ended"}
  BY GotoFact
<1>4. \A d \in Clients \ {c} : SameClient(d)
  BY <1>1, GotoFact DEF SameClient, SameButLabel, WTypes
<1>5. InStep(c)' <=> InStep(c)
  BY DEF InStep
<1>6. receiver[c] = NewReceiver
  BY <1>1 DEF ClientInv, LocalToPut
<1>7. LocalToPut(c)' /\ CancelsGets(c)'
  BY <1>1, <1>3, <1>6 DEF ClientInv, LocalToPut, CancelsGets
<1>8. OpenEnd(c)'
  BY <1>1 DEF ClientInv, OpenEnd, WTypes
<1>9. CASE ~InStep(c)
  <2>1. StepInv(c)' /\ ~AllInStep
    BY <1>5, <1>9 DEF StepInv, AllInStep
  <2>. QED
    BY <1>4, <1>5, <1>7, <1>8, <2>1, UseInv
<1>10. CASE InStep(c)
  <2> DEFINE q == to_client[c]
  <2>1. /\ OneTask(c) /\ Asked(c) /\ contents[c] \in WholeFiles
        /\ shell[c] = "response" /\ request[c].kind = command[c]
        /\ Up(c) = <<>> /\ AllContents(q)
    BY <1>1, <1>10 DEF ClientInv, StepInv, Asked
  <2>2. open[c] /\ label = next
    BY <1>1, <2>1 DEF ClientInv, OpenEnd
  <2>3. q \in Seq(ToClient) /\ to_client'[c] = Append(q, m)
    BY <1>1, <2>2 DEF WTypes
  <2>4. /\ Len(to_client'[c]) = Len(q) + 1 /\ to_client'[c][Len(q) + 1] = m
        /\ \A i \in 1..Len(q) : to_client'[c][i] = q[i]
        /\ Len(q) \in Nat
    BY <2>3
  <2>5. parser[c] = <<>> /\ to_agent[c] = <<>>
    BY <1>1, <2>1, UpType
  <2>6. Up(c)' = <<>>
    <3>1. Up(c)' = <<>> \o <<>>
      BY <1>6, <2>5, EmptyFacts, Zenon DEF Up
    <3>. QED
      BY <3>1, ConcatEmptySeq
  <2>7. ~GetRuns(c)' /\ OneTask(c)'
    <3>1. ~GetRuns(c)
      BY <1>1, <2>1, NoGetRuns
    <3>. QED
      BY <2>1, <3>1, Zenon DEF GetRuns, LastTask, OneTask
  <2>8. Asked(c)'
    BY <1>3, <2>5, <2>6 DEF Asked
  <2>9. Answered(c)'
    <3>1. ASSUME NEW p \in 1..Len(to_client'[c]) PROVE p \in 1..Len(q) \/ p = Len(q) + 1
      BY <2>4
    <3>2. \A p \in 1..Len(q) : to_client'[c][p].type = "contents"
      BY <2>1, <2>4 DEF AllContents
    <3>3. apc'[c] \in (CASE request'[c].kind = "get" -> AfterGet
                         [] request'[c].kind = "put" -> AfterPut
                         [] OTHER -> AfterOther)
      BY <1>3, <2>1, <2>2
    <3>. QED
      BY <2>1, <2>6, <3>1, <3>2, <3>3 DEF Answered
  <2>10. ASSUME apc'[c] \in ReceivingLabels PROVE Uploads(c)'
    <3>1. request[c].kind = "put" /\ receiver'[c] = NewReceiver
      BY <1>3, <1>6, <2>1, <2>2, <2>10
    <3>2. /\ Serialized(Source[c]) \in FileData /\ Len(Serialized(Source[c])) > 0
      BY SerializedFact
    <3>3. /\ NewReceiver.file_contents = <<>> /\ ~NewReceiver.complete_file
          /\ Len(<<>>) = 0 /\ IsStartOf(<<>>, Serialized(Source[c]))
      BY <3>2, EmptyFacts, SubSeqEmpty DEF IsStartOf, FileData
    <3>. QED
      BY <2>1, <2>6, <3>1, <3>2, <3>3 DEF Uploads
  <2>11. StepInv(c)'
    BY <2>1, <2>7, <2>8, <2>9, <2>10 DEF StepInv, GetAnswered
  <2>12. WholeInv(c)'
    <3>1. ASSUME request[c].kind = "get", NEW p \in 1..Len(to_client'[c]),
                 to_client'[c][p].type = "response"
          PROVE  Downloads(c, NewReceiver, SubSeq(to_client[c], p + 1, Len(to_client[c])))'
      <4>1. p = Len(q) + 1
        BY <2>1, <2>4, <3>1 DEF AllContents
      <4>2. SubSeq(to_client'[c], p + 1, Len(to_client'[c])) = <<>>
        BY <2>4, <4>1, SubSeqEmpty
      <4>3. apc'[c] = "open"
        BY <1>3, <2>1, <2>2, <3>1
      <4>4. Downloads(c, NewReceiver, <<>>)'
        <5>1. <<>> \in WholeFiles \cap FileData
          BY EmptyFacts DEF WholeFiles
        <5>2. /\ NewReceiver.file_contents = <<>> /\ ~NewReceiver.complete_file
              /\ Len(<<>>) = 0 /\ IsStartOf(<<>>, <<>>)
          BY EmptyFacts, SubSeqEmpty DEF IsStartOf
        <5>3. Chunks(<<>>, 0, <<>>)
          BY DEF Chunks
        <5>. QED
          BY <4>3, <5>1, <5>2, <5>3 DEF Downloads
      <4>. QED
        BY <4>2, <4>4, Zenon
    <3>. QED
      BY <2>7, <3>1, Zenon DEF WholeInv
  <2>. QED
    BY <1>4, <1>5, <1>7, <1>8, <2>11, <2>12, UseInv
<1>. QED
  BY <1>9, <1>10

(* SendResponse(). *)
LEMMA RespondInv ==
    ASSUME IInv, WInv, WTypes', NEW c \in Clients, RespondWithId(c) \/ Reply(c),
           UNCHANGED client_vars
    PROVE  WInv'
<1>1. /\ Response(command[c], cid[c]) \in ToClient /\ Response(command[c], 0) \in ToClient
      /\ Response(command[c], cid[c]).type = "response" /\ Response(command[c], 0).type = "response"
  BY DEF Response, ToClient, ResponseMessage, WInv, WTypes
<1>2. UNCHANGED <<files, sender, receiver, contents, parser, to_agent, open, out_of_step,
                  shell, request, tasks, get_task>>
  BY DEF RespondWithId, Reply
<1>3. CASE RespondWithId(c)
  <2> DEFINE next == IF command[c] = "get" THEN "open" ELSE "check_received"
  <2>1. Send(c, Response(command[c], cid[c]), next, next) /\ apc[c] = "respond" /\ UNCHANGED command
    BY <1>3 DEF RespondWithId
  <2>2. command[c] \in {"get", "put"}
    BY <2>1 DEF IInv, AgentInv, Handled
  <2>. QED
    BY <1>1, <1>2, <2>1, <2>2, AnswerInv
<1>4. CASE Reply(c)
  <2>1. Send(c, Response(command[c], 0), "read", "ended") /\ apc[c] = "reply"
        /\ \A d \in Clients \ {c} : command'[d] = command[d]
    BY <1>4 DEF Reply, Forget, WInv, WTypes
  <2>2. command[c] \in {"del", "other"}
    BY <2>1 DEF WInv, ClientInv, LocalToPut
  <2>. QED
    BY <1>1, <1>2, <2>1, <2>2, AnswerInv
<1>. QED
  BY <1>3, <1>4

(* One more message behind the first p. *)
LEMMA PushBehind ==
    ASSUME NEW S, NEW q \in Seq(S), NEW m \in S, NEW p \in 1..Len(q)
    PROVE  /\ SubSeq(Append(q, m), p + 1, Len(Append(q, m))) = Append(SubSeq(q, p + 1, Len(q)), m)
           /\ SubSeq(q, p + 1, Len(q)) \in Seq(S)
<1> DEFINE a == Append(q, m)
           n == Len(q)
<1>1. /\ a \in Seq(S) /\ Len(a) = n + 1 /\ n \in Nat \ {0} /\ a[n + 1] = m
      /\ \A i \in 1..n : a[i] = q[i]
  BY AppendProperties
<1> HIDE DEF a, n
<1>2. p + 1 \in 1..(n + 1) /\ n + 1 \in (p + 1)..(n + 1) /\ p \in 1..n
  BY <1>1 DEF n
<1>3. SubSeq(a, p + 1, n + 1) = SubSeq(a, p + 1, n) \o <<a[n + 1]>>
  <2>1. SubSeq(a, p + 1, n + 1) = SubSeq(a, p + 1, (n + 1) - 1) \o <<a[n + 1]>>
    BY <1>1, <1>2, SubSeqRecursiveSecond
  <2>2. (n + 1) - 1 = n
    BY <1>1
  <2>. QED
    BY <2>1, <2>2
<1>4. \A i \in (p + 1)..n : a[i] \in S /\ q[i] \in S /\ a[i] = q[i]
  BY <1>1, <1>2 DEF n
<1>5. /\ SubSeq(a, p + 1, n) \in Seq(S) /\ SubSeq(q, p + 1, n) \in Seq(S)
      /\ Len(SubSeq(a, p + 1, n)) = Len(SubSeq(q, p + 1, n))
      /\ Len(SubSeq(a, p + 1, n)) = IF p + 1 <= n THEN n - (p + 1) + 1 ELSE 0
      /\ \A i \in 1..(n - (p + 1) + 1) : SubSeq(a, p + 1, n)[i] = a[p + 1 + i - 1]
      /\ \A i \in 1..(n - (p + 1) + 1) : SubSeq(q, p + 1, n)[i] = q[p + 1 + i - 1]
  <2>1. p + 1 \in Int /\ n \in Int
    BY <1>1, <1>2
  <2>. QED
    BY <1>4, <2>1, SubSeqProperties
<1> DEFINE x == SubSeq(a, p + 1, n)
           y == SubSeq(q, p + 1, n)
<1>6. x = y
  <2>1. /\ x \in Seq(S) /\ y \in Seq(S) /\ Len(x) = Len(y)
        /\ Len(x) = IF p + 1 <= n THEN n - (p + 1) + 1 ELSE 0
        /\ \A i \in 1..(n - (p + 1) + 1) : x[i] = a[p + 1 + i - 1]
        /\ \A i \in 1..(n - (p + 1) + 1) : y[i] = q[p + 1 + i - 1]
    BY <1>5, Zenon
  <2> HIDE DEF x, y
  <2>2. ASSUME NEW i \in 1..Len(x) PROVE x[i] = y[i]
    <3>1. i \in 1..(n - (p + 1) + 1) /\ p + 1 + i - 1 \in (p + 1)..n
      BY <1>1, <1>2, <2>1, <2>2
    <3>. QED
      BY <1>4, <2>1, <3>1
  <2>. QED
    BY <2>1, <2>2, SeqEqual
<1>7. y \in Seq(S) /\ Append(y, m) = y \o <<m>>
  BY <1>5, AppendIsConcat
<1> HIDE DEF x, y
<1>8. SubSeq(a, p + 1, n + 1) = Append(y, m)
  BY <1>1, <1>3, <1>6, <1>7, Zenon DEF x
<1>. QED
  BY <1>1, <1>7, <1>8, Zenon DEF a, n, y

(* FileHandler::Get(): what is to be sent is whole. *)
LEMMA OpenInv ==
    ASSUME IInv, WInv, WTypes', NEW c \in Clients, OpenFile(c), ~Crash, UNCHANGED client_vars
    PROVE  WInv'
<1> DEFINE g == Stored(file[c])
<1>1. /\ UNCHANGED <<files, receiver, parser, to_agent, to_client, open, out_of_step,
                     shell, request, tasks, get_task, command, contents>>
      /\ apc[c] = "open" /\ sender' = [sender EXCEPT ![c] = SetFileContents(g)]
      /\ Goto(c, SendLabel(sender'[c], FALSE))
  BY DEF OpenFile
<1>2. WTypes /\ ClientInv(c) /\ FilesWhole
  BY DEF WInv
<1> DEFINE label == SendLabel(sender'[c], FALSE)
<1>3. apc'[c] = label /\ label \in {"send", "delete"}
      /\ (label = "send" => ~SentCompleteFile(sender'[c]))
  BY <1>1, GotoFact DEF SendLabel
<1>4. sender'[c] = SetFileContents(g) /\ g \in FileData
  BY <1>1, <1>2, StoredType DEF WTypes
<1>5. sender'[c].file_contents = g /\ sender'[c].total_sent = 0
  BY <1>4, SetContentsType
<1>6. AllInStep => g \in WholeFiles
  BY <1>2 DEF FilesWhole, Stored, WholeFiles
<1> HIDE DEF g, label
<1>7. SameButLabel(c) /\ \A d \in Clients \ {c} : SameClient(d)
  BY <1>1, <1>2, GotoFact DEF SameClient, SameButLabel, WTypes
<1>8. (AllInStep' => AllInStep) /\ (InStep(c)' => InStep(c))
  BY <1>1 DEF AllInStep, InStep
<1>9. Moves(c, label)
  BY <1>1, <1>3 DEF Moves
<1>10. LocalToPut(c)'
  BY <1>1, <1>2, <1>3 DEF ClientInv, LocalToPut
<1>11. ASSUME AllInStep', NEW r, NEW q, Downloads(c, r, q) PROVE Downloads(c, r, q)'
  <2>1. PICK f \in WholeFiles \cap FileData :
           /\ IsStartOf(r.file_contents, f)
           /\ Len(r.file_contents) = 0 /\ q = <<>> /\ ~r.complete_file
    BY <1>1, <1>11 DEF Downloads
  <2>2. r.file_contents = <<>> /\ IsStartOf(r.file_contents, g)
    <3>1. r.file_contents = SubSeq(f, 1, 0)
      BY <2>1 DEF IsStartOf
    <3>2. SubSeq(f, 1, 0) = <<>> /\ SubSeq(g, 1, 0) = <<>>
      BY SubSeqEmpty
    <3>3. Len(g) \in Nat
      BY <1>4 DEF FileData
    <3>. QED
      BY <2>1, <3>1, <3>2, <3>3 DEF IsStartOf
  <2>3. Chunks(g, 0, <<>>)
    BY DEF Chunks
  <2>4. SentUpTo(sender'[c], Behind(0, 0))
    <3>1. Behind(0, 0) = 0 /\ Len(g) \in Nat
      BY <1>4, BehindFact DEF FileData
    <3>. QED
      BY <1>5, <3>1 DEF SentUpTo
  <2>5. g \in WholeFiles \cap FileData
    BY <1>4, <1>6, <1>8, <1>11
  <2>6. Len(<<>>) = 0
    OBVIOUS
  <2>. QED
    BY <1>3, <1>5, <2>1, <2>2, <2>3, <2>4, <2>5, <2>6 DEF Downloads
<1>12. InStep(c) => contents'[c] \in WholeFiles
  BY <1>1, <1>2 DEF ClientInv, StepInv
<1>13. ClientInv(c)'
  BY <1>2, <1>7, <1>8, <1>9, <1>10, <1>11, <1>12, StageInv
<1>. QED
  BY <1>1, <1>2, <1>7, <1>8, <1>13, FilesStay, OneClient

(* Reading a directory. *)
LEMMA OpenCrashes ==
    ASSUME IInv, WInv, WTypes', NEW c \in Clients, OpenFile(c), Crash, UNCHANGED client_vars
    PROVE  WInv'
<1>1. /\ UNCHANGED <<files, receiver, parser, to_agent, to_client, open, out_of_step,
                     shell, request, tasks, get_task, command, contents>>
      /\ apc[c] = "open" /\ \A d \in Clients \ {c} : sender'[d] = sender[d]
  BY DEF OpenFile, WInv, WTypes
<1>2. \A d \in Clients : SameButLabel(d)
  BY <1>1 DEF SameButLabel
<1>3. \A d \in Clients : apc[d] = "none" => command'[d] = command[d] /\ sender'[d] = sender[d]
  BY <1>1
<1>. QED
  BY <1>1, <1>2, <1>3, CrashInv

(* SendNextChunk(): the next chunk follows those that have been sent. *)
LEMMA DownloadsPush ==
    ASSUME WTypes, NEW c \in Clients, apc[c] = "send", open[c], ~SentCompleteFile(sender[c]),
           sender'[c] = AfterChunk(sender[c]), apc'[c] = "check_sent",
           NEW r, Len(r.file_contents) \in Nat, NEW q \in Seq(ToClient), Downloads(c, r, q),
           NEW m, m = NextChunk(sender[c])
    PROVE  Downloads(c, r, Append(q, m))'
<1> DEFINE k == Len(r.file_contents)
<1>1. PICK f \in WholeFiles \cap FileData :
         /\ IsStartOf(r.file_contents, f)
         /\ r.complete_file => k = Len(f)
         /\ Chunks(f, k, q)
         /\ sender[c].file_contents = f /\ SentUpTo(sender[c], Behind(k, Len(q)))
  BY DEF Downloads
<1>2. sender[c] \in SenderType /\ m \in ToClient /\ Len(q) \in Nat
  BY SenderFact DEF WTypes, ToClient
<1>3. /\ IsChunk(f, Behind(k, Len(q)), m)
      /\ sender'[c].file_contents = f /\ SentUpTo(sender'[c], Behind(k, Len(q) + 1))
  BY <1>1, <1>2, NextChunkFact
<1>4. /\ Len(Append(q, m)) = Len(q) + 1 /\ Append(q, m)[Len(q) + 1] = m
      /\ \A i \in 1..Len(q) : Append(q, m)[i] = q[i]
  BY <1>2
<1>5. Chunks(f, k, Append(q, m))
  <2> SUFFICES ASSUME NEW i \in 1..(Len(q) + 1)
               PROVE  IsChunk(f, Behind(k, i - 1), Append(q, m)[i])
    BY <1>4 DEF Chunks
  <2>1. CASE i \in 1..Len(q)
    BY <1>1, <1>4, <2>1 DEF Chunks
  <2>2. CASE i = Len(q) + 1
    <3>1. i - 1 = Len(q)
      BY <1>2, <2>2
    <3>. QED
      BY <1>3, <1>4, <2>2, <3>1
  <2>. QED
    BY <1>2, <2>1, <2>2
<1>. QED
  BY <1>1, <1>3, <1>4, <1>5 DEF Downloads

(* SendNextChunk() of the agent: the download has one more chunk to come. *)
LEMMA SendInv ==
    ASSUME IInv, WInv, WTypes', NEW c \in Clients, SendChunk(c), UNCHANGED client_vars PROVE WInv'
<1>1. /\ UNCHANGED <<files, receiver, parser, to_agent, open, out_of_step,
                     shell, request, tasks, get_task, command, contents>>
      /\ apc[c] = "send" /\ sender' = [sender EXCEPT ![c] = AfterChunk(@)]
      /\ Send(c, NextChunk(sender[c]), "check_sent", "abort")
  BY DEF SendChunk, AfterFailedSend
<1>2. WTypes /\ ClientInv(c) /\ FilesWhole
  BY DEF WInv
<1>3. (AllInStep' <=> AllInStep) /\ (InStep(c)' <=> InStep(c))
  BY <1>1 DEF AllInStep, InStep
<1>4. InStep(c) => contents'[c] \in WholeFiles
  BY <1>1, <1>2 DEF ClientInv, StepInv
<1>5. \A d \in Clients \ {c} : sender'[d] = sender[d]
  BY <1>1, <1>2 DEF WTypes
<1>6. CASE ~open[c] /\ UNCHANGED to_client /\ Crash
  <2>1. \A d \in Clients : SameButLabel(d)
    BY <1>1, <1>6 DEF SameButLabel
  <2>. QED
    BY <1>1, <1>5, <1>6, <2>1, CrashInv
<1>7. ASSUME ~open[c], UNCHANGED to_client, NEW label \in {"check_sent", "abort"}, Goto(c, label)
      PROVE  WInv'
  <2>1. apc'[c] = label /\ SameButLabel(c) /\ \A d \in Clients \ {c} : SameClient(d)
    BY <1>1, <1>5, <1>7, GotoFact DEF SameClient, SameButLabel
  <2>2. Moves(c, label) /\ LocalToPut(c)'
    BY <1>1, <1>2, <1>7, <2>1 DEF Moves, ClientInv, LocalToPut
  <2>3. ASSUME NEW r, NEW q, Downloads(c, r, q) PROVE Downloads(c, r, q)'
    <3>1. apc'[c] # "open" /\ ~open'[c]
      BY <1>1, <1>7, <2>1
    <3>. QED
      BY <2>3, <3>1 DEF Downloads
  <2>4. ClientInv(c)'
    BY <1>2, <1>3, <1>4, <2>1, <2>2, <2>3, StageInv
  <2>. QED
    BY <1>1, <1>2, <1>3, <2>1, <2>4, FilesStay, OneClient
<1>8. ASSUME open[c], Goto(c, "check_sent"),
             to_client' = [to_client EXCEPT ![c] = Append(@, NextChunk(sender[c]))]
      PROVE  WInv'
  <2> DEFINE q == to_client[c]
             m == NextChunk(sender[c])
  <2>1. apc'[c] = "check_sent" /\ \A d \in Clients \ {c} : SameClient(d)
    BY <1>1, <1>2, <1>5, <1>8, GotoFact DEF SameClient, SameButLabel, WTypes
  <2>2. /\ q \in Seq(ToClient) /\ m \in ToClient /\ m.type = "contents"
        /\ to_client'[c] = Append(q, m) /\ sender'[c] = AfterChunk(sender[c])
    BY <1>1, <1>2, <1>8, SenderFact DEF WTypes, ToClient, ContentsMessage
  <2>3. ~SentCompleteFile(sender[c])
    BY <1>1, <1>2 DEF ClientInv, LocalToPut
  <2> HIDE DEF m
  <2>4. /\ Len(to_client'[c]) = Len(q) + 1 /\ to_client'[c][Len(q) + 1] = m
        /\ \A i \in 1..Len(q) : to_client'[c][i] = q[i]
        /\ Len(q) \in Nat
    BY <2>2
  <2>5. \A p \in 1..Len(to_client'[c]) : p \in 1..Len(q) \/ to_client'[c][p].type = "contents"
    BY <2>2, <2>4
  <2>6. /\ OpenEnd(c)' /\ CancelsGets(c)' /\ LocalToPut(c)'
    BY <1>1, <1>2, <1>8, <2>1 DEF ClientInv, OpenEnd, CancelsGets, LocalToPut
  <2>7. LastTask(c)' = LastTask(c) /\ (GetRuns(c)' <=> GetRuns(c)) /\ (OneTask(c)' <=> OneTask(c))
    BY <1>1, Zenon DEF GetRuns, LastTask, OneTask
  <2>8. Up(c)' = Up(c)
    BY <1>1, <2>1, Zenon DEF Up
  <2>9. AllContents(q) => AllContents(to_client'[c])
    BY <2>4, <2>5 DEF AllContents
  <2>10. ASSUME InStep(c) PROVE Asked(c)' /\ Answered(c)'
    <3>1. Asked(c) /\ Answered(c)
      BY <1>2, <2>10 DEF ClientInv, StepInv
    <3>2. Asked(c)'
      BY <1>1, <2>1, <2>8, <2>9, <3>1 DEF Asked
    <3>3. ASSUME NEW p \in 1..Len(q), q[p].type # "contents"
          PROVE  /\ shell'[c] = "response"
                 /\ \A i \in 1..Len(to_client'[c]) : i # p => to_client'[c][i].type = "contents"
                 /\ apc'[c] # "ended" => Up(c)' = <<>>
                 /\ apc'[c] \in (CASE request'[c].kind = "get" -> AfterGet
                                   [] request'[c].kind = "put" -> AfterPut
                                   [] OTHER -> AfterOther)
      <4>1. /\ shell[c] = "response"
            /\ \A i \in 1..Len(q) : i # p => q[i].type = "contents"
            /\ apc[c] # "ended" => Up(c) = <<>>
            /\ apc[c] \in (CASE request[c].kind = "get" -> AfterGet
                              [] request[c].kind = "put" -> AfterPut
                              [] OTHER -> AfterOther)
        BY <3>1, <3>3 DEF Answered
      <4>2. request'[c] = request[c] /\ apc[c] = "send" /\ apc'[c] = "check_sent" /\ shell'[c] = shell[c]
        BY <1>1, <2>1
      <4>3. \A i \in 1..Len(to_client'[c]) : i # p => to_client'[c][i].type = "contents"
        BY <2>4, <2>5, <4>1
      <4>. QED
        BY <2>8, <4>1, <4>2, <4>3
    <3>4. Answered(c)'
      <4> SUFFICES ASSUME NEW p \in 1..Len(to_client'[c]), to_client'[c][p].type # "contents"
                   PROVE  /\ shell'[c] = "response"
                          /\ \A i \in 1..Len(to_client'[c]) : i # p => to_client'[c][i].type = "contents"
                          /\ apc'[c] # "ended" => Up(c)' = <<>>
                          /\ apc'[c] \in (CASE request'[c].kind = "get" -> AfterGet
                                            [] request'[c].kind = "put" -> AfterPut
                                            [] OTHER -> AfterOther)
        BY Zenon DEF Answered
      <4>1. p \in 1..Len(q) /\ q[p].type # "contents"
        BY <2>4, <2>5
      <4>. QED
        BY <3>3, <4>1
    <3>. QED
      BY <3>2, <3>4
  <2>11. StepInv(c)'
    BY <1>2, <1>3, <1>4, <2>1, <2>7, <2>10 DEF ClientInv, StepInv, GetAnswered
  <2>12. ASSUME AllInStep PROVE WholeInv(c)'
    <3>1. WholeInv(c)
      BY <1>2 DEF ClientInv
    <3>2. ASSUME GetRuns(c)
          PROVE  Downloads(c, LastTask(c).socket, LastTask(c).socket.parser \o to_client[c])'
      <4> DEFINE r == LastTask(c).socket
      <4>1. Downloads(c, r, r.parser \o q)
        BY <2>12, <3>1, <3>2 DEF WholeInv
      <4>2. r \in ReceiverType(ToClient)
        BY <1>2, <3>2 DEF GetRuns, LastTask, WTypes, HasSocket
      <4>3. r.parser \in Seq(ToClient) /\ Len(r.file_contents) \in Nat
        BY <4>2 DEF ReceiverType, FileData
      <4> HIDE DEF r, q
      <4>4. r.parser \o q \in Seq(ToClient) /\ r.parser \o Append(q, m) = Append(r.parser \o q, m)
        <5>1. r.parser \in Seq(ToClient) /\ q \in Seq(ToClient) /\ m \in ToClient
          BY <2>2, <4>3, Zenon
        <5>2. ASSUME NEW x \in Seq(ToClient), NEW y \in Seq(ToClient), NEW z \in ToClient
              PROVE  x \o y \in Seq(ToClient) /\ x \o Append(y, z) = Append(x \o y, z)
          BY PushHeld
        <5>. QED
          BY <5>1, <5>2, Zenon
      <4> DEFINE u == r.parser \o q
      <4>5. Downloads(c, r, u) /\ u \in Seq(ToClient)
        BY <4>1, <4>4
      <4> HIDE DEF u
      <4>6. m = NextChunk(sender[c])
        BY DEF m
      <4>7. ASSUME NEW rr, NEW uu, NEW mm, rr = r, uu = u, mm = m PROVE Downloads(c, rr, Append(uu, mm))'
        BY <1>1, <1>2, <1>8, <2>1, <2>2, <2>3, <4>3, <4>5, <4>6, <4>7, DownloadsPush
      <4>8. \A rr, xx : rr = r /\ xx = Append(u, m) => Downloads(c, rr, xx)'
        BY <4>7
      <4>9. LastTask(c)'.socket = r /\ LastTask(c)'.socket.parser \o to_client'[c] = Append(u, m)
        BY <2>2, <2>7, <4>4, Zenon DEF r, u
      <4>. QED
        BY <4>8, <4>9
    <3>3. ASSUME request[c].kind = "get", NEW p \in 1..Len(to_client'[c]),
                 to_client'[c][p].type = "response"
          PROVE  Downloads(c, NewReceiver, SubSeq(to_client[c], p + 1, Len(to_client[c])))'
      <4>1. p \in 1..Len(q) /\ q[p].type = "response"
        BY <2>4, <2>5, <3>3
      <4> DEFINE u == SubSeq(q, p + 1, Len(q))
      <4>2. Downloads(c, NewReceiver, u)
        BY <2>12, <3>1, <3>3, <4>1 DEF WholeInv
      <4>3. u \in Seq(ToClient) /\ SubSeq(Append(q, m), p + 1, Len(Append(q, m))) = Append(u, m)
        BY <2>2, <4>1, PushBehind, ZenonT(40)
      <4>4. Len(NewReceiver.file_contents) \in Nat
        BY EmptyFacts
      <4> HIDE DEF u
      <4>5. m = NextChunk(sender[c])
        BY DEF m
      <4>6. ASSUME NEW uu, NEW mm, uu = u, mm = m PROVE Downloads(c, NewReceiver, Append(uu, mm))'
        BY <1>1, <1>2, <1>8, <2>1, <2>2, <2>3, <4>2, <4>3, <4>4, <4>5, <4>6, DownloadsPush
      <4>7. \A xx : xx = Append(u, m) => Downloads(c, NewReceiver, xx)'
        BY <4>6
      <4>. QED
        BY <2>2, <4>3, <4>7
    <3>. QED
      BY <1>1, <2>7, <3>2, <3>3 DEF WholeInv
  <2>. QED
    BY <1>1, <1>3, <2>1, <2>6, <2>11, <2>12, UseInv
<1>. QED
  <2>1. ~open[c] => UNCHANGED to_client <=>
            to_client' = [to_client EXCEPT ![c] = IF open[c] THEN Append(@, NextChunk(sender[c])) ELSE @]
    BY <1>2 DEF WTypes
  <2>2. \/ open[c] /\ Goto(c, "check_sent")
           /\ to_client' = [to_client EXCEPT ![c] = Append(@, NextChunk(sender[c]))]
        \/ ~open[c] /\ UNCHANGED to_client /\ (Goto(c, "check_sent") \/ Goto(c, "abort") \/ Crash)
    BY <1>1, <2>1 DEF Send
  <2>. QED
    BY <1>6, <1>7, <1>8, <2>2

(* With the chunk m receiver r has become r2, which has more of f, or all.    *)
Grown(f, r, m, r2) ==
    LET k == Len(r.file_contents)
        e == Len(r2.file_contents)
    IN  /\ k \in Nat /\ k < Len(f) /\ e \in Nat /\ e = k + Len(Chunk(f, k).data)
        /\ IsStartOf(r2.file_contents, f)
        /\ r2.complete_file <=> e = Len(f)
        /\ e = Len(f) => r2.file_contents = f
        /\ ChunkLength(m) # 0 /\ m.type = "contents" /\ e <= Len(f)

(* A chunk that comes where it should. *)
LEMMA ReceivedFact ==
    ASSUME NEW f \in FileData, NEW r, r.file_contents \in FileData,
           IsStartOf(r.file_contents, f), ~r.complete_file, r.complete_file \in BOOLEAN,
           NEW m, IsChunk(f, Len(r.file_contents), m), NEW behind
    PROVE  Grown(f, r, m, WithChunk(r, m, behind)) /\ WithChunk(r, m, behind).parser = behind
<1> DEFINE k == Len(r.file_contents)
           n == k + Len(Chunk(f, k).data)
           r2 == WithChunk(r, m, behind)
<1>1. k \in Nat /\ f \in Seq(Pieces) /\ k < Len(f) /\ m = Chunk(f, k)
  BY DEF FileData, IsChunk
<1>2. r.file_contents = SubSeq(f, 1, k)
  BY DEF IsStartOf
<1> HIDE DEF k
<1>3. /\ m.type = "contents" /\ Len(m.data) \in Nat \ {0} /\ n <= Len(f)
      /\ m.last <=> n = Len(f)
      /\ SubSeq(f, 1, k) \o m.data = SubSeq(f, 1, n)
  BY <1>1, ChunkFact, Zenon
<1>4. n \in Nat
  <2> DEFINE y == Len(Chunk(f, k).data)
  <2>1. y \in Nat
    BY <1>1, <1>3, Zenon
  <2> HIDE DEF y
  <2>2. k + y \in Nat
    BY <1>1, <2>1
  <2>. QED
    BY <2>2 DEF y
<1> HIDE DEF n
<1>5. AsFileContents(m) = m
  BY <1>3 DEF AsFileContents
<1>6. /\ r2.parser = behind /\ r2.file_contents = SubSeq(f, 1, n)
      /\ r2.complete_file <=> m.last
      /\ ChunkLength(m) = Len(m.data)
  <2> DEFINE s == SubSeq(f, 1, n)
  <2>1. r2 = [parser |-> behind, file_contents |-> s, complete_file |-> r.complete_file \/ m.last]
    BY <1>2, <1>3, <1>5, Zenon DEF WithChunk
  <2>2. ChunkLength(m) = Len(m.data)
    BY <1>5, Zenon DEF ChunkLength
  <2> HIDE DEF s, r2
  <2>3. r2.parser = behind /\ r2.file_contents = s /\ (r2.complete_file <=> m.last)
    BY <2>1
  <2>. QED
    BY <2>2, <2>3, Zenon DEF s
<1> HIDE DEF r2
<1>7. Len(SubSeq(f, 1, n)) = n
  BY <1>1, <1>3, <1>4
<1>8. Len(r2.file_contents) = n
  BY <1>6, <1>7, Zenon
<1>9. IsStartOf(r2.file_contents, f)
  BY <1>3, <1>6, <1>8 DEF IsStartOf
<1>10. n = Len(f) => r2.file_contents = f
  BY <1>1, <1>6, SubSeqFull
<1>11. ChunkLength(m) # 0 /\ (r2.complete_file <=> n = Len(f))
  BY <1>3, <1>6
<1>. QED
  BY <1>1, <1>3, <1>4, <1>6, <1>8, <1>9, <1>10, <1>11, Zenon DEF Grown, r2, k, n

(* The upload of c that goes on into receiver r, with the messages v to come. *)
Arriving(c, r, v) ==
    LET f == Serialized(Source[c])
        e == Len(r.file_contents)
        t == LastTask(c)
    IN  /\ IsStartOf(r.file_contents, f)
        /\ \A i \in 1..Len(v) :
              IF v[i].type = "contents" THEN IsChunk(f, Behind(e, i - 1), v[i])
              ELSE Behind(e, i - 1) >= Len(f)
        /\ tasks[c] # <<>> /\ t.kind = "put"
        /\ shell[c] = "response" => v # <<>> /\ v[Len(v)].type = "request"
        /\ t.status = "RUNNING" =>
              t.socket.file_contents = f /\ SentUpTo(t.socket, Behind(e, Len(v)))
        /\ t.status # "RUNNING" /\ open[c] /\ shell[c] # "response" =>
              Behind(e, Len(v)) >= Len(f)

(* With m more of the file has arrived, or all. *)
Arrived(c, r, m) ==
    /\ ChunkLength(m) # 0 /\ m.type = "contents"
    /\ r.complete_file => r.file_contents \in WholeFiles
    /\ ~r.complete_file => Len(r.file_contents) < Len(Serialized(Source[c]))

(* ReceiveNextChunk() of the agent: what has been received, what is on its   *)
(* way and what is to be sent still make up the file.                        *)
LEMMA UploadsPop ==
    ASSUME NEW c \in Clients, Uploads(c), receiver[c] \in ReceiverType(ToAgent),
           Up(c) \in Seq(ToAgent), NEW m, NEW behind, NEW v,
           Len(v) \in Nat, Popped(Up(c), v, m)
    PROVE  /\ Arriving(c, WithChunk(receiver[c], m, behind), v)
           /\ Arrived(c, WithChunk(receiver[c], m, behind), m)
<1> DEFINE f == Serialized(Source[c])
           r == receiver[c]
           r2 == WithChunk(r, m, behind)
           k == Len(r.file_contents)
           e == Len(r2.file_contents)
           t == LastTask(c)
           u == Up(c)
<1>1. f \in FileData /\ Len(f) \in Nat
  BY SerializedFact DEF FileData
<1>2. /\ ~r.complete_file /\ k < Len(f) /\ IsStartOf(r.file_contents, f)
      /\ \A i \in 1..Len(u) :
            IF u[i].type = "contents" THEN IsChunk(f, Behind(k, i - 1), u[i])
            ELSE Behind(k, i - 1) >= Len(f)
      /\ \/ u = <<>>
         \/ /\ tasks[c] # <<>> /\ t.kind = "put"
            /\ shell[c] = "response" => u # <<>> /\ u[Len(u)].type = "request"
            /\ t.status = "RUNNING" =>
                  t.socket.file_contents = f /\ SentUpTo(t.socket, Behind(k, Len(u)))
            /\ t.status # "RUNNING" /\ open[c] /\ shell[c] # "response" =>
                  Behind(k, Len(u)) >= Len(f)
  BY DEF Uploads
<1>3. /\ Len(u) \in Nat \ {0} /\ Len(u) = Len(v) + 1 /\ m = u[1]
      /\ \A i \in 1..Len(v) : v[i] = u[i + 1]
  BY DEF Popped
<1>4. k \in Nat
  BY DEF ReceiverType, FileData
<1> HIDE DEF f, u, t, r2
<1>5. IsChunk(f, k, m)
  <2>1. 1 \in 1..Len(u) /\ Behind(k, 0) = k
    <3>1. Behind(k, 0) = k
      BY <1>4, BehindFact
    <3>. QED
      BY <1>3, <3>1
  <2>2. IF u[1].type = "contents" THEN IsChunk(f, Behind(k, 1 - 1), u[1])
        ELSE Behind(k, 1 - 1) >= Len(f)
    BY <1>2, <2>1
  <2>. QED
    BY <1>1, <1>2, <1>3, <1>4, <2>1, <2>2
<1>6. /\ r2.parser = behind /\ e \in Nat /\ e = k + Len(Chunk(f, k).data)
      /\ IsStartOf(r2.file_contents, f)
      /\ r2.complete_file <=> e = Len(f)
      /\ e = Len(f) => r2.file_contents = f
      /\ ChunkLength(m) # 0 /\ m.type = "contents" /\ e <= Len(f)
  <2>1. r.file_contents \in FileData /\ r.complete_file \in BOOLEAN
    BY DEF ReceiverType
  <2>2. f \in FileData /\ ~r.complete_file /\ IsStartOf(r.file_contents, f) /\ IsChunk(f, k, m)
    BY <1>1, <1>2, <1>5, Zenon
  <2>3. Grown(f, r, m, WithChunk(r, m, behind)) /\ WithChunk(r, m, behind).parser = behind
    BY <2>1, <2>2, ReceivedFact
  <2>. QED
    BY <2>3, Zenon DEF Grown, r2
<1> HIDE DEF e, k
<1>7. ASSUME NEW n \in Nat
      PROVE  /\ \A x : IsChunk(f, Behind(k, n + 1), x) => IsChunk(f, Behind(e, n), x)
             /\ Behind(k, n + 1) >= Len(f) <=> Behind(e, n) >= Len(f)
             /\ \A s : Len(s.file_contents) = Len(f) /\ SentUpTo(s, Behind(k, n + 1))
                          => SentUpTo(s, Behind(e, n))
  <2>1. f \in FileData /\ k \in Nat /\ k < Len(f) /\ e \in Nat /\ e = k + Len(Chunk(f, k).data)
    BY <1>1, <1>2, <1>4, <1>6, Zenon
  <2>2. SameBehind(f, k, n, e)
    BY <2>1, BehindChunk
  <2>. QED
    BY <2>2, Zenon DEF SameBehind
<1>8. ASSUME NEW i \in 1..Len(v)
      PROVE  IF v[i].type = "contents" THEN IsChunk(f, Behind(e, i - 1), v[i])
             ELSE Behind(e, i - 1) >= Len(f)
  <2>1. /\ i + 1 \in 1..Len(u) /\ (i + 1) - 1 = (i - 1) + 1 /\ i - 1 \in Nat /\ v[i] = u[i + 1]
    BY <1>3
  <2>2. IF u[i + 1].type = "contents" THEN IsChunk(f, Behind(k, (i + 1) - 1), u[i + 1])
        ELSE Behind(k, (i + 1) - 1) >= Len(f)
    BY <1>2, <2>1
  <2>3. IF v[i].type = "contents" THEN IsChunk(f, Behind(k, (i - 1) + 1), v[i])
        ELSE Behind(k, (i - 1) + 1) >= Len(f)
    BY <2>1, <2>2, Zenon
  <2>. QED
    BY <1>7, <2>1, <2>3
<1>9. u # <<>>
  BY <1>3
<1>10. shell[c] = "response" => v # <<>> /\ v[Len(v)].type = "request"
  <2> SUFFICES ASSUME shell[c] = "response" PROVE v # <<>> /\ v[Len(v)].type = "request"
    OBVIOUS
  <2>1. u[Len(u)].type = "request"
    BY <1>2, <1>9
  <2>2. Len(u) # 1
    BY <1>3, <1>6, <2>1
  <2>3. Len(v) \in 1..Len(v) /\ Len(v) + 1 = Len(u)
    BY <1>3, <2>2
  <2>4. v[Len(v)] = u[Len(u)]
    BY <1>3, <2>3
  <2>5. v # <<>>
    BY <2>3
  <2>. QED
    BY <2>1, <2>4, <2>5
<1>11. t.status = "RUNNING" => t.socket.file_contents = f /\ SentUpTo(t.socket, Behind(e, Len(v)))
  BY <1>2, <1>3, <1>7, <1>9
<1>12. t.status # "RUNNING" /\ open[c] /\ shell[c] # "response" => Behind(e, Len(v)) >= Len(f)
  BY <1>2, <1>3, <1>7, <1>9
<1>13. f \in WholeFiles
  BY DEF f, WholeFiles
<1>14. (r2.complete_file => r2.file_contents \in WholeFiles) /\ (~r2.complete_file => e < Len(f))
  BY <1>1, <1>6, <1>13
<1>. QED
  BY <1>1, <1>2, <1>6, <1>8, <1>9, <1>10, <1>11, <1>12, <1>14, Zenon DEF Arriving, Arrived, f, t, r2, e

(* The agent has taken a message while it receives a file. *)
LEMMA TakeInv ==
    ASSUME IInv, WInv, WTypes', NEW c \in Clients, apc[c] = "receive",
           NEW m \in ToAgent, NEW behind \in Seq(ToAgent), TakeChunk(c, m, behind),
           Popped(Up(c), behind \o to_agent'[c], m),
           \A d \in Clients \ {c} : to_agent'[d] = to_agent[d],
           UNCHANGED <<files, sender, command, parser, to_client, open, shell, request, tasks,
                       get_task>>
    PROVE  WInv'
<1> DEFINE r == WithChunk(receiver[c], m, behind)
           stopped == ChunkLength(m) = 0 \/ terminated[c]
           over == stopped \/ r.complete_file
           v == behind \o to_agent'[c]
<1>1. WTypes /\ ClientInv(c) /\ FilesWhole /\ to_agent'[c] \in Seq(ToAgent)
  BY DEF WInv, WTypes
<1>2. /\ contents' = [contents EXCEPT ![c] = IF over THEN ContentsRead(r, stopped) ELSE <<>>]
      /\ receiver' = [receiver EXCEPT ![c] = IF over THEN NewReceiver ELSE r]
      /\ \/ Goto(c, IF over THEN "write" ELSE "check_received")
         \/ stopped /\ Goto(c, "clean")
      /\ Disturbed(c, over /\ \E i \in 1..Len(behind) : behind[i].type = "request",
                   "request_dropped")
  BY Zenon DEF TakeChunk, HasCompleteFile
<1>3. r.parser = behind
  BY Zenon DEF WithChunk
<1> HIDE DEF r, stopped, over
<1>4. /\ contents'[c] = (IF over THEN ContentsRead(r, stopped) ELSE <<>>)
      /\ receiver'[c] = (IF over THEN NewReceiver ELSE r)
      /\ IF over THEN apc'[c] \in {"clean", "write"} ELSE apc'[c] = "check_received"
  BY <1>1, <1>2, GotoFact DEF WTypes, over
<1>5. \A d \in Clients \ {c} : SameClient(d)
  BY <1>1, <1>2, GotoFact DEF SameClient, SameButLabel, Disturbed, WTypes
<1>6. InStep(c)' => InStep(c)
  BY <1>1, <1>2 DEF InStep, Disturbed, WTypes
<1>7. OpenEnd(c)' /\ CancelsGets(c)'
  BY <1>1 DEF ClientInv, OpenEnd, CancelsGets
<1>8. LocalToPut(c)'
  BY <1>4 DEF LocalToPut
<1>9. (GetRuns(c)' <=> GetRuns(c)) /\ (OneTask(c)' <=> OneTask(c)) /\ LastTask(c)' = LastTask(c)
  BY Zenon DEF GetRuns, LastTask, OneTask
<1>10. CASE ~InStep(c)
  BY <1>5, <1>6, <1>7, <1>8, <1>10, UseInv DEF StepInv, AllInStep
<1>11. CASE InStep(c)
  <2>1. /\ OneTask(c) /\ Asked(c) /\ Answered(c) /\ GetAnswered(c) /\ Uploads(c)
    BY <1>1, <1>11 DEF ClientInv, StepInv
  <2>2. ~GetRuns(c)
    BY <2>1 DEF GetAnswered
  <2>3. parser[c] = <<>> /\ Up(c) \in Seq(ToAgent) /\ Len(Up(c)) \in Nat
    BY <1>1, <2>1, UpType DEF Asked
  <2>4. v \in Seq(ToAgent) /\ Len(v) \in Nat
    BY <1>1, ConcatProperties
  <2>5. Len(v) = Len(behind) + Len(to_agent'[c])
        /\ \A j \in 1..Len(to_agent'[c]) : v[Len(behind) + j] = to_agent'[c][j]
    BY <1>1, ConcatProperties
  <2>6. Popped(Up(c), v, m)
    OBVIOUS
  <2> HIDE DEF v
  <2>7. Arriving(c, r, v) /\ Arrived(c, r, m)
    <3>1. receiver[c] \in ReceiverType(ToAgent)
      BY <1>1 DEF WTypes
    <3>. QED
      BY <2>1, <2>3, <2>4, <2>6, <3>1, UploadsPop DEF r
  <2>8. /\ Len(Up(c)) = Len(v) + 1
        /\ \A i \in 1..Len(v) : i + 1 \in 1..Len(Up(c)) /\ v[i] = Up(c)[i + 1]
    BY <2>3, <2>4, <2>6 DEF Popped
  <2>9. AllContents(to_client[c])
    <3>1. Up(c) # <<>>
      BY <2>4, <2>8
    <3>. QED
      BY <2>1, <3>1 DEF Answered, AllContents
  <2>10. contents'[c] \in WholeFiles
    <3>1. <<>> \in WholeFiles
      BY DEF WholeFiles
    <3>2. over /\ ~stopped => r.complete_file
      BY DEF over
    <3>. QED
      BY <1>4, <2>7, <3>1, <3>2 DEF ContentsRead, Arrived
  <2>11. Answered(c)' /\ AllContents(to_client[c])'
    BY <2>9 DEF Answered, AllContents
  <2>12. ASSUME NEW i \in 1..Len(v)
         PROVE  \/ v[i].type = "contents"
                \/ /\ v[i] = request[c] /\ i = Len(v) /\ shell[c] = "response"
    <3>1. i + 1 \in 1..Len(Up(c)) /\ v[i] = Up(c)[i + 1]
      BY <2>8
    <3>2. \/ Up(c)[i + 1].type = "contents"
          \/ Up(c)[i + 1] = request[c] /\ i + 1 = Len(Up(c)) /\ shell[c] = "response"
      BY <2>1, <3>1 DEF Asked
    <3>. QED
      BY <2>4, <2>8, <3>1, <3>2
  <2>13. Asked(c)'
    <3>1. CASE over
      <4>1. apc'[c] \in {"clean", "write"} /\ Up(c)' = <<>> \o to_agent'[c]
        BY <1>4, <2>3, <3>1, Zenon DEF Up
      <4>2. Up(c)' = to_agent'[c]
        BY <1>1, <4>1, ConcatEmptySeq
      <4> DEFINE q == to_agent'[c]
      <4>3. ASSUME NEW j \in 1..Len(q)
            PROVE  \/ q[j].type = "contents"
                   \/ q[j] = request[c] /\ j = Len(q) /\ shell[c] = "response"
        <5>1. /\ Len(behind) \in Nat /\ Len(q) \in Nat /\ q[j] = v[Len(behind) + j]
              /\ Len(v) = Len(behind) + Len(q)
          BY <1>1, <2>5
        <5>2. Len(behind) + j \in 1..Len(v)
          BY <5>1
        <5>3. \/ v[Len(behind) + j].type = "contents"
              \/ /\ v[Len(behind) + j] = request[c] /\ Len(behind) + j = Len(v)
                 /\ shell[c] = "response"
          BY <2>12, <5>2
        <5>4. Len(behind) + j = Len(v) => j = Len(q)
          BY <5>1
        <5>. QED
          BY <5>1, <5>3, <5>4
      <4>. QED
        BY <2>3, <2>11, <4>1, <4>2, <4>3 DEF Asked
    <3>2. CASE ~over
      <4>1. apc'[c] = "check_received" /\ receiver'[c] = r
        BY <1>4, <3>2
      <4>2. Up(c)' = v
        BY <1>3, <4>1, Zenon DEF Up, v
      <4>. QED
        BY <2>3, <2>11, <2>12, <4>1, <4>2 DEF Asked
    <3>. QED
      BY <3>1, <3>2
  <2>14. ASSUME apc'[c] \in ReceivingLabels PROVE Uploads(c)'
    <3>1. ~over /\ receiver'[c] = r
      BY <1>4, <2>14
    <3>2. Up(c)' = v
      BY <1>3, <2>14, <3>1, Zenon DEF Up, v
    <3>3. ~r.complete_file /\ Len(r.file_contents) < Len(Serialized(Source[c]))
      BY <2>7, <3>1 DEF over, Arrived
    <3>. QED
      BY <1>9, <2>7, <3>1, <3>2, <3>3 DEF Uploads, Arriving
  <2>15. StepInv(c)'
    BY <1>9, <2>1, <2>2, <2>10, <2>11, <2>13, <2>14 DEF StepInv, GetAnswered
  <2>16. WholeInv(c)'
    BY <1>9, <2>2, <2>9 DEF WholeInv, AllContents
  <2>. QED
    BY <1>5, <1>6, <1>7, <1>8, <2>15, <2>16, UseInv
<1>. QED
  BY <1>10, <1>11

(* CleanUp(): messages are dropped, and no request in step. *)
LEMMA CleanInv ==
    ASSUME IInv, WInv, WTypes', NEW c \in Clients, CleanUp(c), UNCHANGED client_vars
    PROVE  WInv'
<1>1. /\ apc[c] = "clean"
      /\ UNCHANGED <<files, sender, receiver, contents, command, parser, to_client, open, shell,
                     request, tasks, get_task>>
  BY DEF CleanUp
<1>2. WTypes /\ ClientInv(c) /\ FilesWhole
  BY DEF WInv
<1>3. PICK n \in 1..Len(to_agent[c]), label \in {"clean", "write"} :
         /\ to_agent' = [to_agent EXCEPT ![c] = SubSeq(@, n + 1, Len(@))] /\ Goto(c, label)
         /\ Disturbed(c, \E i \in 1..n : to_agent[c][i].type = "request", "request_dropped")
  BY DEF CleanUp
<1> DEFINE q == to_agent'[c]
<1>4. /\ to_agent[c] \in Seq(ToAgent) /\ q = SubSeq(to_agent[c], n + 1, Len(to_agent[c]))
      /\ \A d \in Clients \ {c} : to_agent'[d] = to_agent[d]
  BY <1>2, <1>3 DEF WTypes
<1>5. /\ q \in Seq(ToAgent) /\ Len(q) = Len(to_agent[c]) - n /\ Len(q) \in Nat
      /\ \A j \in 1..Len(q) : n + j \in 1..Len(to_agent[c]) /\ q[j] = to_agent[c][n + j]
  <2>1. /\ Len(SubSeq(to_agent[c], n + 1, Len(to_agent[c]))) = Len(to_agent[c]) - n
        /\ \A j \in 1..Len(SubSeq(to_agent[c], n + 1, Len(to_agent[c]))) :
              SubSeq(to_agent[c], n + 1, Len(to_agent[c]))[j] = to_agent[c][n + j]
    BY <1>4, PopRead
  <2>2. Len(to_agent[c]) \in Nat /\ q \in Seq(ToAgent)
    BY <1>4 DEF WTypes
  <2>3. Len(q) = Len(to_agent[c]) - n /\ \A j \in 1..Len(q) : q[j] = to_agent[c][n + j]
    BY <1>4, <2>1, Zenon
  <2>. QED
    BY <2>2, <2>3
<1> HIDE DEF q
<1>6. apc'[c] = label /\ \A d \in Clients \ {c} : SameClient(d)
  BY <1>1, <1>2, <1>3, <1>4, GotoFact DEF SameClient, SameButLabel, Disturbed, WTypes
<1>7. InStep(c)' => InStep(c)
  BY <1>2, <1>3 DEF InStep, Disturbed, WTypes
<1>8. OpenEnd(c)' /\ CancelsGets(c)'
  BY <1>1, <1>2 DEF ClientInv, OpenEnd, CancelsGets
<1>9. LocalToPut(c)'
  BY <1>1, <1>2, <1>6 DEF ClientInv, LocalToPut
<1>10. (GetRuns(c)' <=> GetRuns(c)) /\ (OneTask(c)' <=> OneTask(c))
  BY <1>1, Zenon DEF GetRuns, LastTask, OneTask
<1>11. CASE ~InStep(c)
  BY <1>1, <1>6, <1>7, <1>8, <1>9, <1>11, UseInv DEF StepInv, AllInStep
<1>12. CASE InStep(c)
  <2>1. /\ OneTask(c) /\ Asked(c) /\ Answered(c) /\ GetAnswered(c)
        /\ contents'[c] \in WholeFiles
    BY <1>1, <1>2, <1>12 DEF ClientInv, StepInv
  <2>2. ~GetRuns(c) /\ parser[c] = <<>>
    BY <1>1, <2>1 DEF GetAnswered, Asked
  <2>3. Up(c) = to_agent[c] /\ Up(c)' = q
    <3>1. Up(c) = <<>> \o to_agent[c] /\ Up(c)' = <<>> \o q
      BY <1>1, <1>6, <2>2, Zenon DEF Up, q
    <3>. QED
      BY <1>4, <1>5, <3>1, ConcatEmptySeq
  <2>4. AllContents(to_client[c])
    <3>1. Up(c) # <<>>
      BY <1>4, <2>3
    <3>. QED
      BY <1>1, <2>1, <3>1 DEF Answered, AllContents
  <2>5. Answered(c)' /\ AllContents(to_client[c])'
    BY <1>1, <2>4 DEF Answered, AllContents
  <2>6. ASSUME NEW j \in 1..Len(q)
        PROVE  \/ q[j].type = "contents"
               \/ q[j] = request[c] /\ j = Len(q) /\ shell[c] = "response"
    <3>1. \/ to_agent[c][n + j].type = "contents"
          \/ /\ to_agent[c][n + j] = request[c] /\ n + j = Len(to_agent[c])
             /\ shell[c] = "response"
      BY <1>1, <1>5, <2>1, <2>3 DEF Asked
    <3>2. n + j = Len(to_agent[c]) => j = Len(q)
      BY <1>4, <1>5
    <3>. QED
      BY <1>5, <3>1, <3>2
  <2>7. Asked(c)'
    BY <1>1, <1>6, <2>2, <2>3, <2>5, <2>6 DEF Asked
  <2>8. StepInv(c)'
    BY <1>6, <1>10, <2>1, <2>2, <2>5, <2>7 DEF StepInv, GetAnswered
  <2>9. WholeInv(c)'
    BY <1>1, <1>10, <2>2, <2>4 DEF WholeInv, AllContents
  <2>. QED
    BY <1>1, <1>6, <1>7, <1>8, <1>9, <2>8, <2>9, UseInv
<1>. QED
  BY <1>11, <1>12

(* ReadFileContents(). *)
LEMMA ReceiveInv ==
    ASSUME IInv, WInv, WTypes', NEW c \in Clients, ReceiveChunk(c), UNCHANGED client_vars
    PROVE  WInv'
<1>1. /\ apc[c] = "receive"
      /\ UNCHANGED <<files, sender, command, parser, to_client, open, shell, request, tasks,
                     get_task>>
  BY DEF ReceiveChunk
<1>2. WTypes /\ ClientInv(c) /\ FilesWhole
  BY DEF WInv
<1>3. /\ Up(c) = receiver[c].parser \o to_agent[c] /\ Up(c) \in Seq(ToAgent)
      /\ receiver[c].parser \in Seq(ToAgent) /\ to_agent[c] \in Seq(ToAgent)
  BY <1>1, <1>2, UpType, Zenon DEF Up
<1>4. CASE /\ receiver[c].parser # <<>>
           /\ TakeChunk(c, Head(receiver[c].parser), Tail(receiver[c].parser))
           /\ UNCHANGED to_agent
  <2>1. Head(receiver[c].parser) \in ToAgent /\ Tail(receiver[c].parser) \in Seq(ToAgent)
    BY <1>3, <1>4
  <2>2. ASSUME NEW p \in Seq(ToAgent), p = receiver[c].parser
        PROVE  Popped(p \o to_agent[c], Tail(p) \o to_agent[c], Head(p))
    BY <1>3, <1>4, <2>2, PopHeld
  <2>3. Popped(Up(c), Tail(receiver[c].parser) \o to_agent'[c], Head(receiver[c].parser))
    BY <1>3, <1>4, <2>2, Zenon
  <2>. QED
    BY <1>1, <1>4, <2>1, <2>3, TakeInv
<1>5. ASSUME receiver[c].parser = <<>>, NEW n \in 1..Len(to_agent[c]),
             TakeChunk(c, Head(to_agent[c]), SubSeq(to_agent[c], 2, n)),
             to_agent' = [to_agent EXCEPT ![c] = SubSeq(@, n + 1, Len(@))]
      PROVE  WInv'
  <2>1. Head(to_agent[c]) \in ToAgent /\ SubSeq(to_agent[c], 2, n) \in Seq(ToAgent)
    BY <1>3, <1>5, PartFact
  <2>2. /\ Popped(to_agent[c], SubSeq(to_agent[c], 2, n) \o SubSeq(to_agent[c], n + 1, Len(to_agent[c])),
                  Head(to_agent[c]))
        /\ <<>> \o to_agent[c] = to_agent[c]
    BY <1>3, <1>5, PopRead
  <2>3. /\ to_agent'[c] = SubSeq(to_agent[c], n + 1, Len(to_agent[c]))
        /\ \A d \in Clients \ {c} : to_agent'[d] = to_agent[d]
    BY <1>2, <1>5 DEF WTypes
  <2>4. Popped(Up(c), SubSeq(to_agent[c], 2, n) \o to_agent'[c], Head(to_agent[c]))
    BY <1>3, <1>5, <2>2, <2>3, Zenon
  <2>. QED
    BY <1>1, <1>5, <2>1, <2>3, <2>4, TakeInv
<1>6. CASE /\ to_agent[c] = <<>> /\ ~open[c] /\ Goto(c, "write")
           /\ receiver' = [receiver EXCEPT ![c] = NewReceiver]
           /\ UNCHANGED <<contents, to_agent, out_of_step>>
  <2>1. apc'[c] = "write" /\ receiver'[c] = NewReceiver
    BY <1>2, <1>6, GotoFact DEF WTypes
  <2>2. \A d \in Clients \ {c} : SameClient(d)
    BY <1>1, <1>2, <1>6, GotoFact DEF SameClient, SameButLabel, WTypes
  <2>3. InStep(c)' <=> InStep(c)
    BY <1>6 DEF InStep
  <2>4. OpenEnd(c)' /\ CancelsGets(c)'
    BY <1>1, <1>2 DEF ClientInv, OpenEnd, CancelsGets
  <2>5. LocalToPut(c)'
    BY <2>1 DEF LocalToPut
  <2>6. (GetRuns(c)' <=> GetRuns(c)) /\ (OneTask(c)' <=> OneTask(c))
    BY <1>1, Zenon DEF GetRuns, LastTask, OneTask
  <2>7. to_client'[c] = <<>>
    BY <1>1, <1>2, <1>6 DEF ClientInv, OpenEnd
  <2>8. InStep(c) => OneTask(c) /\ ~GetRuns(c) /\ contents'[c] \in WholeFiles /\ parser'[c] = <<>>
    BY <1>1, <1>2, <1>6 DEF ClientInv, StepInv, GetAnswered, Asked
  <2>9. InStep(c) => Asked(c)'
    <3> SUFFICES ASSUME InStep(c) PROVE Asked(c)'
      OBVIOUS
    <3>1. Up(c)' = <<>> \o <<>>
      BY <1>6, <2>1, <2>8, Zenon DEF Up
    <3>2. Up(c)' = <<>>
      BY <3>1, ConcatEmptySeq
    <3>. QED
      BY <2>1, <2>8, <3>2 DEF Asked
  <2>10. Answered(c)' /\ \A p \in 1..Len(to_client'[c]) : FALSE
    BY <2>7 DEF Answered
  <2>11. StepInv(c)'
    BY <2>1, <2>3, <2>6, <2>8, <2>9, <2>10 DEF StepInv, GetAnswered
  <2>12. AllInStep => WholeInv(c)'
    BY <2>6, <2>8, <2>10 DEF WholeInv, AllInStep
  <2>. QED
    BY <1>1, <2>2, <2>3, <2>4, <2>5, <2>11, <2>12, UseInv
<1>. QED
  BY <1>4, <1>5, <1>6 DEF ReceiveChunk

(* Every step of the server. *)
LEMMA ServerInv ==
    ASSUME IInv, WInv, WTypes', NEW c \in Clients, Server(c), UNCHANGED client_vars PROVE WInv'
  BY NPortInv, ReadInv, GenerateInv, RespondInv, OpenInv, OpenCrashes, SendInv, CheckInv,
     ReceiveInv, CleanInv, WriteInv, EndInv, OtherRequestsInv
     DEF Server, Agent

-----------------------------------------------------------------------------
(* The steps of the client. *)

(* A step of client c, which leaves the agents alone. *)
ClientOnly(c) ==
    /\ UNCHANGED <<files, apc, command, sender, receiver, contents, parser>>
    /\ \A d \in Clients \ {c} :
          /\ shell'[d] = shell[d] /\ open'[d] = open[d] /\ request'[d] = request[d]
          /\ tasks'[d] = tasks[d] /\ get_task'[d] = get_task[d]
          /\ out_of_step'[d] = out_of_step[d]
          /\ to_client'[d] = to_client[d] /\ to_agent'[d] = to_agent[d]

(* The parts of StepInv that such a step can disturb. *)
Used(c) ==
    /\ OneTask(c) /\ Asked(c) /\ Answered(c) /\ GetAnswered(c)
    /\ apc[c] \in ReceivingLabels => Uploads(c)

(* What is left to show of such a step. *)
LEMMA ClientOnlyInv ==
    ASSUME WInv, WTypes', NEW c \in Clients, ClientOnly(c), InStep(c)' => InStep(c),
           OpenEnd(c)', CancelsGets(c)', InStep(c)' => Used(c)',
           AllInStep /\ AllInStep' => WholeInv(c)'
    PROVE  WInv'
<1>1. \A d \in Clients \ {c} : SameClient(d)
  BY DEF ClientOnly, SameClient, SameButLabel
<1>2. LocalToPut(c)'
  BY DEF ClientOnly, LocalToPut, WInv, ClientInv
<1>3. StepInv(c)'
  BY DEF ClientOnly, StepInv, Used, WInv, ClientInv
<1>4. UNCHANGED files
  BY DEF ClientOnly
<1>. QED
  BY <1>1, <1>2, <1>3, <1>4, UseInv

(* While the shell does not wait for a response there is none on its way,    *)
(* and no request.                                                           *)
LEMMA OnlyContents ==
    ASSUME NEW c \in Clients, ClientInv(c), InStep(c), shell[c] # "response"
    PROVE  /\ Used(c)
           /\ AllContents(to_client[c])
           /\ apc[c] # "ended" => AllContents(Up(c)) /\ apc[c] \notin Unanswered
           /\ apc[c] # "ended" /\ apc[c] # "read" => parser[c] = <<>>
  BY DEF ClientInv, StepInv, Used, Asked, Answered, AllContents

(* The same the other way round. *)
LEMMA OnlyContentsUsed ==
    ASSUME NEW c \in Clients, shell'[c] # "response",
           \A i \in 1..Len(tasks'[c]) : tasks'[c][i].status = "RUNNING" => i = Len(tasks'[c]),
           AllContents(to_client'[c]),
           apc'[c] # "ended" => AllContents(Up(c)') /\ apc'[c] \notin Unanswered,
           apc'[c] # "ended" /\ apc'[c] # "read" => parser'[c] = <<>>,
           GetAnswered(c)', apc'[c] \in ReceivingLabels => Uploads(c)'
    PROVE  Used(c)'
<1>1. OneTask(c)'
  BY DEF OneTask
<1>2. Asked(c)'
  BY DEF Asked, AllContents
<1>3. Answered(c)'
  BY DEF Answered, AllContents
<1>. QED
  BY <1>1, <1>2, <1>3 DEF Used

(* Client::Connect(). *)
LEMMA ConnectInv == ASSUME IInv, WInv, WTypes', NEW c \in Clients, Connect(c) PROVE WInv'
<1>1. /\ UNCHANGED <<files, command, sender, receiver, contents, parser, to_agent, to_client,
                     out_of_step, request, tasks, get_task>>
      /\ shell[c] = "new" /\ apc[c] = "none"
      /\ apc'[c] = "pending" /\ open'[c] = TRUE /\ shell'[c] = "prompt"
  BY DEF Connect, IInv, Types, AgentInv, Unconnected, WInv, WTypes
<1>2. \A d \in Clients \ {c} : SameClient(d)
  BY <1>1 DEF Connect, SameClient, SameButLabel, IInv, Types, WInv, WTypes
<1>3. ClientInv(c) /\ (InStep(c)' <=> InStep(c))
  BY <1>1 DEF WInv, InStep
<1>4. OpenEnd(c)' /\ CancelsGets(c)' /\ LocalToPut(c)'
  BY <1>1, <1>3 DEF ClientInv, OpenEnd, CancelsGets, LocalToPut
<1>5. (GetRuns(c)' <=> GetRuns(c)) /\ Up(c)' = Up(c)
  BY <1>1, Zenon DEF GetRuns, LastTask, Up
<1>6. ASSUME InStep(c) PROVE Used(c)' /\ ~GetRuns(c) /\ AllContents(to_client'[c])
  <2>1. /\ Used(c) /\ AllContents(to_client[c]) /\ AllContents(Up(c)) /\ parser[c] = <<>>
    BY <1>1, <1>3, <1>6, OnlyContents
  <2>2. ~GetRuns(c)
    BY <1>1, <2>1 DEF Used, GetAnswered
  <2>3. Used(c)'
    BY <1>1, <1>5, <2>1, <2>2, OnlyContentsUsed DEF Used, GetAnswered, OneTask
  <2>. QED
    BY <1>1, <2>1, <2>2, <2>3
<1>7. StepInv(c)'
  BY <1>1, <1>3, <1>6 DEF ClientInv, StepInv, Used
<1>8. AllInStep => WholeInv(c)'
  BY <1>5, <1>6 DEF AllInStep, WholeInv, AllContents
<1>. QED
  BY <1>1, <1>2, <1>3, <1>4, <1>7, <1>8, UseInv

(* Tasks that differ in nothing but the cancellation of downloads. *)
LikeTasks(c) ==
    /\ Len(tasks'[c]) = Len(tasks[c]) /\ (tasks'[c] = <<>> <=> tasks[c] = <<>>)
    /\ \A i \in 1..Len(tasks[c]) :
          /\ tasks'[c][i].kind = tasks[c][i].kind
          /\ tasks'[c][i].status = tasks[c][i].status
          /\ tasks'[c][i].socket = tasks[c][i].socket
          /\ tasks[c][i].kind = "put" => (tasks'[c][i].cancelled <=> tasks[c][i].cancelled)

(* The shell goes from its prompt to a task and back. *)
LEMMA IdleInv ==
    ASSUME WInv, WTypes', NEW c \in Clients, ClientOnly(c), LikeTasks(c),
           shell[c] \in {"prompt", "waiting"}, shell'[c] \in {"prompt", "waiting"},
           open'[c] = open[c], request'[c] = request[c], get_task'[c] = get_task[c],
           out_of_step'[c] = out_of_step[c], to_client'[c] = to_client[c],
           to_agent'[c] = to_agent[c]
    PROVE  WInv'
<1>1. WTypes /\ ClientInv(c) /\ (InStep(c)' <=> InStep(c))
  BY DEF WInv, InStep
<1>2. OpenEnd(c)' /\ CancelsGets(c)'
  BY <1>1 DEF ClientInv, OpenEnd, CancelsGets, LikeTasks
<1>3. /\ apc'[c] = apc[c] /\ receiver'[c] = receiver[c] /\ parser'[c] = parser[c]
      /\ sender'[c] = sender[c]
  BY DEF ClientOnly
<1>4. Up(c)' = Up(c)
  BY <1>3, Zenon DEF Up
<1>5. tasks[c] # <<>> =>
         /\ LastTask(c)'.kind = LastTask(c).kind /\ LastTask(c)'.status = LastTask(c).status
         /\ LastTask(c)'.socket = LastTask(c).socket
  <2>1. tasks[c] # <<>> => Len(tasks[c]) \in 1..Len(tasks[c])
    BY <1>1 DEF WTypes
  <2>. QED
    BY <2>1 DEF LikeTasks, LastTask
<1>6. GetRuns(c)' <=> GetRuns(c)
  BY <1>5 DEF GetRuns, LikeTasks
<1>7. ASSUME InStep(c) PROVE Used(c)'
  <2>1. /\ Used(c) /\ AllContents(to_client[c])
        /\ apc[c] # "ended" => AllContents(Up(c)) /\ apc[c] \notin Unanswered
        /\ apc[c] # "ended" /\ apc[c] # "read" => parser[c] = <<>>
    BY <1>1, <1>7, OnlyContents
  <2>2. ASSUME apc'[c] \in ReceivingLabels PROVE Uploads(c)'
    <3>1. Uploads(c)
      BY <1>3, <2>1, <2>2 DEF Used
    <3>. QED
      BY <1>3, <1>4, <1>5, <3>1 DEF Uploads, LikeTasks
  <2>3. \A i \in 1..Len(tasks'[c]) : tasks'[c][i].status = "RUNNING" => i = Len(tasks'[c])
    BY <2>1 DEF Used, OneTask, LikeTasks
  <2>4. GetAnswered(c)'
    BY <1>3, <1>6, <2>1 DEF Used, GetAnswered
  <2>. QED
    BY <1>3, <1>4, <2>1, <2>2, <2>3, <2>4, OnlyContentsUsed
<1>8. ASSUME AllInStep PROVE WholeInv(c)'
  <2>1. WholeInv(c)
    BY <1>1 DEF ClientInv
  <2>2. \A r, q : Downloads(c, r, q) => Downloads(c, r, q)'
    BY <1>3 DEF Downloads
  <2>3. GetRuns(c) => LastTask(c)'.socket = LastTask(c).socket
    BY <1>5 DEF GetRuns
  <2>. QED
    BY <1>6, <1>8, <2>1, <2>2, <2>3 DEF WholeInv
<1>. QED
  BY <1>1, <1>2, <1>7, <1>8, ClientOnlyInv

(* WaitForCompletion(), and a terminate, which cancels no upload. *)
LEMMA ShellIdleInv ==
    ASSUME IInv, WInv, WTypes', NEW c \in Clients, TypeTerminate(c) \/ TaskCompleted(c)
    PROVE  WInv'
<1>1. WTypes /\ ClientInv(c) /\ DOMAIN shell = Clients
  BY DEF WInv, IInv, Types
<1>2. CASE TaskCompleted(c)
  <2>1. /\ UNCHANGED <<files, apc, command, sender, receiver, contents, parser, to_agent, to_client,
                       open, out_of_step, request, tasks, get_task>>
        /\ shell[c] = "waiting" /\ shell' = [shell EXCEPT ![c] = "prompt"]
    BY <1>2 DEF TaskCompleted
  <2>2. ClientOnly(c) /\ LikeTasks(c) /\ shell'[c] = "prompt"
    BY <1>1, <2>1 DEF ClientOnly, LikeTasks
  <2>. QED
    BY <2>1, <2>2, IdleInv
<1>3. CASE TypeTerminate(c)
  <2>1. /\ UNCHANGED <<files, apc, command, sender, receiver, contents, parser, to_agent, to_client,
                       open, out_of_step, request, get_task>>
        /\ shell[c] = "prompt"
    BY <1>3 DEF TypeTerminate, MayType
  <2>2. CASE get_task[c] = 0
    <3>1. UNCHANGED <<shell, tasks>>
      BY <1>3, <2>2 DEF TypeTerminate, TaskToCancel
    <3>2. ClientOnly(c) /\ LikeTasks(c)
      BY <2>1, <3>1 DEF ClientOnly, LikeTasks
    <3>. QED
      BY <2>1, <3>1, <3>2, IdleInv
  <2>3. CASE get_task[c] # 0
    <3> DEFINE i == get_task[c]
               t == [tasks[c][i] EXCEPT !.cancelled = TRUE]
    <3>1. /\ i \in 1..Len(tasks[c]) /\ TaskBecomes(c, i, t)
          /\ t.kind = "get" /\ t.kind = tasks[c][i].kind
          /\ t.status = tasks[c][i].status /\ t.socket = tasks[c][i].socket
      BY <1>1, <1>3, <2>3, TerminateFact DEF ClientInv
    <3>2. shell' = [shell EXCEPT ![c] = "waiting"]
      BY <1>3, <2>3 DEF TypeTerminate, TaskToCancel
    <3> HIDE DEF t, i
    <3>3. /\ Len(tasks'[c]) = Len(tasks[c]) /\ tasks[c] \in Seq(TaskType)
          /\ tasks'[c] \in Seq(TaskType)
          /\ \A j \in 1..Len(tasks[c]) : tasks'[c][j] = IF j = i THEN t ELSE tasks[c][j]
          /\ \A d \in Clients \ {c} : tasks'[d] = tasks[d]
      BY <1>1, <3>1 DEF TaskBecomes, WTypes
    <3>4. tasks'[c] = <<>> <=> tasks[c] = <<>>
      BY <3>3, EmptySeq
    <3>5. LikeTasks(c)
      BY <3>1, <3>3, <3>4 DEF LikeTasks
    <3>6. ClientOnly(c) /\ shell'[c] = "waiting"
      BY <1>1, <2>1, <3>2, <3>3 DEF ClientOnly
    <3>. QED
      BY <2>1, <3>5, <3>6, IdleInv
  <2>. QED
    BY <2>2, <2>3
<1>. QED
  BY <1>2, <1>3

(* What has been read of a download when the connection goes. *)
LEMMA DownloadsLeft ==
    ASSUME NEW c \in Clients, NEW r, NEW p \in Seq(ToClient), NEW q \in Seq(ToClient),
           Downloads(c, r, p \o q), apc'[c] = apc[c], ~open'[c]
    PROVE  Downloads(c, r, p)'
<1> DEFINE u == p \o q
           k == Len(r.file_contents)
<1>1. PICK f \in WholeFiles \cap FileData :
         /\ IsStartOf(r.file_contents, f)
         /\ r.complete_file => k = Len(f)
         /\ Chunks(f, k, u)
         /\ apc[c] = "open" => k = 0 /\ u = <<>> /\ ~r.complete_file
  BY Zenon DEF Downloads
<1>2. /\ Len(u) = Len(p) + Len(q) /\ \A i \in 1..Len(p) : u[i] = p[i]
      /\ u = <<>> => p = <<>>
  BY ConcatProperties, ConcatEqualIffEmpty
<1> HIDE DEF u
<1>3. \A i \in 1..Len(p) : i \in 1..Len(u)
  BY <1>2
<1>4. Chunks(f, k, p)
  BY <1>1, <1>2, <1>3 DEF Chunks
<1>. QED
  BY <1>1, <1>2, <1>4 DEF Downloads

(* quit. *)
LEMMA QuitInv == ASSUME IInv, WInv, WTypes', NEW c \in Clients, TypeQuit(c) PROVE WInv'
<1>1. /\ UNCHANGED <<files, apc, command, sender, receiver, contents, parser, to_agent,
                     out_of_step, request, tasks, get_task>>
      /\ shell[c] = "prompt" /\ Leave(c, "closed")
  BY DEF TypeQuit, MayType
<1>2. WTypes /\ ClientInv(c) /\ (InStep(c)' <=> InStep(c))
  BY <1>1 DEF WInv, InStep
<1>3. ClientOnly(c) /\ shell'[c] = "closed" /\ open'[c] = FALSE /\ to_client'[c] = <<>>
  BY <1>1, <1>2 DEF ClientOnly, Leave, IInv, Types, WTypes
<1>4. OpenEnd(c)' /\ CancelsGets(c)'
  BY <1>1, <1>2, <1>3 DEF ClientInv, OpenEnd, CancelsGets
<1>5. (GetRuns(c)' <=> GetRuns(c)) /\ Up(c)' = Up(c) /\ LastTask(c)' = LastTask(c)
  BY <1>1, Zenon DEF GetRuns, LastTask, Up
<1>6. ASSUME InStep(c) PROVE Used(c)'
  <2>1. /\ Used(c) /\ AllContents(to_client[c])
        /\ apc[c] # "ended" => AllContents(Up(c)) /\ apc[c] \notin Unanswered
        /\ apc[c] # "ended" /\ apc[c] # "read" => parser[c] = <<>>
    BY <1>1, <1>2, <1>6, OnlyContents
  <2>2. ASSUME apc'[c] \in ReceivingLabels PROVE Uploads(c)'
    <3>1. Uploads(c)
      BY <1>1, <2>1, <2>2 DEF Used
    <3>. QED
      BY <1>1, <1>3, <1>5, <3>1 DEF Uploads
  <2>3. AllContents(to_client'[c])
    BY <1>3 DEF AllContents
  <2>. QED
    BY <1>1, <1>3, <1>5, <2>1, <2>2, <2>3, OnlyContentsUsed DEF Used, OneTask, GetAnswered
<1>7. ASSUME AllInStep PROVE WholeInv(c)'
  <2>1. ASSUME GetRuns(c)
        PROVE  Downloads(c, LastTask(c).socket, LastTask(c).socket.parser \o to_client[c])'
    <3> DEFINE r == LastTask(c).socket
    <3>1. Downloads(c, r, r.parser \o to_client[c])
      BY <1>2, <1>7, <2>1 DEF ClientInv, WholeInv
    <3>2. r \in ReceiverType(ToClient) /\ to_client[c] \in Seq(ToClient)
      BY <1>2, <2>1 DEF GetRuns, LastTask, WTypes, HasSocket
    <3>3. r.parser \in Seq(ToClient)
      BY <3>2 DEF ReceiverType
    <3>4. \A rr, pp : rr = r /\ pp = r.parser => Downloads(c, rr, pp)'
      <4> SUFFICES ASSUME NEW rr, NEW pp \in Seq(ToClient), rr = r, pp = r.parser
                   PROVE  Downloads(c, rr, pp)'
        BY <3>3
      <4>1. Downloads(c, rr, pp \o to_client[c])
        BY <3>1
      <4>. QED
        BY <1>1, <1>3, <3>2, <4>1, DownloadsLeft
    <3>5. LastTask(c)'.socket = r /\ LastTask(c)'.socket.parser \o to_client'[c] = r.parser
      <4>1. r.parser \o <<>> = r.parser
        BY <3>3, ConcatEmptySeq
      <4>. QED
        BY <1>3, <1>5, <4>1, Zenon
    <3> HIDE DEF r
    <3>. QED
      BY <3>4, <3>5
  <2>2. \A p \in 1..Len(to_client'[c]) : FALSE
    BY <1>3
  <2>. QED
    BY <1>5, <2>1, <2>2 DEF WholeInv
<1>. QED
  BY <1>2, <1>3, <1>4, <1>6, <1>7, ClientOnlyInv

(* What the agent has not taken when m has been sent to it. *)
LEMMA UpPush ==
    ASSUME WTypes, NEW c \in Clients, NEW m \in ToAgent,
           UNCHANGED <<apc, receiver, parser>>, to_agent'[c] = Append(to_agent[c], m)
    PROVE  /\ Up(c)' = Append(Up(c), m) /\ Len(Up(c)') = Len(Up(c)) + 1 /\ Len(Up(c)) \in Nat
           /\ Up(c)'[Len(Up(c)) + 1] = m /\ \A i \in 1..Len(Up(c)) : Up(c)'[i] = Up(c)[i]
<1> DEFINE p == IF apc[c] \in ReceivingLabels THEN receiver[c].parser ELSE parser[c]
<1>1. p \in Seq(ToAgent) /\ to_agent[c] \in Seq(ToAgent) /\ Up(c) \in Seq(ToAgent)
  BY UpType
<1>2. Up(c) = p \o to_agent[c] /\ Up(c)' = p \o to_agent'[c]
  BY Zenon DEF Up
<1> HIDE DEF p
<1>3. p \o Append(to_agent[c], m) = Append(p \o to_agent[c], m)
  BY <1>1, PushHeld
<1>4. Up(c)' = Append(Up(c), m)
  BY <1>2, <1>3, Zenon
<1> DEFINE u == Up(c)
<1> HIDE DEF u
<1>5. u \in Seq(ToAgent)
  BY <1>1 DEF u
<1>6. /\ Len(Append(u, m)) = Len(u) + 1 /\ Len(u) \in Nat
      /\ Append(u, m)[Len(u) + 1] = m /\ \A i \in 1..Len(u) : Append(u, m)[i] = u[i]
  BY <1>5, PushFact
<1>. QED
  BY <1>4, <1>6, Zenon DEF u

(* No download runs if no task does. *)
LEMMA NothingRuns ==
    ASSUME WTypes, NEW c \in Clients, Running(c) = {}
    PROVE  /\ ~GetRuns(c) /\ \A i \in 1..Len(tasks[c]) : tasks[c][i].status # "RUNNING"
           /\ tasks[c] # <<>> => LastTask(c).status # "RUNNING"
<1>1. \A i \in 1..Len(tasks[c]) : tasks[c][i].status # "RUNNING"
  BY DEF Running
<1>2. tasks[c] # <<>> => Len(tasks[c]) \in 1..Len(tasks[c])
  BY DEF WTypes
<1>. QED
  BY <1>1, <1>2 DEF GetRuns, LastTask

(* Sending to an agent is nothing to the other clients. *)
LEMMA SendToAgentOthers ==
    ASSUME WTypes, DOMAIN shell = Clients, NEW c \in Clients, NEW m, NEW next,
           SendToAgent(c, m, next), NEW d \in Clients \ {c}
    PROVE  /\ shell'[d] = shell[d] /\ open'[d] = open[d]
           /\ to_client'[d] = to_client[d] /\ to_agent'[d] = to_agent[d]
<1>1. CASE /\ to_agent' = [to_agent EXCEPT ![c] = IF apc[c] = "ended" THEN @ ELSE Append(@, m)]
           /\ shell' = [shell EXCEPT ![c] = next] /\ UNCHANGED <<open, to_client>>
  <2> DEFINE a == IF apc[c] = "ended" THEN to_agent[c] ELSE Append(to_agent[c], m)
  <2>1. to_agent' = [to_agent EXCEPT ![c] = a]
    BY <1>1
  <2> HIDE DEF a
  <2>. QED
    BY <1>1, <2>1 DEF WTypes
<1>2. CASE Leave(c, "dead") /\ UNCHANGED to_agent
  BY <1>2 DEF Leave, WTypes
<1>. QED
  BY <1>1, <1>2 DEF SendToAgent

(* A request. *)
LEMMA RequestInv == ASSUME IInv, WInv, WTypes', NEW c \in Clients, TypeRequest(c) PROVE WInv'
<1>1. PICK m \in ToAgent : /\ m \in RequestMessage
                           /\ request' = [request EXCEPT ![c] = m]
                           /\ SendToAgent(c, m, "response")
  BY RequestsFact DEF TypeRequest
<1>2. /\ UNCHANGED <<files, apc, command, sender, receiver, contents, parser, tasks, get_task>>
      /\ shell[c] = "prompt" /\ Disturbed(c, Running(c) # {}, "typed_during_transfer")
  BY DEF TypeRequest, MayType
<1>3. WTypes /\ ClientInv(c) /\ DOMAIN shell = Clients
  BY DEF WInv, IInv, Types
<1>4. InStep(c)' => InStep(c) /\ Running(c) = {}
  BY <1>2, <1>3 DEF InStep, Disturbed, WTypes
<1>5. ClientOnly(c) /\ request'[c] = m /\ m.type = "request"
  <2>1. \A d \in Clients \ {c} :
          /\ shell'[d] = shell[d] /\ open'[d] = open[d]
          /\ to_client'[d] = to_client[d] /\ to_agent'[d] = to_agent[d]
    BY <1>1, <1>3, SendToAgentOthers
  <2>2. \A d \in Clients \ {c} : request'[d] = request[d] /\ out_of_step'[d] = out_of_step[d]
    BY <1>1, <1>2, <1>3 DEF Disturbed, WTypes
  <2>3. request'[c] = m /\ m.type = "request"
    BY <1>1, <1>3 DEF WTypes, RequestMessage
  <2>. QED
    BY <1>2, <2>1, <2>2, <2>3 DEF ClientOnly
<1>6. CancelsGets(c)'
  BY <1>2, <1>3 DEF ClientInv, CancelsGets
<1>7. (GetRuns(c)' <=> GetRuns(c)) /\ LastTask(c)' = LastTask(c)
  BY <1>2, Zenon DEF GetRuns, LastTask
<1>8. ASSUME InStep(c)'
      PROVE  /\ ~GetRuns(c) /\ (\A i \in 1..Len(tasks[c]) : tasks[c][i].status # "RUNNING")
             /\ tasks[c] # <<>> => LastTask(c).status # "RUNNING"
             /\ Used(c) /\ AllContents(to_client[c])
             /\ apc[c] # "ended" => AllContents(Up(c)) /\ apc[c] \notin Unanswered
             /\ apc[c] # "ended" /\ apc[c] # "read" => parser[c] = <<>>
  BY <1>2, <1>3, <1>4, <1>8, NothingRuns, OnlyContents
<1>9. CASE apc[c] = "ended" /\ Leave(c, "dead") /\ UNCHANGED to_agent
  <2>1. shell'[c] = "dead" /\ open'[c] = FALSE /\ to_client'[c] = <<>>
    BY <1>3, <1>9 DEF Leave, WTypes
  <2>2. OpenEnd(c)'
    BY <2>1 DEF OpenEnd
  <2>3. AllContents(to_client'[c]) /\ \A p \in 1..Len(to_client'[c]) : FALSE
    BY <2>1 DEF AllContents
  <2>4. InStep(c)' => Used(c)'
    BY <1>2, <1>7, <1>8, <1>9, <2>1, <2>3, OnlyContentsUsed DEF GetAnswered
  <2>5. AllInStep' => WholeInv(c)'
    BY <1>7, <1>8, <2>3 DEF WholeInv, AllInStep
  <2>. QED
    BY <1>4, <1>5, <1>6, <2>2, <2>4, <2>5, ClientOnlyInv
<1>10. CASE /\ to_agent' = [to_agent EXCEPT ![c] = IF apc[c] = "ended" THEN @ ELSE Append(@, m)]
            /\ shell' = [shell EXCEPT ![c] = "response"] /\ UNCHANGED <<open, to_client>>
  <2>1. /\ shell'[c] = "response" /\ open[c]
        /\ apc[c] # "ended" => to_agent'[c] = Append(to_agent[c], m)
    BY <1>2, <1>3, <1>10 DEF ClientInv, OpenEnd, WTypes
  <2>2. OpenEnd(c)'
    BY <1>10, <2>1 DEF OpenEnd
  <2>3. apc[c] # "ended" =>
           /\ Len(Up(c)') = Len(Up(c)) + 1 /\ Len(Up(c)) \in Nat
           /\ Up(c)'[Len(Up(c)) + 1] = m /\ \A i \in 1..Len(Up(c)) : Up(c)'[i] = Up(c)[i]
    BY <1>2, <1>3, <2>1, UpPush
  <2>4. ASSUME InStep(c)' PROVE Used(c)'
    <3>1. OneTask(c)'
      BY <1>2, <1>8, <2>4 DEF OneTask
    <3>2. Answered(c)' /\ AllContents(to_client'[c])
      BY <1>8, <1>10, <2>4 DEF Answered, AllContents
    <3>3. GetAnswered(c)'
      BY <1>7, <1>8, <2>4 DEF GetAnswered
    <3>4. Asked(c)'
      <4> SUFFICES ASSUME apc[c] # "ended" PROVE Asked(c)'
        BY <1>2 DEF Asked
      <4>1. AllContents(Up(c)) /\ apc[c] \notin Unanswered
        BY <1>8, <2>4
      <4>2. ASSUME NEW i \in 1..Len(Up(c)')
            PROVE  \/ Up(c)'[i].type = "contents"
                   \/ Up(c)'[i] = request'[c] /\ i = Len(Up(c)')
        <5>1. i \in 1..Len(Up(c)) \/ i = Len(Up(c)) + 1
          BY <2>3
        <5>. QED
          BY <1>5, <2>3, <4>1, <5>1 DEF AllContents
      <4>. QED
        BY <1>2, <1>8, <2>1, <2>4, <3>2, <4>1, <4>2 DEF Asked
    <3>5. ASSUME apc'[c] \in ReceivingLabels PROVE Uploads(c)'
      <4> DEFINE f == Serialized(Source[c])
                 k == Len(receiver[c].file_contents)
                 n == Len(Up(c))
      <4>1. Uploads(c) /\ apc[c] # "ended" /\ AllContents(Up(c))
        BY <1>2, <1>8, <2>4, <3>5 DEF Used
      <4>2. /\ ~receiver[c].complete_file /\ k < Len(f) /\ IsStartOf(receiver[c].file_contents, f)
            /\ \A i \in 1..n : IsChunk(f, Behind(k, i - 1), Up(c)[i])
            /\ tasks[c] # <<>> /\ LastTask(c).kind = "put" /\ Behind(k, n) >= Len(f)
        BY <1>2, <1>8, <2>1, <2>4, <4>1 DEF Uploads, AllContents
      <4>3. /\ Len(Up(c)') = n + 1 /\ n \in Nat /\ (n + 1) - 1 = n
            /\ Up(c)'[n + 1] = m /\ \A i \in 1..n : Up(c)'[i] = Up(c)[i]
        BY <2>3, <4>1
      <4> HIDE DEF f, k, n
      <4>4. ASSUME NEW i \in 1..Len(Up(c)')
            PROVE  IF Up(c)'[i].type = "contents" THEN IsChunk(f, Behind(k, i - 1), Up(c)'[i])
                   ELSE Behind(k, i - 1) >= Len(f)
        <5>1. CASE i = n + 1
          BY <1>5, <4>2, <4>3, <5>1
        <5>2. CASE i \in 1..n
          <6>1. Up(c)'[i].type = "contents" /\ Up(c)'[i] = Up(c)[i]
            BY <4>1, <4>3, <5>2 DEF AllContents, n
          <6>. QED
            BY <4>2, <5>2, <6>1
        <5>. QED
          BY <4>3, <5>1, <5>2
      <4>5. Up(c)' # <<>> /\ Up(c)'[Len(Up(c)')].type = "request"
        BY <1>5, <4>3
      <4>6. tasks'[c] = tasks[c] /\ receiver'[c] = receiver[c]
        BY <1>2
      <4>7. LastTask(c).status # "RUNNING"
        BY <1>8, <2>4, <4>2
      <4>. QED
        BY <1>7, <2>1, <4>2, <4>4, <4>5, <4>6, <4>7 DEF Uploads, f, k
    <3>. QED
      BY <3>1, <3>2, <3>3, <3>4, <3>5 DEF Used
  <2>5. AllInStep' => WholeInv(c)'
    BY <1>7, <1>8, <1>10 DEF WholeInv, AllInStep, AllContents
  <2>. QED
    BY <1>4, <1>5, <1>6, <2>2, <2>4, <2>5, ClientOnlyInv
<1>. QED
  BY <1>1, <1>9, <1>10 DEF SendToAgent

(* WaitForMessage() in step has taken the response and nothing else, or      *)
(* there is none to come.                                                    *)
LEMMA ResponseTaken ==
    ASSUME WTypes, NEW c \in Clients, ClientInv(c), WaitForMessage(c), InStep(c)'
    PROVE  /\ InStep(c) /\ AllContents(to_client'[c])
           /\ apc[c] # "ended" => Up(c) = <<>>
           /\ apc[c] \in (CASE request[c].kind = "get" -> AfterGet
                            [] request[c].kind = "put" -> AfterPut
                            [] OTHER -> AfterOther)
           /\ AllInStep /\ request[c].kind = "get" => Downloads(c, NewReceiver, to_client'[c])
<1> DEFINE q == to_client[c]
<1>1. q \in Seq(ToClient) /\ shell[c] = "response"
  BY DEF WTypes, WaitForMessage
<1>2. CASE HasEnded(c) /\ UNCHANGED <<to_client, out_of_step>>
  <2>1. InStep(c) /\ q = <<>> /\ to_client'[c] = <<>> /\ apc[c] = "ended"
    BY <1>2 DEF InStep, HasEnded
  <2>2. AllContents(to_client'[c])
    BY <2>1 DEF AllContents
  <2>3. Downloads(c, NewReceiver, <<>>)
    <3>1. <<>> \in WholeFiles \cap FileData
      BY EmptyFacts DEF WholeFiles
    <3>2. IsStartOf(NewReceiver.file_contents, <<>>) /\ ~NewReceiver.complete_file
      BY EmptyFacts DEF IsStartOf
    <3>3. \A k : Chunks(<<>>, k, <<>>)
      BY DEF Chunks
    <3>. QED
      BY <2>1, <3>1, <3>2, <3>3 DEF Downloads
  <2>. QED
    BY <2>1, <2>2, <2>3
<1>3. CASE \E n \in 1..Len(q) :
             /\ to_client' = [to_client EXCEPT ![c] = SubSeq(@, n + 1, Len(@))]
             /\ Disturbed(c, \E i \in 1..n : to_client[c][i].type = "contents",
                          "contents_dropped")
  <2>1. PICK n \in 1..Len(q) :
             /\ to_client' = [to_client EXCEPT ![c] = SubSeq(@, n + 1, Len(@))]
             /\ Disturbed(c, \E i \in 1..n : to_client[c][i].type = "contents",
                          "contents_dropped")
    BY <1>3
  <2>2. InStep(c) /\ \A i \in 1..n : q[i].type # "contents"
    BY <2>1 DEF InStep, Disturbed, WTypes
  <2>3. to_client'[c] = SubSeq(q, n + 1, Len(q))
    BY <2>1 DEF WTypes
  <2> HIDE DEF q
  <2>4. q[1].type # "contents" /\ 1 \in 1..Len(q)
    BY <1>1, <2>2
  <2>5. Answered(c)
    BY <2>2 DEF ClientInv, StepInv
  <2>6. /\ \A i \in 1..Len(q) : i # 1 => q[i].type = "contents"
        /\ apc[c] # "ended" => Up(c) = <<>>
        /\ apc[c] \in (CASE request[c].kind = "get" -> AfterGet
                         [] request[c].kind = "put" -> AfterPut
                         [] OTHER -> AfterOther)
    BY <2>4, <2>5 DEF Answered, q
  <2>7. n = 1
    <3>1. n # 1 => 2 \in 1..n /\ 2 \in 1..Len(q) /\ 2 # 1
      BY <1>1
    <3>. QED
      BY <2>2, <2>6, <3>1
  <2>8. AllContents(to_client'[c])
    <3>1. /\ Len(to_client'[c]) = Len(q) - 1
          /\ \A i \in 1..Len(to_client'[c]) : to_client'[c][i] = q[1 + i]
      <4> DEFINE s == SubSeq(q, 1 + 1, Len(q))
      <4>1. (\A i \in 1..Len(s) : s[i] = q[1 + i]) /\ Len(s) = Len(q) - 1
        BY <1>1, <2>4, PopRead
      <4>2. to_client'[c] = s
        BY <2>3, <2>7
      <4> HIDE DEF s
      <4>. QED
        BY <4>1, <4>2
    <3>2. \A i \in 1..Len(to_client'[c]) : 1 + i \in 1..Len(q) /\ 1 + i # 1
      BY <1>1, <3>1
    <3>. QED
      BY <2>6, <3>1, <3>2 DEF AllContents
  <2>9. AllInStep /\ request[c].kind = "get" => Downloads(c, NewReceiver, to_client'[c])
    <3>1. q[1] \in ToClient
      BY <1>1, <2>4
    <3>2. q[1].type = "response"
      BY <2>4, <3>1, MessageTypes
    <3>3. AllInStep /\ request[c].kind = "get" =>
             Downloads(c, NewReceiver, SubSeq(q, 1 + 1, Len(q)))
      BY <2>4, <3>2 DEF ClientInv, WholeInv, q
    <3>. QED
      BY <2>3, <2>7, <3>3
  <2>. QED
    BY <2>2, <2>6, <2>8, <2>9
<1>. QED
  BY <1>2, <1>3 DEF WaitForMessage

(* The upload that a response begins has nothing behind it. *)
LEMMA UploadBegins ==
    ASSUME NEW c \in Clients, Uploads(c), shell[c] = "response", Up(c) = <<>>,
           Up(c)' = <<>>, receiver'[c] = receiver[c], tasks'[c] # <<>>,
           LastTask(c)' = UploadTask(c), shell'[c] # "response"
    PROVE  Uploads(c)'
<1> DEFINE f == Serialized(Source[c])
<1>1. /\ ~receiver[c].complete_file /\ receiver[c].file_contents = <<>>
      /\ IsStartOf(receiver[c].file_contents, f)
  BY DEF Uploads
<1>2. f \in FileData /\ Len(f) > 0 /\ Len(f) \in Nat
  BY SerializedFact DEF FileData
<1> HIDE DEF f
<1>3. LastTask(c)'.kind = "put" /\ LastTask(c)'.status = "RUNNING"
      /\ LastTask(c)'.socket.file_contents = f /\ LastTask(c)'.socket.total_sent = 0
  BY <1>2, NewTasks, SetContentsType DEF f
<1>4. Behind(0, 0) = 0
  BY BehindFact
<1>5. SentUpTo(LastTask(c)'.socket, Behind(0, 0))
  BY <1>2, <1>3, <1>4 DEF SentUpTo
<1>. QED
  BY <1>1, <1>2, <1>3, <1>5 DEF Uploads, f

(* The tasks behind a response: no other runs. *)
TaskBegins(c) ==
    CASE request[c].kind = "put" ->
            /\ tasks'[c] # <<>> /\ LastTask(c)' = UploadTask(c)
            /\ LastTask(c)'.kind = "put" /\ LastTask(c)'.status = "RUNNING"
      [] request[c].kind = "get" ->
            /\ tasks'[c] # <<>> /\ LastTask(c)' = DownloadTask
            /\ LastTask(c)'.kind = "get" /\ LastTask(c)'.status = "RUNNING"
      [] OTHER -> UNCHANGED tasks

(* It is the only one, and only downloads can be cancelled. *)
LEMMA TaskBeginsFact ==
    ASSUME WTypes, NEW c \in Clients, AfterResponse(c), CancelsGets(c)
    PROVE  /\ TaskBegins(c) /\ CancelsGets(c)'
           /\ (\A i \in 1..Len(tasks[c]) : tasks[c][i].status # "RUNNING") =>
                 \A i \in 1..Len(tasks'[c]) : tasks'[c][i].status = "RUNNING" => i = Len(tasks'[c])
<1>1. Len(tasks[c]) \in Nat /\ get_task \in [Clients -> Nat]
  BY DEF WTypes
<1>2. CASE request[c].kind = "put"
  <2>1. TaskAdded(c, UploadTask(c)) /\ get_task'[c] = get_task[c]
    BY <1>2, AfterResponseFact
  <2>2. /\ UploadTask(c).kind = "put" /\ UploadTask(c).status = "RUNNING"
        /\ ~UploadTask(c).cancelled
    BY NewTasks
  <2>3. /\ tasks'[c] # <<>> /\ LastTask(c)' = UploadTask(c)
        /\ \A i \in 1..Len(tasks'[c]) : i \in 1..Len(tasks[c]) \/ i = Len(tasks[c]) + 1
    BY <1>1, <2>1 DEF TaskAdded, LastTask
  <2>4. CancelsGets(c)'
    <3>1. \A i \in 1..Len(tasks'[c]) : tasks'[c][i].kind = "put" => ~tasks'[c][i].cancelled
      BY <2>1, <2>2, <2>3 DEF CancelsGets, TaskAdded
    <3>2. get_task[c] # 0 => get_task[c] \in 1..Len(tasks'[c]) /\ get_task[c] \in 1..Len(tasks[c])
      BY <1>1, <2>1 DEF CancelsGets, TaskAdded
    <3>3. get_task[c] # 0 => tasks'[c][get_task[c]].kind = "get"
      BY <2>1, <3>2 DEF CancelsGets, TaskAdded
    <3>. QED
      BY <2>1, <3>1, <3>2, <3>3 DEF CancelsGets
  <2>5. TaskBegins(c)
    BY <1>2, <2>2, <2>3 DEF TaskBegins
  <2>. QED
    BY <2>1, <2>3, <2>4, <2>5 DEF TaskAdded
<1>3. CASE request[c].kind = "get"
  <2>1. TaskAdded(c, DownloadTask) /\ get_task'[c] = Len(tasks[c]) + 1
    BY <1>1, <1>3, AfterResponseFact
  <2>2. DownloadTask.kind = "get" /\ DownloadTask.status = "RUNNING"
    BY NewTasks
  <2>3. /\ tasks'[c] # <<>> /\ LastTask(c)' = DownloadTask
        /\ \A i \in 1..Len(tasks'[c]) : i \in 1..Len(tasks[c]) \/ i = Len(tasks[c]) + 1
    BY <1>1, <2>1 DEF TaskAdded, LastTask
  <2>4. CancelsGets(c)'
    <3>1. \A i \in 1..Len(tasks'[c]) : tasks'[c][i].kind = "put" => ~tasks'[c][i].cancelled
      BY <2>1, <2>2, <2>3 DEF CancelsGets, TaskAdded
    <3>2. get_task'[c] \in 1..Len(tasks'[c]) /\ tasks'[c][get_task'[c]].kind = "get"
      BY <1>1, <2>1, <2>2 DEF TaskAdded
    <3>. QED
      BY <3>1, <3>2 DEF CancelsGets
  <2>5. TaskBegins(c)
    BY <1>3, <2>2, <2>3 DEF TaskBegins
  <2>. QED
    BY <2>1, <2>3, <2>4, <2>5 DEF TaskAdded
<1>4. CASE request[c].kind \notin {"put", "get"}
  <2>1. UNCHANGED <<tasks, get_task>>
    BY <1>4, AfterResponseFact
  <2>. QED
    BY <1>4, <2>1 DEF TaskBegins, CancelsGets
<1>. QED
  BY <1>2, <1>3, <1>4

(* WaitForMessage() and what follows it. *)
LEMMA WaitInv == ASSUME IInv, WInv, WTypes', NEW c \in Clients, WaitForMessage(c) PROVE WInv'
<1>1. /\ UNCHANGED <<files, apc, command, sender, receiver, contents, parser, to_agent, open>>
      /\ shell[c] = "response" /\ AfterResponse(c)
  BY DEF WaitForMessage
<1>2. WTypes /\ ClientInv(c) /\ DOMAIN shell = Clients /\ OpenEnd(c) /\ CancelsGets(c)
  BY DEF WInv, ClientInv, IInv, Types
<1>3. /\ shell'[c] \in {"waiting", "prompt"}
      /\ \A d \in Clients \ {c} : /\ shell'[d] = shell[d] /\ request'[d] = request[d]
                                  /\ tasks'[d] = tasks[d] /\ get_task'[d] = get_task[d]
      /\ request'[c].kind = "other"
  <2>1. shell'[c] \in {"waiting", "prompt"} /\ \E s : shell' = [shell EXCEPT ![c] = s]
    BY <1>1, <1>2, AfterResponseFact
  <2>2. /\ request' = [request EXCEPT ![c] = Request("other", NoFile)]
        /\ Request("other", NoFile).kind = "other" /\ DOMAIN request = Clients
    BY <1>1, <1>2, AfterResponseFact, RequestsFact DEF WTypes
  <2>3. \A d \in Clients \ {c} : tasks'[d] = tasks[d] /\ get_task'[d] = get_task[d]
    <3>1. CASE request[c].kind = "put"
      BY <1>1, <1>2, <3>1, AfterResponseFact DEF TaskAdded
    <3>2. CASE request[c].kind = "get"
      <4>1. TaskAdded(c, DownloadTask) /\ get_task' = [get_task EXCEPT ![c] = Len(tasks[c]) + 1]
        BY <1>1, <1>2, <3>2, AfterResponseFact
      <4>2. \A d \in Clients \ {c} : tasks'[d] = tasks[d]
        BY <4>1 DEF TaskAdded
      <4>3. \A d \in Clients \ {c} : get_task'[d] = get_task[d]
        BY <1>2, <4>1 DEF WTypes
      <4>. QED
        BY <4>2, <4>3
    <3>3. CASE request[c].kind \notin {"put", "get"}
      BY <1>1, <1>2, <3>3, AfterResponseFact
    <3>. QED
      BY <3>1, <3>2, <3>3
  <2>. QED
    BY <1>2, <2>1, <2>2, <2>3
<1>4. \A d \in Clients \ {c} : to_client'[d] = to_client[d] /\ out_of_step'[d] = out_of_step[d]
  BY <1>2, ZenonT(40) DEF WaitForMessage, Disturbed, WTypes
<1>5. ClientOnly(c)
  BY <1>1, <1>3, <1>4 DEF ClientOnly
<1>6. /\ TaskBegins(c) /\ CancelsGets(c)'
      /\ (\A i \in 1..Len(tasks[c]) : tasks[c][i].status # "RUNNING") =>
            \A i \in 1..Len(tasks'[c]) : tasks'[c][i].status = "RUNNING" => i = Len(tasks'[c])
  BY <1>1, <1>2, TaskBeginsFact
<1>7. OpenEnd(c)'
  BY <1>1, <1>2, <1>3 DEF OpenEnd
<1>8. Up(c)' = Up(c)
  BY <1>1, Zenon DEF Up
<1>9. InStep(c)' => /\ InStep(c) /\ AllContents(to_client'[c])
                    /\ apc[c] # "ended" => Up(c) = <<>>
                    /\ apc[c] \in (CASE request[c].kind = "get" -> AfterGet
                                     [] request[c].kind = "put" -> AfterPut
                                     [] OTHER -> AfterOther)
                    /\ AllInStep /\ request[c].kind = "get" =>
                          Downloads(c, NewReceiver, to_client'[c])
  BY <1>2, ResponseTaken
<1>10. ASSUME InStep(c)' PROVE GetRuns(c)' <=> request[c].kind = "get"
  <2>1. OneTask(c) /\ ~GetRuns(c)
    BY <1>1, <1>2, <1>9, <1>10, NoGetRuns DEF ClientInv, StepInv
  <2>. QED
    BY <1>6, <2>1 DEF TaskBegins, GetRuns, LastTask
<1>11. ASSUME InStep(c)' PROVE Used(c)'
  <2>1. Used(c)
    BY <1>2, <1>9, <1>11 DEF ClientInv, StepInv, Used
  <2>2. \A i \in 1..Len(tasks'[c]) : tasks'[c][i].status = "RUNNING" => i = Len(tasks'[c])
    BY <1>1, <1>6, <2>1 DEF Used, OneTask
  <2>3. AllContents(<<>>)
    BY DEF AllContents
  <2>4. /\ apc'[c] # "ended" => AllContents(Up(c)') /\ apc'[c] \notin Unanswered
        /\ apc'[c] # "ended" /\ apc'[c] # "read" => parser'[c] = <<>>
    BY <1>1, <1>8, <1>9, <1>11, <2>1, <2>3 DEF Used, Asked
  <2>5. GetAnswered(c)'
    BY <1>1, <1>9, <1>10, <1>11 DEF GetAnswered
  <2>6. ASSUME apc'[c] \in ReceivingLabels PROVE Uploads(c)'
    <3>1. /\ request[c].kind = "put" /\ Uploads(c) /\ Up(c) = <<>> /\ Up(c)' = <<>>
          /\ receiver'[c] = receiver[c]
      BY <1>1, <1>8, <1>9, <1>11, <2>1, <2>6 DEF Used
    <3>. QED
      BY <1>1, <1>3, <1>6, <3>1, UploadBegins DEF TaskBegins
  <2>. QED
    BY <1>3, <1>9, <1>11, <2>2, <2>4, <2>5, <2>6, OnlyContentsUsed
<1>12. ASSUME AllInStep, AllInStep' PROVE WholeInv(c)'
  <2>1. InStep(c)'
    BY <1>12 DEF AllInStep
  <2>2. ASSUME GetRuns(c)'
        PROVE  Downloads(c, LastTask(c).socket, LastTask(c).socket.parser \o to_client[c])'
    <3>1. request[c].kind = "get" /\ LastTask(c)' = DownloadTask
      BY <1>6, <1>10, <2>1, <2>2 DEF TaskBegins
    <3>2. \A q : Downloads(c, NewReceiver, q) => Downloads(c, NewReceiver, q)'
      BY <1>1 DEF Downloads
    <3>3. Downloads(c, NewReceiver, to_client'[c])
      BY <1>9, <1>12, <2>1, <3>1
    <3>4. LastTask(c)'.socket = NewReceiver /\ LastTask(c)'.socket.parser \o to_client'[c] = to_client'[c]
      <4>1. DownloadTask.socket = NewReceiver /\ NewReceiver.parser = <<>>
        BY NewTasks, EmptyFacts
      <4>2. to_client'[c] \in Seq(ToClient)
        BY DEF WTypes
      <4>3. <<>> \o to_client'[c] = to_client'[c]
        BY <4>2, ConcatEmptySeq
      <4>. QED
        BY <3>1, <4>1, <4>3, Zenon
    <3>5. \A q : q = to_client'[c] => Downloads(c, NewReceiver, q)'
      BY <3>2, <3>3
    <3>. QED
      BY <3>4, <3>5
  <2>. QED
    BY <1>3, <2>2 DEF WholeInv
<1>. QED
  BY <1>5, <1>6, <1>7, <1>9, <1>11, <1>12, <1>2, ClientOnlyInv

(* A task runs and becomes t.  It stays what it is. *)
LEMMA BecomesFact ==
    ASSUME WTypes, NEW c \in Clients, NEW i \in 1..Len(tasks[c]), NEW t, TaskBecomes(c, i, t),
           t.kind = tasks[c][i].kind, t.cancelled <=> tasks[c][i].cancelled,
           CancelsGets(c), get_task'[c] = get_task[c]
    PROVE  CancelsGets(c)'
<1>1. /\ Len(tasks'[c]) = Len(tasks[c])
      /\ \A j \in 1..Len(tasks[c]) :
            /\ tasks'[c][j].kind = tasks[c][j].kind
            /\ tasks'[c][j].cancelled <=> tasks[c][j].cancelled
  BY DEF TaskBecomes
<1>. QED
  BY <1>1 DEF CancelsGets

(* In step it is the last one. *)
LEMMA LastBecomes ==
    ASSUME WTypes, NEW c \in Clients, NEW i \in 1..Len(tasks[c]), NEW t, TaskBecomes(c, i, t),
           OneTask(c), tasks[c][i].status = "RUNNING"
    PROVE  /\ shell[c] # "response" /\ tasks[c] # <<>> /\ tasks'[c] # <<>>
           /\ LastTask(c) = tasks[c][i] /\ LastTask(c)' = t
           /\ \A j \in 1..Len(tasks'[c]) : tasks'[c][j].status = "RUNNING" => j = Len(tasks'[c])
<1>1. i = Len(tasks[c]) /\ shell[c] # "response" /\ i # 0
  BY DEF OneTask
<1>2. Len(tasks'[c]) = Len(tasks[c]) /\ tasks'[c][i] = t
  BY DEF TaskBecomes
<1>3. tasks[c] # <<>> /\ tasks'[c] # <<>>
  BY <1>1, <1>2
<1>4. LastTask(c) = tasks[c][i] /\ LastTask(c)' = t
  BY <1>1, <1>2 DEF LastTask
<1>5. ASSUME NEW j \in 1..Len(tasks'[c]), tasks'[c][j].status = "RUNNING" PROVE j = Len(tasks'[c])
  BY <1>1, <1>2, <1>5 DEF TaskBecomes, OneTask
<1>. QED
  BY <1>1, <1>3, <1>4, <1>5

(* An upload ends, or goes on. *)
UploadStops(c, s, t) ==
    /\ t.status # "RUNNING"
    /\ apc[c] \in ReceivingLabels /\ open[c] => SentCompleteFile(s)
    /\ UNCHANGED <<to_agent, to_client, open, shell>>

UploadSends(c, s, t) ==
    /\ t.status = "RUNNING" /\ t.socket = AfterChunk(s)
    /\ open[c] /\ ~SentCompleteFile(s) /\ SendToAgent(c, NextChunk(s), shell[c])

(* What RunAtomic() of an upload does. *)
LEMMA UploadReturns ==
    ASSUME WTypes, NEW c \in Clients, NEW i \in 1..Len(tasks[c]), UploadRun(c, i), CancelsGets(c)
    PROVE  \E t : /\ TaskBecomes(c, i, t) /\ t.kind = "put" /\ ~t.cancelled /\ ~t.cleaning
                  /\ \/ UploadStops(c, tasks[c][i].socket, t)
                     \/ UploadSends(c, tasks[c][i].socket, t)
<1> DEFINE s == tasks[c][i].socket
<1>1. tasks[c][i].kind = "put" /\ i \in Running(c)
  BY DEF UploadRun
<1>2. /\ s \in SenderType /\ AfterChunk(s) \in SenderType
      /\ tasks[c][i].cancelled = FALSE
  <2>1. tasks[c][i] \in TaskType /\ s \in SenderType
    BY <1>1, RunningFact
  <2>. QED
    BY <1>1, <2>1, SenderFact DEF TaskType, CancelsGets
<1>3. ASSUME NEW status \in {"RUNNING", "DONE", "FAILED"}, NEW socket \in SenderType,
             Returns(c, i, status, socket, FALSE)
      PROVE  \E t : /\ TaskBecomes(c, i, t) /\ t.kind = "put" /\ ~t.cancelled /\ ~t.cleaning
                    /\ t.status = status
                    /\ t.socket = IF status = "RUNNING" THEN socket ELSE NewReceiver
  <2>1. PICK part \in BOOLEAN : ~part
    OBVIOUS
  <2>2. part = FALSE
    BY <2>1
  <2>3. Returns(c, i, status, socket, part)
    BY <1>3, <2>2
  <2> DEFINE t == Returned(tasks[c][i], status, socket, part)
  <2>4. /\ TaskBecomes(c, i, t) /\ t.kind = tasks[c][i].kind
        /\ t.cancelled = tasks[c][i].cancelled
        /\ t.status = IF t.cancelled THEN "CANCELLED" ELSE status
        /\ t.socket = IF t.status = "RUNNING" THEN socket ELSE NewReceiver
        /\ t.cleaning => part /\ t.status # "RUNNING"
    BY <1>1, <1>3, <2>3, ReturnsFact
  <2> HIDE DEF t
  <2>. QED
    BY <1>1, <1>2, <2>1, <2>4
<1>4. CASE \E status \in {"DONE", "FAILED"} :
              /\ Returns(c, i, status, s, FALSE) /\ UNCHANGED <<to_agent, to_client, open, shell>>
              /\ apc[c] \in ReceivingLabels /\ open[c] => SentCompleteFile(s)
  <2>1. PICK status \in {"DONE", "FAILED"} :
              /\ Returns(c, i, status, s, FALSE) /\ UNCHANGED <<to_agent, to_client, open, shell>>
              /\ apc[c] \in ReceivingLabels /\ open[c] => SentCompleteFile(s)
    BY <1>4
  <2>2. status \in {"RUNNING", "DONE", "FAILED"} /\ s \in SenderType
    BY <1>2, <2>1
  <2>3. PICK t : /\ TaskBecomes(c, i, t) /\ t.kind = "put" /\ ~t.cancelled /\ ~t.cleaning
                 /\ t.status = status
                 /\ t.socket = IF status = "RUNNING" THEN s ELSE NewReceiver
    <3> HIDE DEF s
    <3>. QED
      BY <1>3, <2>1, <2>2, Zenon
  <2>. QED
    BY <2>1, <2>3 DEF UploadStops
<1>5. CASE /\ open[c] /\ ~SentCompleteFile(s) /\ SendToAgent(c, NextChunk(s), shell[c])
           /\ Returns(c, i, "RUNNING", AfterChunk(s), FALSE)
  <2>1. PICK status \in {"RUNNING", "DONE", "FAILED"} : status = "RUNNING"
    OBVIOUS
  <2>2. PICK t : /\ TaskBecomes(c, i, t) /\ t.kind = "put" /\ ~t.cancelled /\ ~t.cleaning
                 /\ t.status = status
                 /\ t.socket = IF status = "RUNNING" THEN AfterChunk(s) ELSE NewReceiver
    <3>1. AfterChunk(s) \in SenderType /\ Returns(c, i, status, AfterChunk(s), FALSE)
      BY <1>2, <1>5, <2>1
    <3> HIDE DEF s
    <3>. QED
      BY <1>3, <3>1, Zenon
  <2>. QED
    BY <1>5, <2>1, <2>2 DEF UploadSends
<1>6. \/ \E status \in {"DONE", "FAILED"} :
              /\ Returns(c, i, status, s, FALSE) /\ UNCHANGED <<to_agent, to_client, open, shell>>
              /\ apc[c] \in ReceivingLabels /\ open[c] => SentCompleteFile(s)
      \/ /\ open[c] /\ ~SentCompleteFile(s) /\ SendToAgent(c, NextChunk(s), shell[c])
         /\ Returns(c, i, "RUNNING", AfterChunk(s), FALSE)
  <2> HIDE DEF s
  <2>1. \/ /\ ~open[c] /\ Returns(c, i, "FAILED", s, FALSE)
           /\ UNCHANGED <<to_agent, to_client, open, shell>>
        \/ /\ SentCompleteFile(s) /\ Returns(c, i, "DONE", s, FALSE)
           /\ UNCHANGED <<to_agent, to_client, open, shell>>
        \/ /\ open[c] /\ ~SentCompleteFile(s) /\ SendToAgent(c, NextChunk(s), shell[c])
           /\ Returns(c, i, "RUNNING", AfterChunk(s), FALSE)
        \/ /\ apc[c] = "ended" /\ Returns(c, i, "FAILED", s, FALSE)
           /\ UNCHANGED <<to_agent, to_client, open, shell>>
    BY DEF UploadRun, s
  <2>. QED
    BY <2>1
<1>. QED
  BY <1>4, <1>5, <1>6

(* A step of an upload: it is left to show what is on its way to the agent. *)
LEMMA UploadUsed ==
    ASSUME NEW c \in Clients, NEW t, t.kind = "put", LastTask(c)' = t, shell'[c] # "response",
           UNCHANGED <<apc, parser>>, AllContents(to_client'[c]),
           \A j \in 1..Len(tasks'[c]) : tasks'[c][j].status = "RUNNING" => j = Len(tasks'[c]),
           apc[c] # "ended" => AllContents(Up(c)') /\ apc[c] \notin Unanswered,
           apc[c] # "ended" /\ apc[c] # "read" => parser[c] = <<>>,
           apc[c] \in ReceivingLabels => Uploads(c)'
    PROVE  Used(c)' /\ WholeInv(c)'
<1>1. ~GetRuns(c)'
  BY DEF GetRuns
<1>2. GetAnswered(c)'
  BY <1>1 DEF GetAnswered
<1>3. Used(c)'
  BY <1>2, OnlyContentsUsed
<1>4. WholeInv(c)'
  BY <1>1 DEF WholeInv, AllContents
<1>. QED
  BY <1>3, <1>4

(* Everything has been sent, or will never be. *)
LEMMA UploadsStopped ==
    ASSUME WTypes, NEW c \in Clients, Uploads(c), shell[c] # "response", NEW t, t.kind = "put",
           t.status # "RUNNING", LastTask(c).status = "RUNNING", LastTask(c)' = t,
           tasks'[c] # <<>>, open[c] => SentCompleteFile(LastTask(c).socket),
           UNCHANGED <<open, shell, receiver>>, Up(c)' = Up(c)
    PROVE  Uploads(c)'
<1> DEFINE f == Serialized(Source[c])
           k == Len(receiver[c].file_contents)
           n == Len(Up(c))
<1>1. /\ ~receiver[c].complete_file /\ k < Len(f) /\ IsStartOf(receiver[c].file_contents, f)
      /\ \A i \in 1..n :
            IF Up(c)[i].type = "contents" THEN IsChunk(f, Behind(k, i - 1), Up(c)[i])
            ELSE Behind(k, i - 1) >= Len(f)
      /\ LastTask(c).socket.file_contents = f /\ SentUpTo(LastTask(c).socket, Behind(k, n))
  BY DEF Uploads
<1>2. Behind(k, n) \in Nat /\ Len(f) \in Nat
  <2>1. n \in Nat /\ k \in Nat
    <3>1. receiver[c].file_contents \in FileData
      BY DEF WTypes, ReceiverType
    <3>. QED
      BY <3>1, UpType DEF FileData
  <2>2. Len(f) \in Nat
    BY SerializedFact DEF FileData
  <2>. QED
    BY <2>1, <2>2, BehindFact
<1> HIDE DEF f, k, n
<1>3. open[c] => Behind(k, n) >= Len(f)
  BY <1>1, <1>2 DEF SentUpTo, SentCompleteFile
<1>. QED
  BY <1>1, <1>3 DEF Uploads, f, k, n

(* The next chunk has been sent. *)
LEMMA UploadsSent ==
    ASSUME WTypes, NEW c \in Clients, Uploads(c), AllContents(Up(c)),
           shell[c] # "response", shell'[c] = shell[c], NEW t, t.kind = "put",
           t.status = "RUNNING", LastTask(c).status = "RUNNING", LastTask(c)' = t,
           LastTask(c).socket \in SenderType, tasks'[c] # <<>>,
           ~SentCompleteFile(LastTask(c).socket), t.socket = AfterChunk(LastTask(c).socket),
           UNCHANGED <<apc, receiver, parser>>,
           to_agent'[c] = Append(to_agent[c], NextChunk(LastTask(c).socket))
    PROVE  Uploads(c)' /\ AllContents(Up(c)')
<1> DEFINE f == Serialized(Source[c])
           k == Len(receiver[c].file_contents)
           n == Len(Up(c))
           s == LastTask(c).socket
           m == NextChunk(s)
<1>1. /\ ~receiver[c].complete_file /\ k < Len(f) /\ IsStartOf(receiver[c].file_contents, f)
      /\ \A i \in 1..n : IsChunk(f, Behind(k, i - 1), Up(c)[i])
      /\ s.file_contents = f /\ SentUpTo(s, Behind(k, n))
  BY DEF Uploads, AllContents
<1>2. n \in Nat /\ k \in Nat
  BY UpType DEF WTypes, ReceiverType, FileData
<1>3. m \in ToAgent /\ m.type = "contents"
  BY SenderFact DEF ToAgent, ContentsMessage
<1>4. /\ Len(Up(c)') = n + 1
      /\ Up(c)'[n + 1] = m /\ \A i \in 1..n : Up(c)'[i] = Up(c)[i]
  BY <1>3, UpPush
<1> HIDE DEF f, k, n, s, m
<1>5. /\ IsChunk(f, Behind(k, n), m) /\ AfterChunk(s).file_contents = f
      /\ SentUpTo(AfterChunk(s), Behind(k, n + 1))
  BY <1>1, <1>2, NextChunkFact DEF s, m
<1>6. ASSUME NEW i \in 1..Len(Up(c)')
      PROVE  Up(c)'[i].type = "contents" /\ IsChunk(f, Behind(k, i - 1), Up(c)'[i])
  <2>1. CASE i = n + 1
    <3>1. i - 1 = n
      BY <1>2, <2>1
    <3>. QED
      BY <1>3, <1>4, <1>5, <2>1, <3>1
  <2>2. CASE i \in 1..n
    BY <1>1, <1>4, <2>2 DEF AllContents, n
  <2>. QED
    BY <1>2, <1>4, <2>1, <2>2
<1>7. SentUpTo(t.socket, Behind(k, Len(Up(c)'))) /\ t.socket.file_contents = f
  BY <1>4, <1>5 DEF s
<1>. QED
  BY <1>1, <1>6, <1>7 DEF Uploads, AllContents, f, k

(* UploadTask::RunAtomic(). *)
LEMMA UploadInv ==
    ASSUME IInv, WInv, WTypes', NEW c \in Clients, NEW i \in 1..Len(tasks[c]), UploadRun(c, i)
    PROVE  WInv'
<1> DEFINE s == tasks[c][i].socket
<1>1. /\ UNCHANGED <<files, apc, command, sender, receiver, contents, parser, out_of_step, request,
                     get_task>>
      /\ tasks[c][i].kind = "put" /\ i \in Running(c)
  BY DEF UploadRun
<1>2. WTypes /\ ClientInv(c) /\ DOMAIN shell = Clients /\ OpenEnd(c) /\ CancelsGets(c)
  BY DEF WInv, ClientInv, IInv, Types
<1>3. InStep(c)' <=> InStep(c)
  BY <1>1 DEF InStep
<1>4. /\ s \in SenderType /\ tasks[c][i].status = "RUNNING" /\ ~tasks[c][i].cancelled
      /\ NextChunk(s) \in ToAgent
  BY <1>1, <1>2, RunningFact, SenderFact DEF CancelsGets, ToAgent
<1>5. PICK t : /\ TaskBecomes(c, i, t) /\ t.kind = "put" /\ ~t.cancelled
               /\ UploadStops(c, s, t) \/ UploadSends(c, s, t)
  BY <1>2, UploadReturns
<1> HIDE DEF s
<1>6. CancelsGets(c)'
  BY <1>1, <1>2, <1>4, <1>5, BecomesFact
<1>7. ASSUME InStep(c)
      PROVE  /\ shell[c] # "response" /\ tasks[c] # <<>> /\ tasks'[c] # <<>>
             /\ LastTask(c) = tasks[c][i] /\ LastTask(c)' = t
             /\ \A j \in 1..Len(tasks'[c]) : tasks'[c][j].status = "RUNNING" => j = Len(tasks'[c])
             /\ Used(c) /\ AllContents(to_client[c])
             /\ apc[c] # "ended" => AllContents(Up(c)) /\ apc[c] \notin Unanswered
             /\ apc[c] # "ended" /\ apc[c] # "read" => parser[c] = <<>>
  <2>1. OneTask(c)
    BY <1>2, <1>7 DEF ClientInv, StepInv
  <2>2. /\ shell[c] # "response" /\ tasks[c] # <<>> /\ tasks'[c] # <<>>
        /\ LastTask(c) = tasks[c][i] /\ LastTask(c)' = t
        /\ \A j \in 1..Len(tasks'[c]) : tasks'[c][j].status = "RUNNING" => j = Len(tasks'[c])
    BY <1>2, <1>4, <1>5, <2>1, LastBecomes
  <2>. QED
    BY <1>2, <1>7, <2>2, OnlyContents
<1>8. CASE UploadStops(c, s, t)
  <2>1. UNCHANGED <<to_agent, to_client, open, shell>>
    BY <1>8 DEF UploadStops
  <2>2. ClientOnly(c)
    BY <1>1, <1>5, <2>1 DEF ClientOnly, TaskBecomes
  <2>3. OpenEnd(c)'
    BY <1>2, <2>1 DEF OpenEnd
  <2>4. Up(c)' = Up(c)
    BY <1>1, <2>1, Zenon DEF Up
  <2>5. ASSUME InStep(c) PROVE Used(c)' /\ WholeInv(c)'
    <3>1. ASSUME apc[c] \in ReceivingLabels PROVE Uploads(c)'
      <4>1. Uploads(c)
        BY <1>7, <2>5, <3>1 DEF Used
      <4>2. t.status # "RUNNING" /\ (open[c] => SentCompleteFile(s))
        BY <1>8, <3>1 DEF UploadStops
      <4>. QED
        BY <1>1, <1>2, <1>4, <1>5, <1>7, <2>1, <2>4, <2>5, <4>1, <4>2, UploadsStopped DEF s
    <3>. QED
      BY <1>1, <1>5, <1>7, <2>1, <2>4, <2>5, <3>1, UploadUsed
  <2>. QED
    BY <1>3, <1>6, <2>2, <2>3, <2>5, ClientOnlyInv DEF AllInStep
<1>9. CASE UploadSends(c, s, t)
  <2>1. /\ SendToAgent(c, NextChunk(s), shell[c]) /\ t.status = "RUNNING" /\ t.socket = AfterChunk(s)
        /\ open[c] /\ ~SentCompleteFile(s)
    BY <1>9 DEF UploadSends
  <2>2. ClientOnly(c)
    BY <1>1, <1>2, <1>5, <2>1, SendToAgentOthers DEF ClientOnly, TaskBecomes
  <2>3. CASE apc[c] = "ended" /\ Leave(c, "dead") /\ UNCHANGED to_agent
    <3>1. shell'[c] = "dead" /\ open'[c] = FALSE /\ to_client'[c] = <<>>
      BY <1>2, <2>3 DEF Leave, WTypes
    <3>2. OpenEnd(c)' /\ AllContents(to_client'[c])
      BY <3>1 DEF OpenEnd, AllContents
    <3>3. InStep(c) => Used(c)' /\ WholeInv(c)'
      BY <1>1, <1>5, <1>7, <2>3, <3>1, <3>2, UploadUsed
    <3>. QED
      BY <1>3, <1>6, <2>2, <3>2, <3>3, ClientOnlyInv DEF AllInStep
  <2>4. CASE /\ to_agent' = [to_agent EXCEPT ![c] = IF apc[c] = "ended" THEN @
                                                    ELSE Append(@, NextChunk(s))]
             /\ shell' = [shell EXCEPT ![c] = shell[c]] /\ UNCHANGED <<open, to_client>>
    <3>1. shell'[c] = shell[c]
      BY <1>2, <2>4
    <3>2. OpenEnd(c)'
      BY <1>2, <2>4, <3>1 DEF OpenEnd
    <3>3. apc[c] # "ended" => to_agent'[c] = Append(to_agent[c], NextChunk(s))
      BY <1>2, <2>4 DEF WTypes
    <3>4. ASSUME InStep(c) PROVE Used(c)' /\ WholeInv(c)'
      <4>1. ASSUME apc[c] \in ReceivingLabels PROVE Uploads(c)'
        <5>1. Uploads(c) /\ AllContents(Up(c))
          BY <1>7, <3>4, <4>1 DEF Used
        <5>. QED
          BY <1>1, <1>2, <1>4, <1>5, <1>7, <2>1, <3>1, <3>3, <3>4, <4>1, <5>1, UploadsSent DEF s
      <4>2. ASSUME apc[c] # "ended" PROVE AllContents(Up(c)')
        <5>1. NextChunk(s).type = "contents"
          BY <1>4, SenderFact DEF ContentsMessage
        <5>2. /\ Len(Up(c)') = Len(Up(c)) + 1 /\ Len(Up(c)) \in Nat
              /\ Up(c)'[Len(Up(c)) + 1] = NextChunk(s)
              /\ \A j \in 1..Len(Up(c)) : Up(c)'[j] = Up(c)[j]
          BY <1>1, <1>2, <1>4, <3>3, <4>2, UpPush
        <5>3. AllContents(Up(c))
          BY <1>7, <3>4, <4>2
        <5>4. \A j \in 1..Len(Up(c)') : j \in 1..Len(Up(c)) \/ j = Len(Up(c)) + 1
          BY <5>2
        <5>. QED
          BY <5>1, <5>2, <5>3, <5>4 DEF AllContents
      <4>. QED
        BY <1>1, <1>5, <1>7, <2>4, <3>1, <3>4, <4>1, <4>2, UploadUsed
    <3>. QED
      BY <1>3, <1>6, <2>2, <3>2, <3>4, ClientOnlyInv DEF AllInStep
  <2>. QED
    BY <2>1, <2>3, <2>4 DEF SendToAgent
<1>. QED
  BY <1>5, <1>8, <1>9

(* ReceiveNextChunk() of a download: it goes on with the messages v. *)
LEMMA DownloadsPop ==
    ASSUME NEW c \in Clients, NEW r \in ReceiverType(ToClient), ~r.complete_file,
           NEW u, Downloads(c, r, u), Len(u) \in Nat, NEW m, NEW v, Len(v) \in Nat,
           Popped(u, v, m), NEW behind
    PROVE  Downloads(c, WithChunk(r, m, behind), v)
<1> DEFINE k == Len(r.file_contents)
           r2 == WithChunk(r, m, behind)
           e == Len(r2.file_contents)
<1>1. PICK f \in WholeFiles \cap FileData :
         /\ IsStartOf(r.file_contents, f)
         /\ Chunks(f, k, u)
         /\ apc[c] = "open" => u = <<>>
         /\ apc[c] \in SendingLabels /\ open[c] =>
               sender[c].file_contents = f /\ SentUpTo(sender[c], Behind(k, Len(u)))
  BY Zenon DEF Downloads
<1>2. /\ Len(u) \in Nat \ {0} /\ Len(u) = Len(v) + 1 /\ m = u[1]
      /\ \A i \in 1..Len(v) : v[i] = u[i + 1]
  BY DEF Popped
<1>3. r.file_contents \in FileData /\ r.complete_file \in BOOLEAN /\ k \in Nat
  BY DEF ReceiverType, FileData
<1>4. IsChunk(f, k, m)
  <2>1. 1 \in 1..Len(u)
    BY <1>2
  <2>2. IsChunk(f, Behind(k, 1 - 1), u[1])
    BY <1>1, <2>1 DEF Chunks
  <2>3. Behind(k, 0) = k
    BY <1>3, BehindFact
  <2>. QED
    BY <1>2, <2>2, <2>3
<1>5. Grown(f, r, m, WithChunk(r, m, behind))
  BY <1>1, <1>3, <1>4, ReceivedFact
<1> HIDE DEF r2
<1>6. /\ k < Len(f) /\ e \in Nat /\ e = k + Len(Chunk(f, k).data)
      /\ IsStartOf(r2.file_contents, f) /\ (r2.complete_file => e = Len(f))
  BY <1>5, Zenon DEF Grown, r2
<1> HIDE DEF k, e
<1>7. ASSUME NEW n \in Nat
      PROVE  /\ \A x : IsChunk(f, Behind(k, n + 1), x) => IsChunk(f, Behind(e, n), x)
             /\ \A s : Len(s.file_contents) = Len(f) /\ SentUpTo(s, Behind(k, n + 1))
                          => SentUpTo(s, Behind(e, n))
  <2>1. f \in FileData /\ k \in Nat /\ k < Len(f) /\ e \in Nat /\ e = k + Len(Chunk(f, k).data)
    BY <1>1, <1>3, <1>6, Zenon
  <2>2. SameBehind(f, k, n, e)
    BY <2>1, BehindChunk
  <2>. QED
    BY <2>2, Zenon DEF SameBehind
<1>8. Chunks(f, e, v)
  <2> SUFFICES ASSUME NEW i \in 1..Len(v) PROVE IsChunk(f, Behind(e, i - 1), v[i])
    BY DEF Chunks
  <2>1. /\ i + 1 \in 1..Len(u) /\ (i + 1) - 1 = (i - 1) + 1 /\ i - 1 \in Nat /\ v[i] = u[i + 1]
    BY <1>2
  <2>2. IsChunk(f, Behind(k, (i + 1) - 1), u[i + 1])
    BY <1>1, <2>1 DEF Chunks
  <2>3. IsChunk(f, Behind(k, (i - 1) + 1), v[i])
    BY <2>1, <2>2, Zenon
  <2>. QED
    BY <1>7, <2>1, <2>3
<1>9. apc[c] # "open"
  <2>1. u # <<>>
    BY <1>2
  <2>. QED
    BY <1>1, <2>1
<1>10. apc[c] \in SendingLabels /\ open[c] =>
          sender[c].file_contents = f /\ SentUpTo(sender[c], Behind(e, Len(v)))
  BY <1>1, <1>2, <1>7
<1>. QED
  BY <1>1, <1>6, <1>8, <1>9, <1>10, Zenon DEF Downloads, e, r2

(* A download ends, or goes on with what is behind the message it has taken. *)
DownloadStops(t) == t.status # "RUNNING" /\ UNCHANGED to_client

DownloadTakes(c, r, t) ==
    /\ ~r.complete_file
    /\ \E m \in ToClient, behind \in Seq(ToClient) :
          /\ t.status = "RUNNING" => t.socket = WithChunk(r, m, behind)
          /\ Popped(r.parser \o to_client[c], behind \o to_client'[c], m)
    /\ AllContents(to_client[c]) => AllContents(to_client'[c])
    /\ to_client[c] = <<>> => to_client'[c] = <<>>
    /\ \A d \in Clients \ {c} : to_client'[d] = to_client[d]

(* What RunAtomic() of a download does. *)
LEMMA DownloadReturns ==
    ASSUME WTypes, NEW c \in Clients, NEW i \in 1..Len(tasks[c]), DownloadRun(c, i)
    PROVE  \E t : /\ TaskBecomes(c, i, t) /\ t.kind = "get"
                  /\ t.cancelled <=> tasks[c][i].cancelled
                  /\ t.cleaning => to_client'[c] # <<>> /\ t.status # "RUNNING"
                  /\ DownloadStops(t) \/ DownloadTakes(c, tasks[c][i].socket, t)
<1> DEFINE r == tasks[c][i].socket
           q == to_client[c]
<1>1. tasks[c][i].kind = "get" /\ i \in Running(c)
  BY DEF DownloadRun
<1>2. /\ r \in ReceiverType(ToClient) /\ r.parser \in Seq(ToClient) /\ q \in Seq(ToClient)
      /\ tasks[c][i].cancelled \in BOOLEAN
  <2>1. tasks[c][i] \in TaskType /\ r \in ReceiverType(ToClient)
    BY <1>1, RunningFact
  <2>. QED
    BY <2>1 DEF TaskType, ReceiverType, WTypes
<1>3. ASSUME NEW status \in {"RUNNING", "DONE", "FAILED"}, NEW socket \in ReceiverType(ToClient),
             NEW part \in BOOLEAN, Returns(c, i, status, socket, part)
      PROVE  \E t : /\ TaskBecomes(c, i, t) /\ t.kind = "get"
                    /\ t.cancelled <=> tasks[c][i].cancelled
                    /\ t.status = IF t.cancelled THEN "CANCELLED" ELSE status
                    /\ t.status = "RUNNING" => t.socket = socket
                    /\ t.cleaning => part /\ t.status # "RUNNING"
  <2> DEFINE t == Returned(tasks[c][i], status, socket, part)
  <2>1. /\ TaskBecomes(c, i, t) /\ t.kind = tasks[c][i].kind
        /\ t.cancelled = tasks[c][i].cancelled
        /\ t.status = IF t.cancelled THEN "CANCELLED" ELSE status
        /\ t.socket = IF t.status = "RUNNING" THEN socket ELSE NewReceiver
        /\ t.cleaning => part /\ t.status # "RUNNING"
    BY <1>1, <1>3, ReturnsFact
  <2> HIDE DEF t
  <2>. QED
    BY <1>1, <2>1
<1>4. ASSUME NEW m \in ToClient, NEW behind \in Seq(ToClient), TakeDownload(c, i, m, behind),
             ~r.complete_file, Popped(r.parser \o q, behind \o to_client'[c], m),
             AllContents(q) => AllContents(to_client'[c]), q = <<>> => to_client'[c] = <<>>,
             \A d \in Clients \ {c} : to_client'[d] = to_client[d]
      PROVE  \E t : /\ TaskBecomes(c, i, t) /\ t.kind = "get"
                    /\ t.cancelled <=> tasks[c][i].cancelled
                    /\ t.cleaning => to_client'[c] # <<>> /\ t.status # "RUNNING"
                    /\ DownloadTakes(c, r, t)
  <2>1. WithChunk(r, m, behind) \in ReceiverType(ToClient)
    BY <1>2, WithChunkFact
  <2>2. PICK status \in {"RUNNING", "DONE"}, part \in BOOLEAN :
           Returns(c, i, status, WithChunk(r, m, behind), part) /\ (part => to_client'[c] # <<>>)
    BY <1>4 DEF TakeDownload, MayHoldPart
  <2>3. PICK t : /\ TaskBecomes(c, i, t) /\ t.kind = "get"
                 /\ t.cancelled <=> tasks[c][i].cancelled
                 /\ t.status = "RUNNING" => t.socket = WithChunk(r, m, behind)
                 /\ t.cleaning => to_client'[c] # <<>> /\ t.status # "RUNNING"
    BY <1>3, <2>1, <2>2
  <2>4. DownloadTakes(c, r, t)
    BY <1>4, <2>3, Zenon DEF DownloadTakes
  <2>. QED
    BY <2>3, <2>4
<1>5. ASSUME NEW status \in {"RUNNING", "DONE", "FAILED"}, NEW part \in BOOLEAN,
             Returns(c, i, status, r, part), part => to_client'[c] # <<>>,
             status = "RUNNING" => tasks[c][i].cancelled, UNCHANGED to_client
      PROVE  \E t : /\ TaskBecomes(c, i, t) /\ t.kind = "get"
                    /\ t.cancelled <=> tasks[c][i].cancelled
                    /\ t.cleaning => to_client'[c] # <<>> /\ t.status # "RUNNING"
                    /\ DownloadStops(t)
  <2>1. PICK t : /\ TaskBecomes(c, i, t) /\ t.kind = "get"
                 /\ t.cancelled <=> tasks[c][i].cancelled
                 /\ t.status = IF t.cancelled THEN "CANCELLED" ELSE status
                 /\ t.cleaning => to_client'[c] # <<>> /\ t.status # "RUNNING"
    BY <1>2, <1>3, <1>5
  <2>. QED
    BY <1>5, <2>1 DEF DownloadStops
<1>6. CASE /\ ~HasCompleteFile(r) /\ r.parser # <<>>
           /\ TakeDownload(c, i, Head(r.parser), Tail(r.parser)) /\ UNCHANGED to_client
  <2>1. Head(r.parser) \in ToClient /\ Tail(r.parser) \in Seq(ToClient)
    BY <1>2, <1>6
  <2>2. Popped(r.parser \o q, Tail(r.parser) \o to_client'[c], Head(r.parser))
    <3>1. ASSUME NEW p \in Seq(ToClient), p # <<>>
          PROVE  Popped(p \o q, Tail(p) \o q, Head(p))
      BY <1>2, <3>1, PopHeld
    <3>. QED
      BY <1>2, <1>6, <3>1
  <2>. QED
    BY <1>4, <1>6, <2>1, <2>2 DEF HasCompleteFile
<1>7. CASE /\ ~HasCompleteFile(r) /\ r.parser = <<>>
           /\ \E n \in 1..Len(q) :
                 /\ TakeDownload(c, i, Head(q), SubSeq(q, 2, n))
                 /\ to_client' = [to_client EXCEPT ![c] = SubSeq(@, n + 1, Len(@))]
  <2>1. PICK n \in 1..Len(q) : /\ TakeDownload(c, i, Head(q), SubSeq(q, 2, n))
                               /\ to_client' = [to_client EXCEPT ![c] = SubSeq(@, n + 1, Len(@))]
    BY <1>7
  <2>2. /\ to_client'[c] = SubSeq(q, n + 1, Len(q))
        /\ \A d \in Clients \ {c} : to_client'[d] = to_client[d]
    BY <2>1 DEF WTypes
  <2>3. Head(q) \in ToClient /\ q # <<>>
    BY <1>2, <2>1
  <2>4. SubSeq(q, 2, n) \in Seq(ToClient)
    BY <1>2, PartFact
  <2>5. /\ Popped(q, SubSeq(q, 2, n) \o SubSeq(q, n + 1, Len(q)), Head(q))
        /\ <<>> \o q = q
    BY <1>2, PopRead
  <2>6. Popped(r.parser \o q, SubSeq(q, 2, n) \o to_client'[c], Head(q))
    BY <1>7, <2>2, <2>5, Zenon
  <2>7. AllContents(q) => AllContents(to_client'[c])
    <3> DEFINE v == SubSeq(q, n + 1, Len(q))
    <3>1. (\A j \in 1..Len(v) : v[j] = q[n + j]) /\ Len(v) = Len(q) - n
      BY <1>2, PopRead
    <3>2. to_client'[c] = v
      BY <2>2
    <3> HIDE DEF v, q
    <3>3. \A j \in 1..Len(v) : n + j \in 1..Len(q)
      BY <1>2, <3>1
    <3>. QED
      BY <3>1, <3>2, <3>3 DEF AllContents
  <2> HIDE DEF q
  <2>. QED
    BY <1>4, <1>7, <2>1, <2>2, <2>3, <2>4, <2>6, <2>7 DEF HasCompleteFile, q
<1>8. CASE \E status \in {"RUNNING", "DONE", "FAILED"}, part \in BOOLEAN :
              /\ Returns(c, i, status, r, part) /\ UNCHANGED to_client
              /\ part => to_client'[c] # <<>>
              /\ status = "RUNNING" => tasks[c][i].cancelled
  BY <1>5, <1>8
<1>9. CASE HasCompleteFile(r) /\ Returns(c, i, "DONE", r, FALSE) /\ UNCHANGED to_client
  BY <1>5, <1>9
<1>10. \/ /\ ~HasCompleteFile(r) /\ r.parser # <<>>
          /\ TakeDownload(c, i, Head(r.parser), Tail(r.parser)) /\ UNCHANGED to_client
       \/ /\ ~HasCompleteFile(r) /\ r.parser = <<>>
          /\ \E n \in 1..Len(q) :
                /\ TakeDownload(c, i, Head(q), SubSeq(q, 2, n))
                /\ to_client' = [to_client EXCEPT ![c] = SubSeq(@, n + 1, Len(@))]
       \/ \E status \in {"RUNNING", "DONE", "FAILED"}, part \in BOOLEAN :
             /\ Returns(c, i, status, r, part) /\ UNCHANGED to_client
             /\ part => to_client'[c] # <<>>
             /\ status = "RUNNING" => tasks[c][i].cancelled
       \/ HasCompleteFile(r) /\ Returns(c, i, "DONE", r, FALSE) /\ UNCHANGED to_client
  BY DEF DownloadRun, MayHoldPart
<1>. QED
  BY <1>6, <1>7, <1>8, <1>9, <1>10

(* What is behind the message that a download has taken is the rest of it. *)
LEMMA DownloadGoesOn ==
    ASSUME WTypes, WTypes', NEW c \in Clients, NEW r \in ReceiverType(ToClient), NEW t,
           DownloadTakes(c, r, t), t.status = "RUNNING",
           Downloads(c, r, r.parser \o to_client[c])
    PROVE  Downloads(c, t.socket, t.socket.parser \o to_client'[c])
<1>1. PICK m \in ToClient, behind \in Seq(ToClient) :
         /\ t.socket = WithChunk(r, m, behind)
         /\ Popped(r.parser \o to_client[c], behind \o to_client'[c], m)
  BY Zenon DEF DownloadTakes
<1>2. ~r.complete_file
  BY DEF DownloadTakes
<1>3. /\ r.parser \in Seq(ToClient) /\ to_client[c] \in Seq(ToClient)
      /\ to_client'[c] \in Seq(ToClient)
  BY DEF ReceiverType, WTypes
<1>4. \A p, q \in Seq(ToClient) : Len(p \o q) \in Nat
  BY ConcatProperties, LenProperties
<1>5. Len(r.parser \o to_client[c]) \in Nat /\ Len(behind \o to_client'[c]) \in Nat
  BY <1>3, <1>4
<1>6. Downloads(c, WithChunk(r, m, behind), behind \o to_client'[c])
  BY <1>1, <1>2, <1>5, DownloadsPop
<1>7. WithChunk(r, m, behind).parser = behind
  BY WithChunkFact
<1>. QED
  BY <1>1, <1>6, <1>7, Zenon

(* DownloadTask::RunAtomic(). *)
LEMMA DownloadInv ==
    ASSUME IInv, WInv, WTypes', NEW c \in Clients, NEW i \in 1..Len(tasks[c]), DownloadRun(c, i)
    PROVE  WInv'
<1> DEFINE r == tasks[c][i].socket
<1>1. /\ UNCHANGED <<files, apc, command, sender, receiver, contents, parser, to_agent, open,
                     out_of_step, shell, request, get_task>>
      /\ tasks[c][i].kind = "get" /\ i \in Running(c)
  BY DEF DownloadRun
<1>2. WTypes /\ ClientInv(c) /\ OpenEnd(c) /\ CancelsGets(c)
  BY DEF WInv, ClientInv
<1>3. InStep(c)' <=> InStep(c)
  BY <1>1 DEF InStep
<1>4. r \in ReceiverType(ToClient) /\ tasks[c][i].status = "RUNNING"
  BY <1>1, <1>2, RunningFact
<1>5. PICK t : /\ TaskBecomes(c, i, t) /\ t.kind = "get"
               /\ t.cancelled <=> tasks[c][i].cancelled
               /\ DownloadStops(t) \/ DownloadTakes(c, r, t)
  BY <1>2, DownloadReturns
<1> HIDE DEF r
<1>6. /\ \A d \in Clients \ {c} : to_client'[d] = to_client[d]
      /\ to_client[c] = <<>> => to_client'[c] = <<>>
      /\ AllContents(to_client[c]) => AllContents(to_client'[c])
  BY <1>5 DEF DownloadStops, DownloadTakes
<1>7. ClientOnly(c)
  BY <1>1, <1>5, <1>6 DEF ClientOnly, TaskBecomes
<1>8. OpenEnd(c)' /\ CancelsGets(c)'
  <2>1. OpenEnd(c)'
    BY <1>1, <1>2, <1>6 DEF OpenEnd
  <2>2. CancelsGets(c)'
    BY <1>1, <1>2, <1>5, BecomesFact
  <2>. QED
    BY <2>1, <2>2
<1>9. ASSUME InStep(c)
      PROVE  /\ shell[c] # "response" /\ tasks[c] # <<>> /\ tasks'[c] # <<>>
             /\ LastTask(c) = tasks[c][i] /\ LastTask(c)' = t
             /\ \A j \in 1..Len(tasks'[c]) : tasks'[c][j].status = "RUNNING" => j = Len(tasks'[c])
             /\ AllContents(to_client'[c]) /\ GetRuns(c) /\ apc[c] \in AfterGet
             /\ apc[c] # "ended" => AllContents(Up(c)) /\ apc[c] \notin Unanswered
             /\ apc[c] # "ended" /\ apc[c] # "read" => parser[c] = <<>>
  <2>1. OneTask(c) /\ GetAnswered(c)
    BY <1>2, <1>9 DEF ClientInv, StepInv
  <2>2. /\ shell[c] # "response" /\ tasks[c] # <<>> /\ tasks'[c] # <<>>
        /\ LastTask(c) = tasks[c][i] /\ LastTask(c)' = t
        /\ \A j \in 1..Len(tasks'[c]) : tasks'[c][j].status = "RUNNING" => j = Len(tasks'[c])
    BY <1>2, <1>4, <1>5, <2>1, LastBecomes
  <2>3. GetRuns(c) /\ apc[c] \in AfterGet
    BY <1>1, <1>4, <2>1, <2>2 DEF GetRuns, GetAnswered
  <2>4. /\ AllContents(to_client[c])
        /\ apc[c] # "ended" => AllContents(Up(c)) /\ apc[c] \notin Unanswered
        /\ apc[c] # "ended" /\ apc[c] # "read" => parser[c] = <<>>
    BY <1>2, <1>9, <2>2, OnlyContents
  <2>. QED
    BY <1>6, <2>2, <2>3, <2>4
<1>10. ASSUME InStep(c) PROVE Used(c)'
  <2>1. Up(c)' = Up(c)
    BY <1>1, Zenon DEF Up
  <2>2. GetAnswered(c)' /\ apc[c] \notin ReceivingLabels
    BY <1>1, <1>9, <1>10 DEF GetAnswered
  <2>. QED
    BY <1>1, <1>9, <1>10, <2>1, <2>2, OnlyContentsUsed
<1>11. ASSUME AllInStep PROVE WholeInv(c)'
  <2>1. InStep(c)
    BY <1>11 DEF AllInStep
  <2>2. ASSUME GetRuns(c)'
        PROVE  Downloads(c, LastTask(c).socket, LastTask(c).socket.parser \o to_client[c])'
    <3>1. LastTask(c)' = t /\ t.status = "RUNNING" /\ LastTask(c).socket = r
      BY <1>9, <2>1, <2>2 DEF GetRuns, r
    <3>2. DownloadTakes(c, r, t)
      BY <1>5, <3>1 DEF DownloadStops
    <3>3. Downloads(c, r, r.parser \o to_client[c])
      <4>1. Downloads(c, LastTask(c).socket, LastTask(c).socket.parser \o to_client[c])
        BY <1>2, <1>9, <1>11, <2>1 DEF ClientInv, WholeInv
      <4>. QED
        BY <3>1, <4>1
    <3>4. Downloads(c, t.socket, t.socket.parser \o to_client'[c])
      BY <1>2, <1>4, <3>1, <3>2, <3>3, DownloadGoesOn
    <3>5. \A rr, q : Downloads(c, rr, q) => Downloads(c, rr, q)'
      BY <1>1 DEF Downloads
    <3>6. \A rr, q : rr = t.socket /\ q = t.socket.parser \o to_client'[c] => Downloads(c, rr, q)'
      BY <3>4, <3>5
    <3>. QED
      BY <3>1, <3>6
  <2>3. AllContents(to_client'[c])
    BY <1>9, <2>1
  <2>. QED
    BY <2>2, <2>3 DEF WholeInv, AllContents
<1>. QED
  BY <1>2, <1>3, <1>7, <1>8, <1>10, <1>11, ClientOnlyInv

-----------------------------------------------------------------------------
(* DownloadTask::CleanUp(). *)

(* The download whose CleanUp() still receives is the only task that uses    *)
(* the connection, and what it receives next is a chunk.                     *)
UsesAlone(c, i) ==
    /\ to_client[c] # <<>> /\ to_client[c][1].type = "contents"
    /\ \A j \in 1..Len(tasks[c]) :
          tasks[c][j].status # "RUNNING" /\ (tasks[c][j].cleaning => j = i)

Left(c) == shell[c] \in {"closed", "dead"}

CleansAlone(c) ==
    \A i \in 1..Len(tasks[c]) : tasks[c][i].cleaning => Left(c) \/ UsesAlone(c, i)

Cleans == \A c \in Clients : InStep(c) => CleansAlone(c)

(* What is left of q when the first n of its messages have been taken. *)
BehindFirst(q, v, n) ==
    /\ n \in Nat /\ Len(v) = Len(q) - n
    /\ \A j \in 1..Len(v) : v[j] = q[n + j]

(* A step of it. *)
LEMMA CleanUpSteps ==
    ASSUME WTypes, NEW c \in Clients, NEW i \in 1..Len(tasks[c]), DownloadCleanUp(c, i)
    PROVE  \E t, n : /\ TaskBecomes(c, i, t) /\ t.kind = tasks[c][i].kind
                     /\ t.cancelled = tasks[c][i].cancelled
                     /\ t.status = tasks[c][i].status /\ t.socket = tasks[c][i].socket
                     /\ BehindFirst(to_client[c], to_client'[c], n)
                     /\ InStep(c)' => InStep(c)
                     /\ InStep(c)' /\ t.cleaning =>
                           to_client'[c] # <<>> /\ to_client'[c][1].type = "contents"
                     /\ \A d \in Clients \ {c} :
                           to_client'[d] = to_client[d] /\ out_of_step'[d] = out_of_step[d]
<1> DEFINE q == to_client[c]
<1>1. q \in Seq(ToClient) /\ DOMAIN out_of_step = Clients /\ DOMAIN to_client = Clients
  BY DEF WTypes
<1>2. ASSUME NEW part \in BOOLEAN, tasks' = [tasks EXCEPT ![c][i].cleaning = part]
      PROVE  \E t : /\ TaskBecomes(c, i, t) /\ t.cleaning = part
                    /\ t.kind = tasks[c][i].kind /\ t.cancelled = tasks[c][i].cancelled
                    /\ t.status = tasks[c][i].status /\ t.socket = tasks[c][i].socket
  BY <1>2, CleanUpFact, Zenon
<1>3. CASE /\ tasks' = [tasks EXCEPT ![c][i].cleaning = FALSE]
           /\ UNCHANGED <<to_client, out_of_step>>
  <2>1. PICK t : /\ TaskBecomes(c, i, t) /\ t.kind = tasks[c][i].kind
                 /\ t.cancelled = tasks[c][i].cancelled /\ t.cleaning = FALSE
                 /\ t.status = tasks[c][i].status /\ t.socket = tasks[c][i].socket
    <3>1. FALSE \in BOOLEAN
      OBVIOUS
    <3>. QED
      BY <1>2, <1>3, <3>1
  <2>2. BehindFirst(to_client[c], to_client'[c], 0)
    <3>1. to_client'[c] = q /\ Len(q) \in Nat
      BY <1>1, <1>3
    <3> HIDE DEF q
    <3>2. BehindFirst(q, q, 0)
      BY <3>1 DEF BehindFirst
    <3>. QED
      BY <3>1, <3>2 DEF q
  <2>3. InStep(c)' => InStep(c)
    BY <1>3 DEF InStep
  <2>. QED
    BY <1>3, <2>1, <2>2, <2>3
<1>4. ASSUME NEW n \in 1..Len(q), NEW part \in BOOLEAN, part => to_client'[c] # <<>>,
             to_client' = [to_client EXCEPT ![c] = SubSeq(@, n + 1, Len(@))],
             tasks' = [tasks EXCEPT ![c][i].cleaning = part],
             Disturbed(c, \E k \in 1..Len(q) : /\ k <= n \/ (part /\ k = n + 1)
                                               /\ q[k].type = "response",
                       "response_dropped")
      PROVE  \E t, m : /\ TaskBecomes(c, i, t) /\ t.kind = tasks[c][i].kind
                       /\ t.cancelled = tasks[c][i].cancelled
                       /\ t.status = tasks[c][i].status /\ t.socket = tasks[c][i].socket
                       /\ BehindFirst(to_client[c], to_client'[c], m)
                       /\ InStep(c)' => InStep(c)
                       /\ InStep(c)' /\ t.cleaning =>
                             to_client'[c] # <<>> /\ to_client'[c][1].type = "contents"
                       /\ \A d \in Clients \ {c} :
                             to_client'[d] = to_client[d] /\ out_of_step'[d] = out_of_step[d]
  <2>1. PICK t : /\ TaskBecomes(c, i, t) /\ t.kind = tasks[c][i].kind
                 /\ t.cancelled = tasks[c][i].cancelled /\ t.cleaning = part
                 /\ t.status = tasks[c][i].status /\ t.socket = tasks[c][i].socket
    BY <1>2, <1>4
  <2>2. /\ to_client'[c] = SubSeq(q, n + 1, Len(q))
        /\ \A d \in Clients \ {c} : to_client'[d] = to_client[d]
    BY <1>1, <1>4
  <2>3. /\ \A d \in Clients \ {c} : out_of_step'[d] = out_of_step[d]
        /\ InStep(c)' => InStep(c) /\ ~\E k \in 1..Len(q) : /\ k <= n \/ (part /\ k = n + 1)
                                                            /\ q[k].type = "response"
    BY <1>1, <1>4 DEF Disturbed, InStep
  <2> DEFINE v == SubSeq(q, n + 1, Len(q))
  <2>4. (\A j \in 1..Len(v) : v[j] = q[n + j]) /\ Len(v) = Len(q) - n /\ v \in Seq(ToClient)
    BY <1>1, PopRead, PartFact
  <2> HIDE DEF v, q
  <2>5. BehindFirst(q, v, n)
    BY <2>4 DEF BehindFirst
  <2>6. ASSUME InStep(c)', part PROVE v # <<>> /\ v[1].type = "contents"
    <3>1. v # <<>>
      BY <1>4, <2>2, <2>6 DEF v
    <3>2. 1 \in 1..Len(v) /\ n + 1 \in 1..Len(q)
      BY <1>1, <2>4, <3>1
    <3>3. q[n + 1].type # "response" /\ q[n + 1] \in ToClient
      BY <1>1, <2>3, <2>6, <3>2
    <3>. QED
      BY <2>4, <3>1, <3>2, <3>3, MessageTypes
  <2>7. to_client'[c] = v
    BY <2>2 DEF v
  <2>. QED
    BY <2>1, <2>2, <2>3, <2>5, <2>6, <2>7 DEF q
<1>5. \/ tasks' = [tasks EXCEPT ![c][i].cleaning = FALSE] /\ UNCHANGED <<to_client, out_of_step>>
      \/ \E n \in 1..Len(q), part \in BOOLEAN :
            /\ part => to_client'[c] # <<>>
            /\ to_client' = [to_client EXCEPT ![c] = SubSeq(@, n + 1, Len(@))]
            /\ tasks' = [tasks EXCEPT ![c][i].cleaning = part]
            /\ Disturbed(c, \E k \in 1..Len(q) : /\ k <= n \/ (part /\ k = n + 1)
                                                 /\ q[k].type = "response",
                         "response_dropped")
  BY Zenon DEF DownloadCleanUp, MayHoldPart
<1>. QED
  BY <1>3, <1>4, <1>5, Zenon

(* A step that begins no CleanUp(), and takes nothing of what one of them    *)
(* receives.                                                                 *)
LEMMA CleansStay ==
    ASSUME NEW d \in Clients, InStep(d) => CleansAlone(d), InStep(d)' => InStep(d),
           Left(d) => Left(d)',
           \/ Left(d)'
           \/ /\ Len(tasks'[d]) = Len(tasks[d])
              /\ \A j \in 1..Len(tasks[d]) :
                    /\ tasks'[d][j].status = tasks[d][j].status
                    /\ tasks'[d][j].cleaning = tasks[d][j].cleaning
              /\ to_client[d] # <<>> =>
                    to_client'[d] # <<>> /\ to_client'[d][1] = to_client[d][1]
    PROVE  InStep(d)' => CleansAlone(d)'
<1>1. CASE Left(d)'
  BY <1>1 DEF CleansAlone
<1>2. CASE ~Left(d)'
  BY <1>2 DEF CleansAlone, UsesAlone
<1>. QED
  BY <1>1, <1>2

(* The server only adds to what is on its way to a client. *)
LEMMA ServerKeepsHead ==
    ASSUME WTypes, NEW c \in Clients, Server(c), NEW d \in Clients
    PROVE  /\ InStep(d)' => InStep(d)
           /\ to_client[d] # <<>> => to_client'[d] # <<>> /\ to_client'[d][1] = to_client[d][1]
<1>1. UNCHANGED to_client \/ \E m : to_client' = [to_client EXCEPT ![c] = Append(@, m)]
  <2>1. ASSUME NEW m, NEW sent, NEW failed, Send(c, m, sent, failed)
        PROVE  UNCHANGED to_client \/ to_client' = [to_client EXCEPT ![c] = Append(@, m)]
    BY <2>1 DEF Send, WTypes
  <2>2. CASE RespondWithId(c) \/ SendChunk(c) \/ Reply(c)
    BY <2>1, <2>2 DEF RespondWithId, SendChunk, Reply
  <2>3. CASE ~(RespondWithId(c) \/ SendChunk(c) \/ Reply(c))
    BY <2>3 DEF Server, NPortListen, Agent, ReadNextMessage, GenerateID, GenerateLoad,
                GenerateStore, GenerateCheck, GenerateTake, Insert, OpenFile, CheckSent,
                CheckReceived, ReceiveChunk, CleanUp, WriteFile, EndCommand, HandleDelete,
                HandleOther, connection
  <2>. QED
    BY <2>2, <2>3
<1>2. UNCHANGED out_of_step \/ \E b, w : Disturbed(c, b, w)
  BY DEF Server, NPortListen, Agent, ReadNextMessage, Dispatch, GenerateID, GenerateLoad,
         GenerateStore, GenerateCheck, GenerateTake, Insert, RespondWithId, OpenFile, SendChunk,
         CheckSent, CheckReceived, ReceiveChunk, TakeChunk, CleanUp, WriteFile, EndCommand,
         HandleDelete, HandleOther, Reply, connection
<1>3. InStep(d)' => InStep(d)
  BY <1>2 DEF InStep, Disturbed, WTypes
<1>4. ASSUME NEW m, to_client' = [to_client EXCEPT ![c] = Append(@, m)], to_client[d] # <<>>
      PROVE  to_client'[d] # <<>> /\ to_client'[d][1] = to_client[d][1]
  <2>1. to_client'[d] = to_client[d] \/ to_client'[d] = Append(to_client[d], m)
    BY <1>4 DEF WTypes
  <2>2. to_client[d] \in Seq(ToClient)
    BY DEF WTypes
  <2>3. Append(to_client[d], m) # <<>> /\ Append(to_client[d], m)[1] = to_client[d][1]
    BY <1>4, <2>2
  <2>. QED
    BY <1>4, <2>1, <2>3
<1>. QED
  BY <1>1, <1>3, <1>4

(* What the client does with its tasks at rest. *)
LEMMA ShellCleans ==
    ASSUME IInv, WInv, Cleans, NEW c \in Clients,
           Connect(c) \/ TypeRequest(c) \/ TypeTerminate(c) \/ TypeQuit(c) \/ TaskCompleted(c)
    PROVE  Cleans'
<1>1. WTypes /\ ClientInv(c) /\ DOMAIN shell = Clients
  BY DEF WInv, IInv, Types
<1> SUFFICES ASSUME NEW d \in Clients PROVE InStep(d)' => CleansAlone(d)'
  BY DEF Cleans
<1>2. InStep(d) => CleansAlone(d)
  BY DEF Cleans
<1>3. InStep(d)' => InStep(d)
  BY <1>1 DEF InStep, Connect, TypeRequest, TypeTerminate, TypeQuit, TaskCompleted, Disturbed,
              WTypes, connection, server_vars
<1>4. d # c => shell'[d] = shell[d] /\ to_client'[d] = to_client[d]
  BY <1>1 DEF Connect, TypeRequest, SendToAgent, Leave, TypeTerminate, TypeQuit, TaskCompleted,
              WTypes, connection, server_vars
<1>5. shell[c] \in {"new", "prompt", "waiting"} /\ (Left(c)' \/ to_client'[c] = to_client[c])
  BY <1>1 DEF Connect, TypeRequest, SendToAgent, Leave, TypeTerminate, TypeQuit, TaskCompleted,
              MayType, WTypes, connection, server_vars, Left
<1>6. /\ Len(tasks'[d]) = Len(tasks[d])
      /\ \A j \in 1..Len(tasks[d]) :
            /\ tasks'[d][j].status = tasks[d][j].status
            /\ tasks'[d][j].cleaning = tasks[d][j].cleaning
  <2>1. CASE UNCHANGED tasks
    BY <2>1
  <2>2. CASE TypeTerminate(c) /\ get_task[c] # 0
    <3> DEFINE i == get_task[c]
               t == [tasks[c][i] EXCEPT !.cancelled = TRUE]
    <3>1. /\ i \in 1..Len(tasks[c]) /\ TaskBecomes(c, i, t)
          /\ t.status = tasks[c][i].status /\ t.cleaning = tasks[c][i].cleaning
      BY <1>1, <2>2, TerminateFact DEF ClientInv
    <3> HIDE DEF t, i
    <3>. QED
      BY <3>1 DEF TaskBecomes
  <2>. QED
    BY <2>1, <2>2 DEF Connect, TypeRequest, TypeTerminate, TaskToCancel, TypeQuit, TaskCompleted
<1>. QED
  BY <1>2, <1>3, <1>4, <1>5, <1>6, CleansStay DEF Left

(* A step of client c leaves the others alone. *)
LEMMA OthersClean ==
    ASSUME WInv, Cleans, NEW c \in Clients, ClientOnly(c), InStep(c)' => CleansAlone(c)'
    PROVE  Cleans'
<1> SUFFICES ASSUME NEW d \in Clients PROVE InStep(d)' => CleansAlone(d)'
  BY DEF Cleans
<1>1. CASE d = c
  BY <1>1
<1>2. CASE d # c
  <2>1. /\ tasks'[d] = tasks[d] /\ shell'[d] = shell[d] /\ to_client'[d] = to_client[d]
        /\ InStep(d)' => InStep(d)
    BY <1>2 DEF ClientOnly, InStep
  <2>2. (InStep(d) => CleansAlone(d)) /\ (Left(d) => Left(d)')
    BY <2>1 DEF Cleans, Left
  <2>. QED
    BY <2>1, <2>2, CleansStay
<1>. QED
  BY <1>1, <1>2

(* While a task runs, nobody cleans up. *)
LEMMA RunningCleans ==
    ASSUME NEW c \in Clients, CleansAlone(c), ~Left(c),
           NEW i \in 1..Len(tasks[c]), tasks[c][i].status = "RUNNING"
    PROVE  \A j \in 1..Len(tasks[c]) : ~tasks[c][j].cleaning
  BY DEF CleansAlone, UsesAlone

(* Nothing is dropped by the shell in front of a response, so a command      *)
(* begins in step only when the CleanUp() of the one before has ended.       *)
LEMMA WaitCleans ==
    ASSUME IInv, WInv, Cleans, NEW c \in Clients, WaitForMessage(c) PROVE Cleans'
<1>1. WTypes /\ ClientInv(c) /\ DOMAIN shell = Clients
  BY DEF WInv, IInv, Types
<1>2. AfterResponse(c) /\ shell[c] = "response"
      /\ UNCHANGED <<files, apc, command, sender, receiver, contents, parser, to_agent, open>>
  BY DEF WaitForMessage
<1>3. ASSUME InStep(c)' PROVE \A j \in 1..Len(tasks[c]) : ~tasks[c][j].cleaning
  <2> SUFFICES ASSUME NEW j \in 1..Len(tasks[c]), tasks[c][j].cleaning PROVE FALSE
    OBVIOUS
  <2>1. InStep(c)
    BY <1>1, <1>3, ResponseTaken
  <2>2. UsesAlone(c, j)
    BY <1>2, <2>1 DEF Cleans, CleansAlone, Left
  <2>3. /\ to_client[c] # <<>> /\ to_client[c][1].type = "contents"
    BY <2>2 DEF UsesAlone
  <2>4. PICK n \in 1..Len(to_client[c]) :
           Disturbed(c, \E i \in 1..n : to_client[c][i].type = "contents", "contents_dropped")
    BY <2>3 DEF WaitForMessage, HasEnded
  <2>5. 1 \in 1..n
    OBVIOUS
  <2>. QED
    BY <1>1, <1>3, <2>3, <2>4, <2>5 DEF Disturbed, InStep, WTypes
<1>4. CASE UNCHANGED tasks
  <2>1. InStep(c)' => CleansAlone(c)'
    BY <1>3, <1>4 DEF CleansAlone
  <2>2. ASSUME NEW d \in Clients, d # c PROVE InStep(d)' => CleansAlone(d)'
    <3>1. shell'[d] = shell[d] /\ to_client'[d] = to_client[d] /\ (InStep(d)' => InStep(d))
      <4>1. shell'[d] = shell[d]
        BY <1>1, <1>2, <2>2, AfterResponseFact
      <4>2. to_client'[d] = to_client[d] /\ out_of_step'[d] = out_of_step[d]
        BY <1>1, <2>2, ZenonT(40) DEF WaitForMessage, Disturbed, WTypes
      <4>. QED
        BY <4>1, <4>2 DEF InStep
    <3>. QED
      BY <1>4, <3>1, CleansStay DEF Cleans, Left
  <2>. QED
    BY <2>1, <2>2 DEF Cleans
<1>5. ASSUME NEW t, TaskAdded(c, t), ~t.cleaning PROVE Cleans'
  <2>1. InStep(c)' => CleansAlone(c)'
    <3>1. ASSUME InStep(c)', NEW j \in 1..Len(tasks'[c]) PROVE ~tasks'[c][j].cleaning
      <4>1. j \in 1..Len(tasks[c]) \/ j = Len(tasks[c]) + 1
        BY <1>1, <1>5, <3>1 DEF TaskAdded, WTypes
      <4>. QED
        BY <1>3, <1>5, <3>1, <4>1 DEF TaskAdded
    <3>. QED
      BY <3>1 DEF CleansAlone
  <2>2. ASSUME NEW d \in Clients, d # c PROVE InStep(d)' => CleansAlone(d)'
    <3>1. /\ shell'[d] = shell[d] /\ to_client'[d] = to_client[d] /\ (InStep(d)' => InStep(d))
          /\ tasks'[d] = tasks[d]
      <4>1. shell'[d] = shell[d]
        BY <1>1, <1>2, <2>2, AfterResponseFact
      <4>2. to_client'[d] = to_client[d] /\ out_of_step'[d] = out_of_step[d]
        BY <1>1, <2>2, ZenonT(40) DEF WaitForMessage, Disturbed, WTypes
      <4>. QED
        BY <1>5, <2>2, <4>1, <4>2 DEF InStep, TaskAdded
    <3>. QED
      BY <3>1, CleansStay DEF Cleans, Left
  <2>. QED
    BY <2>1, <2>2 DEF Cleans
<1>6. UNCHANGED tasks \/ TaskAdded(c, UploadTask(c)) \/ TaskAdded(c, DownloadTask)
  BY <1>1, <1>2, AfterResponseFact
<1>. QED
  BY <1>4, <1>5, <1>6, NewTasks

(* UploadTask::RunAtomic(). *)
LEMMA UploadCleans ==
    ASSUME IInv, WInv, Cleans, NEW c \in Clients, NEW i \in 1..Len(tasks[c]), UploadRun(c, i)
    PROVE  Cleans'
<1>1. WTypes /\ ClientInv(c) /\ DOMAIN shell = Clients
  BY DEF WInv, IInv, Types
<1>2. PICK t : TaskBecomes(c, i, t) /\ ~t.cleaning
  BY <1>1, UploadReturns DEF ClientInv
<1>3. /\ UNCHANGED <<out_of_step>> /\ tasks[c][i].status = "RUNNING"
      /\ \A d \in Clients \ {c} : shell'[d] = shell[d] /\ to_client'[d] = to_client[d]
      /\ shell'[c] = shell[c] \/ shell'[c] = "dead"
  BY <1>1 DEF UploadRun, Running, SendToAgent, Leave, WTypes
<1>4. ASSUME InStep(c)' PROVE CleansAlone(c)'
  <2>1. CASE Left(c)
    BY <1>3, <2>1 DEF Left, CleansAlone
  <2>2. CASE ~Left(c)
    <3>1. InStep(c)
      BY <1>3, <1>4 DEF InStep
    <3>2. \A j \in 1..Len(tasks[c]) : ~tasks[c][j].cleaning
      BY <1>3, <2>2, <3>1, RunningCleans DEF Cleans
    <3>. QED
      BY <1>2, <3>2 DEF TaskBecomes, CleansAlone
  <2>. QED
    BY <2>1, <2>2
<1>5. ASSUME NEW d \in Clients, d # c PROVE InStep(d)' => CleansAlone(d)'
  <2>1. tasks'[d] = tasks[d] /\ (InStep(d)' => InStep(d))
    BY <1>2, <1>3, <1>5 DEF TaskBecomes, InStep
  <2>. QED
    BY <1>3, <1>5, <2>1, CleansStay DEF Cleans, Left
<1>. QED
  BY <1>4, <1>5 DEF Cleans

(* DownloadTask::RunAtomic(): what is behind it on the connection is chunks. *)
LEMMA DownloadCleans ==
    ASSUME IInv, WInv, Cleans, NEW c \in Clients, NEW i \in 1..Len(tasks[c]), DownloadRun(c, i)
    PROVE  Cleans'
<1>1. WTypes /\ ClientInv(c)
  BY DEF WInv
<1>2. PICK t : /\ TaskBecomes(c, i, t)
               /\ t.cleaning => to_client'[c] # <<>> /\ t.status # "RUNNING"
               /\ DownloadStops(t) \/ DownloadTakes(c, tasks[c][i].socket, t)
  BY <1>1, DownloadReturns
<1>3. /\ \A d \in Clients \ {c} : to_client'[d] = to_client[d]
      /\ AllContents(to_client[c]) => AllContents(to_client'[c])
  BY <1>2 DEF DownloadStops, DownloadTakes
<1>4. /\ UNCHANGED <<files, apc, command, sender, receiver, contents, parser, to_agent, open,
                     out_of_step, shell, request, get_task>>
      /\ tasks[c][i].status = "RUNNING"
  BY DEF DownloadRun, Running
<1>5. ClientOnly(c)
  BY <1>2, <1>3, <1>4 DEF ClientOnly, TaskBecomes
<1>6. ASSUME InStep(c)' PROVE CleansAlone(c)'
  <2>1. CASE Left(c)
    BY <1>4, <2>1 DEF Left, CleansAlone
  <2>2. CASE ~Left(c)
    <3>1. InStep(c)
      BY <1>4, <1>6 DEF InStep
    <3>2. \A j \in 1..Len(tasks[c]) : ~tasks[c][j].cleaning
      BY <1>4, <2>2, <3>1, RunningCleans DEF Cleans
    <3>3. OneTask(c)
      BY <1>1, <3>1 DEF ClientInv, StepInv
    <3>4. shell[c] # "response" /\ \A j \in 1..Len(tasks[c]) : j # i => tasks[c][j].status # "RUNNING"
      BY <1>4, <3>3 DEF OneTask
    <3>5. AllContents(to_client'[c])
      BY <1>1, <1>3, <3>1, <3>4, OnlyContents
    <3>6. ASSUME t.cleaning PROVE to_client'[c] # <<>> /\ to_client'[c][1].type = "contents"
      <4>1. to_client'[c] # <<>> /\ to_client'[c] \in Seq(ToClient)
        BY <1>1, <1>2, <3>6, DownloadTypes DEF WTypes
      <4>2. 1 \in 1..Len(to_client'[c])
        BY <4>1
      <4>. QED
        BY <3>5, <4>1, <4>2 DEF AllContents
    <3>7. /\ Len(tasks'[c]) = Len(tasks[c])
          /\ \A j \in 1..Len(tasks[c]) : /\ tasks'[c][j].cleaning => j = i /\ t.cleaning
                                         /\ t.cleaning => tasks'[c][j].status # "RUNNING"
      BY <1>2, <3>2, <3>4 DEF TaskBecomes
    <3>. QED
      BY <3>6, <3>7 DEF CleansAlone, UsesAlone
  <2>. QED
    BY <2>1, <2>2
<1>. QED
  BY <1>5, <1>6, OthersClean

(* DownloadTask::CleanUp() itself. *)
LEMMA CleanUpCleans ==
    ASSUME IInv, WInv, Cleans, NEW c \in Clients, NEW i \in 1..Len(tasks[c]), DownloadCleanUp(c, i)
    PROVE  Cleans'
<1>1. WTypes
  BY DEF WInv
<1>2. PICK t, n : /\ TaskBecomes(c, i, t) /\ t.status = tasks[c][i].status
                  /\ InStep(c)' => InStep(c)
                  /\ InStep(c)' /\ t.cleaning =>
                        to_client'[c] # <<>> /\ to_client'[c][1].type = "contents"
                  /\ \A d \in Clients \ {c} :
                        to_client'[d] = to_client[d] /\ out_of_step'[d] = out_of_step[d]
  BY <1>1, CleanUpSteps
<1>3. /\ UNCHANGED <<files, apc, command, sender, receiver, contents, parser, to_agent, open,
                     shell, request, get_task>>
      /\ tasks[c][i].cleaning
  BY DEF DownloadCleanUp
<1>4. ClientOnly(c)
  BY <1>2, <1>3 DEF ClientOnly, TaskBecomes
<1>5. ASSUME InStep(c)' PROVE CleansAlone(c)'
  <2>1. CASE Left(c)
    BY <1>3, <2>1 DEF Left, CleansAlone
  <2>2. CASE ~Left(c)
    <3>1. UsesAlone(c, i)
      BY <1>2, <1>3, <1>5, <2>2 DEF Cleans, CleansAlone
    <3>2. /\ Len(tasks'[c]) = Len(tasks[c])
          /\ \A j \in 1..Len(tasks[c]) : /\ tasks'[c][j].cleaning => j = i /\ t.cleaning
                                         /\ tasks'[c][j].status # "RUNNING"
      BY <1>2, <3>1 DEF TaskBecomes, UsesAlone
    <3>. QED
      BY <1>2, <1>5, <3>2 DEF CleansAlone, UsesAlone
  <2>. QED
    BY <2>1, <2>2
<1>. QED
  BY <1>4, <1>5, OthersClean

(* Every step keeps it so. *)
LEMMA CleansStep == ASSUME IInv, WInv, Cleans, [Next]_vars PROVE Cleans'
<1>1. CASE UNCHANGED vars
  BY <1>1 DEF vars, server_vars, client_vars, connection, Cleans, CleansAlone, UsesAlone, Left, InStep
<1>2. ASSUME NEW t \in terminations, Terminate(t), UNCHANGED client_vars PROVE Cleans'
  BY <1>2 DEF Terminate, client_vars, connection, Cleans, CleansAlone, UsesAlone, Left, InStep
<1>3. ASSUME NEW c \in Clients, Server(c), UNCHANGED client_vars PROVE Cleans'
  <2>1. UNCHANGED <<tasks, shell>> /\ WTypes
    BY <1>3 DEF client_vars, WInv
  <2> SUFFICES ASSUME NEW d \in Clients PROVE InStep(d)' => CleansAlone(d)'
    BY DEF Cleans
  <2>2. /\ InStep(d)' => InStep(d)
        /\ to_client[d] # <<>> => to_client'[d] # <<>> /\ to_client'[d][1] = to_client[d][1]
    BY <1>3, <2>1, ServerKeepsHead
  <2>3. (InStep(d) => CleansAlone(d)) /\ (Left(d) => Left(d)')
    BY <2>1 DEF Cleans, Left
  <2>. QED
    BY <2>1, <2>2, <2>3, CleansStay
<1>4. ASSUME NEW c \in Clients,
             Connect(c) \/ TypeRequest(c) \/ TypeTerminate(c) \/ TypeQuit(c) \/ Shell(c)
      PROVE  Cleans'
  BY <1>4, ShellCleans, WaitCleans DEF Shell
<1>5. ASSUME NEW c \in Clients, RunTask(c) PROVE Cleans'
  BY <1>5, UploadCleans, DownloadCleans, CleanUpCleans DEF RunTask
<1>. QED
  BY <1>1, <1>2, <1>3, <1>4, <1>5 DEF Next

(* What it drops is behind what has been saved: no download loses a chunk. *)
LEMMA CleanUpInv ==
    ASSUME IInv, WInv, Cleans, WTypes', NEW c \in Clients, NEW i \in 1..Len(tasks[c]),
           DownloadCleanUp(c, i)
    PROVE  WInv'
<1>1. WTypes /\ ClientInv(c) /\ OpenEnd(c) /\ CancelsGets(c)
  BY DEF WInv, ClientInv
<1>2. PICK t, n : /\ TaskBecomes(c, i, t) /\ t.kind = tasks[c][i].kind
                  /\ t.cancelled = tasks[c][i].cancelled
                  /\ t.status = tasks[c][i].status /\ t.socket = tasks[c][i].socket
                  /\ BehindFirst(to_client[c], to_client'[c], n)
                  /\ InStep(c)' => InStep(c)
                  /\ \A d \in Clients \ {c} :
                        to_client'[d] = to_client[d] /\ out_of_step'[d] = out_of_step[d]
  BY <1>1, CleanUpSteps
<1>3. /\ UNCHANGED <<files, apc, command, sender, receiver, contents, parser, to_agent, open,
                     shell, request, get_task>>
      /\ tasks[c][i].cleaning
  BY DEF DownloadCleanUp
<1>4. ClientOnly(c)
  BY <1>2, <1>3 DEF ClientOnly, TaskBecomes
<1>5. Up(c)' = Up(c)
  BY <1>3, Zenon DEF Up
<1> DEFINE q == to_client[c]
           v == to_client'[c]
<1>6. /\ q \in Seq(ToClient) /\ v \in Seq(ToClient) /\ Len(q) \in Nat /\ Len(v) \in Nat
      /\ n \in Nat /\ Len(v) = Len(q) - n
      /\ \A j \in 1..Len(v) : v[j] = q[n + j] /\ n + j \in 1..Len(q)
  <2>1. q \in Seq(ToClient) /\ v \in Seq(ToClient)
    BY <1>1 DEF WTypes
  <2>2. n \in Nat /\ Len(v) = Len(q) - n /\ \A j \in 1..Len(v) : v[j] = q[n + j]
    BY <1>2 DEF BehindFirst
  <2> HIDE DEF q, v
  <2>3. Len(q) \in Nat /\ Len(v) \in Nat
    BY <2>1
  <2>. QED
    BY <2>1, <2>2, <2>3
<1>7. q = <<>> => v = <<>>
  <2> HIDE DEF q, v
  <2>. QED
    BY <1>6
<1>8. AllContents(q) => AllContents(v)
  <2> HIDE DEF q, v
  <2>. QED
    BY <1>6 DEF AllContents
<1>9. OpenEnd(c)' /\ CancelsGets(c)'
  BY <1>1, <1>2, <1>3, <1>7, BecomesFact DEF OpenEnd
<1>10. /\ Len(tasks'[c]) = Len(tasks[c]) /\ (tasks'[c] = <<>> <=> tasks[c] = <<>>)
       /\ \A j \in 1..Len(tasks[c]) : /\ tasks'[c][j].kind = tasks[c][j].kind
                                      /\ tasks'[c][j].status = tasks[c][j].status
                                      /\ tasks'[c][j].socket = tasks[c][j].socket
  <2>1. tasks[c] \in Seq(TaskType) /\ tasks'[c] \in Seq(TaskType)
    BY <1>1 DEF WTypes
  <2>. QED
    BY <1>2, <2>1 DEF TaskBecomes
<1>11. tasks[c] # <<>> =>
          /\ LastTask(c)'.kind = LastTask(c).kind /\ LastTask(c)'.status = LastTask(c).status
          /\ LastTask(c)'.socket = LastTask(c).socket
  <2>1. tasks[c] # <<>> => Len(tasks[c]) \in 1..Len(tasks[c])
    BY <1>1 DEF WTypes
  <2>. QED
    BY <1>10, <2>1 DEF LastTask
<1>12. GetRuns(c)' <=> GetRuns(c)
  BY <1>10, <1>11 DEF GetRuns
<1>13. ASSUME InStep(c) PROVE (GetRuns(c) => v = q)
  <2>1. CASE Left(c)
    <3>1. q = <<>>
      BY <1>1, <2>1 DEF OpenEnd, Left
    <3>. QED
      BY <1>7, <3>1
  <2>2. CASE ~Left(c)
    <3>1. UsesAlone(c, i)
      BY <1>3, <1>13, <2>2 DEF Cleans, CleansAlone
    <3>2. tasks[c] # <<>> => Len(tasks[c]) \in 1..Len(tasks[c])
      BY <1>1 DEF WTypes
    <3>. QED
      BY <3>1, <3>2 DEF UsesAlone, GetRuns, LastTask
  <2>. QED
    BY <2>1, <2>2
<1>14. ASSUME InStep(c) PROVE Used(c)'
  <2>1. Used(c)
    BY <1>1, <1>14 DEF ClientInv, StepInv, Used
  <2>2. OneTask(c)' /\ GetAnswered(c)'
    BY <1>3, <1>10, <1>12, <2>1 DEF Used, OneTask, GetAnswered
  <2>3. Asked(c)'
    BY <1>3, <1>5, <1>8, <2>1 DEF Used, Asked
  <2>4. Answered(c)'
    <3> SUFFICES ASSUME NEW p \in 1..Len(v), v[p].type # "contents"
                 PROVE  /\ shell[c] = "response"
                        /\ \A j \in 1..Len(v) : j # p => v[j].type = "contents"
                        /\ apc[c] # "ended" => Up(c) = <<>>
                        /\ apc[c] \in (CASE request[c].kind = "get" -> AfterGet
                                         [] request[c].kind = "put" -> AfterPut
                                         [] OTHER -> AfterOther)
      BY <1>3, <1>5 DEF Answered
    <3>1. n + p \in 1..Len(q) /\ q[n + p].type # "contents"
      BY <1>6
    <3>2. /\ shell[c] = "response"
          /\ \A j \in 1..Len(q) : j # n + p => q[j].type = "contents"
          /\ apc[c] # "ended" => Up(c) = <<>>
          /\ apc[c] \in (CASE request[c].kind = "get" -> AfterGet
                           [] request[c].kind = "put" -> AfterPut
                           [] OTHER -> AfterOther)
      BY <2>1, <3>1 DEF Used, Answered
    <3> HIDE DEF q, v
    <3>3. ASSUME NEW j \in 1..Len(v), j # p PROVE v[j].type = "contents"
      <4>1. n + j \in 1..Len(q) /\ n + j # n + p /\ v[j] = q[n + j]
        BY <1>6, <3>3
      <4>. QED
        BY <3>2, <4>1
    <3>. QED
      BY <3>2, <3>3
  <2>5. ASSUME apc'[c] \in ReceivingLabels PROVE Uploads(c)'
    <3>1. Uploads(c)
      BY <1>3, <2>1, <2>5 DEF Used
    <3>. QED
      BY <1>3, <1>5, <1>10, <1>11, <3>1 DEF Uploads
  <2>. QED
    BY <2>2, <2>3, <2>4, <2>5 DEF Used
<1>15. ASSUME AllInStep PROVE WholeInv(c)'
  <2>1. InStep(c) /\ WholeInv(c)
    BY <1>1, <1>15 DEF AllInStep, ClientInv
  <2>2. \A r, u : Downloads(c, r, u) => Downloads(c, r, u)'
    BY <1>3 DEF Downloads
  <2>3. ASSUME GetRuns(c)'
        PROVE  Downloads(c, LastTask(c).socket, LastTask(c).socket.parser \o to_client[c])'
    <3>1. GetRuns(c) /\ v = q /\ LastTask(c)'.socket = LastTask(c).socket
      BY <1>11, <1>12, <1>13, <2>1, <2>3 DEF GetRuns
    <3>2. Downloads(c, LastTask(c).socket, LastTask(c).socket.parser \o q)
      BY <1>15, <2>1, <3>1 DEF WholeInv
    <3>3. \A r, u : r = LastTask(c).socket /\ u = LastTask(c).socket.parser \o q
                       => Downloads(c, r, u)'
      BY <2>2, <3>2
    <3>. QED
      BY <3>1, <3>3
  <2>4. ASSUME request'[c].kind = "get", NEW p \in 1..Len(v), v[p].type = "response"
        PROVE  Downloads(c, NewReceiver, SubSeq(to_client[c], p + 1, Len(to_client[c])))'
    <3>1. n + p \in 1..Len(q) /\ q[n + p].type = "response" /\ request[c].kind = "get"
      BY <1>3, <1>6, <2>4
    <3>2. Downloads(c, NewReceiver, SubSeq(q, n + p + 1, Len(q)))
      BY <1>15, <2>1, <3>1 DEF WholeInv
    <3>3. SubSeq(v, p + 1, Len(v)) = SubSeq(q, n + p + 1, Len(q))
      <4> HIDE DEF q, v
      <4> DEFINE x == SubSeq(v, p + 1, Len(v))
                 y == SubSeq(q, n + p + 1, Len(q))
      <4>1. /\ \A j \in 1..Len(x) : x[j] = v[p + j]
            /\ Len(x) = Len(v) - p /\ x \in Seq(ToClient)
        BY <1>6, PopRead, PartFact
      <4>2. /\ \A j \in 1..Len(y) : y[j] = q[n + p + j]
            /\ Len(y) = Len(q) - (n + p) /\ y \in Seq(ToClient)
        <5>1. ASSUME NEW k \in 1..Len(q), k = n + p
              PROVE  /\ \A j \in 1..Len(SubSeq(q, k + 1, Len(q))) :
                           SubSeq(q, k + 1, Len(q))[j] = q[k + j]
                     /\ Len(SubSeq(q, k + 1, Len(q))) = Len(q) - k
                     /\ SubSeq(q, k + 1, Len(q)) \in Seq(ToClient)
          BY <1>6, PopRead, PartFact
        <5>. QED
          BY <3>1, <5>1
      <4> HIDE DEF x, y
      <4>3. Len(x) = Len(y)
        BY <1>6, <4>1, <4>2
      <4>4. ASSUME NEW j \in 1..Len(x) PROVE x[j] = y[j]
        <5>1. p + j \in 1..Len(v) /\ n + (p + j) = n + p + j
          BY <1>6, <4>1
        <5>. QED
          BY <1>6, <4>1, <4>2, <4>3, <5>1
      <4>5. x = y
        BY <4>1, <4>2, <4>3, <4>4, SeqEqual
      <4>. QED
        BY <4>5 DEF x, y
    <3>4. \A u : u = SubSeq(q, n + p + 1, Len(q)) => Downloads(c, NewReceiver, u)'
      BY <2>2, <3>2
    <3>. QED
      BY <3>3, <3>4
  <2>. QED
    BY <2>3, <2>4 DEF WholeInv
<1>. QED
  BY <1>2, <1>4, <1>9, <1>14, <1>15, ClientOnlyInv

-----------------------------------------------------------------------------
(* The invariant holds. *)

(* Nothing is on its way. *)
LEMMA WholeInit == ASSUME Init PROVE WInv
<1>1. WTypes
  BY TypesInit
<1>2. FilesWhole
  BY DEF Init, FilesWhole, WholeFiles
<1>3. ASSUME NEW c \in Clients PROVE ClientInv(c)
  <2>1. /\ apc[c] = "none" /\ receiver[c] = NewReceiver /\ contents[c] = <<>> /\ parser[c] = <<>>
        /\ to_agent[c] = <<>> /\ to_client[c] = <<>> /\ open[c] = FALSE
        /\ shell[c] = "new" /\ tasks[c] = <<>> /\ get_task[c] = 0
    BY DEF Init, ServerInit
  <2>2. Up(c) = <<>>
    <3>1. Up(c) = <<>> \o <<>>
      BY <2>1, Zenon DEF Up, ReceivingLabels
    <3>2. <<>> \o <<>> = <<>>
      OBVIOUS
    <3>. QED
      BY <3>1, <3>2, Zenon
  <2>3. OpenEnd(c) /\ CancelsGets(c) /\ LocalToPut(c)
    BY <2>1 DEF OpenEnd, CancelsGets, LocalToPut
  <2>4. ~GetRuns(c) /\ contents[c] \in WholeFiles
    BY <2>1 DEF GetRuns, WholeFiles
  <2>5. StepInv(c)
    BY <2>1, <2>2, <2>4 DEF StepInv, OneTask, Asked, Answered, GetAnswered
  <2>6. WholeInv(c)
    BY <2>1, <2>4 DEF WholeInv
  <2>. QED
    BY <2>3, <2>5, <2>6 DEF ClientInv
<1>. QED
  BY <1>1, <1>2, <1>3 DEF WInv

(* A step that is nothing to any client. *)
LEMMA NobodyInv ==
    ASSUME WInv, WTypes',
           UNCHANGED <<files, apc, command, sender, receiver, contents, parser, to_agent, to_client,
                       open, out_of_step, shell, request, tasks, get_task>>
    PROVE  WInv'
<1>1. AllInStep' => AllInStep
  BY DEF AllInStep, InStep
<1>2. \A d \in Clients : SameClient(d)
  BY DEF SameClient, SameButLabel
<1>3. \A d \in Clients : ClientInv(d)'
  BY <1>1, <1>2, OtherInv DEF WInv
<1>. QED
  BY <1>1, <1>3, FilesStay DEF WInv

(* Every step keeps the invariant. *)
LEMMA WholeStep == ASSUME IInv, WInv, Cleans, [Next]_vars PROVE WInv'
<1>1. WTypes'
  BY TypesStep DEF WInv, ClientInv
<1>2. CASE UNCHANGED vars
  BY <1>1, <1>2, NobodyInv DEF vars
<1>3. ASSUME NEW t \in terminations, Terminate(t), UNCHANGED client_vars PROVE WInv'
  BY <1>1, <1>3, NobodyInv DEF Terminate
<1>4. ASSUME NEW c \in Clients, Server(c), UNCHANGED client_vars PROVE WInv'
  BY <1>1, <1>4, ServerInv
<1>5. ASSUME NEW c \in Clients,
             Connect(c) \/ TypeRequest(c) \/ TypeTerminate(c) \/ TypeQuit(c) \/ Shell(c)
      PROVE  WInv'
  BY <1>1, <1>5, ConnectInv, RequestInv, ShellIdleInv, QuitInv, WaitInv DEF Shell
<1>6. ASSUME NEW c \in Clients, RunTask(c) PROVE WInv'
  BY <1>1, <1>6, UploadInv, DownloadInv, CleanUpInv DEF RunTask
<1>. QED
  BY <1>2, <1>3, <1>4, <1>5, <1>6 DEF Next

(* What has been received, what is on its way and what is still to be sent   *)
(* make up one whole file, in both directions and at every step.             *)
THEOREM WInvHolds == Spec => [](IInv /\ WInv /\ Cleans)
<1>1. Init => WInv /\ Cleans
  BY WholeInit DEF Init, Cleans, CleansAlone
<1>2. IInv /\ WInv /\ Cleans /\ [Next]_vars => WInv' /\ Cleans'
  BY WholeStep, CleansStep
<1>. QED
  BY IInvHolds, <1>1, <1>2, PTL DEF Spec

(* What is written to a file is what an agent has received (agent.cpp:252). *)
LEMMA FilesChange ==
    ASSUME WInv, Next, NEW f \in Files, files'[f] # files[f]
    PROVE  \/ files'[f] \in WholeFiles \cup {Missing}
           \/ \E c \in Clients : apc[c] = "write" /\ file[c] = f /\ ~InStep(c)
<1>1. PICK c \in Clients : Agent(c)
  <2>1. \E c \in Clients : Server(c)
    <3>1. ASSUME NEW t, Terminate(t) PROVE UNCHANGED files
      BY <3>1 DEF Terminate
    <3>2. ASSUME NEW c, Connect(c) \/ TypeRequest(c) \/ TypeTerminate(c) \/ TypeQuit(c) \/ Shell(c)
          PROVE  UNCHANGED files
      BY <3>2 DEF Connect, TypeRequest, TypeTerminate, TypeQuit, Shell, WaitForMessage, TaskCompleted
    <3>3. ASSUME NEW c, RunTask(c) PROVE UNCHANGED files
      BY <3>3 DEF RunTask, UploadRun, DownloadRun, DownloadCleanUp
    <3>. QED
      BY <3>1, <3>2, <3>3 DEF Next
  <2>. QED
    BY <2>1 DEF Server, NPortListen
<1>2. WriteFile(c) \/ HandleDelete(c)
  BY <1>1 DEF Agent, ReadNextMessage, GenerateID, GenerateLoad, GenerateStore, GenerateCheck,
              GenerateTake, Insert, RespondWithId, OpenFile, SendChunk, CheckSent, CheckReceived,
              ReceiveChunk, CleanUp, EndCommand, HandleOther, Reply
<1>3. DOMAIN files = Files
  BY DEF WInv, WTypes
<1>4. CASE HandleDelete(c)
  BY <1>3, <1>4 DEF HandleDelete
<1>5. CASE WriteFile(c)
  <2>1. apc[c] = "write" /\ file[c] = f /\ files'[f] = contents[c]
    BY <1>3, <1>5 DEF WriteFile
  <2>2. InStep(c) => contents[c] \in WholeFiles
    BY DEF WInv, ClientInv, StepInv
  <2>. QED
    BY <2>1, <2>2
<1>. QED
  BY <1>2, <1>4, <1>5

(* What a client saves is what its download has received (download_task.cpp:15). *)
LEMMA SavedChanges ==
    ASSUME WInv, Next, NEW c \in Clients, saved'[c] # saved[c], AllInStep
    PROVE  saved'[c] \in WholeFiles
<1>1. PICK d \in Clients : RunTask(d)
  BY DEF Next, Connect, TypeRequest, TypeTerminate, TypeQuit, Shell, WaitForMessage, TaskCompleted
<1>2. PICK i \in 1..Len(tasks[d]) : DownloadRun(d, i)
  BY <1>1 DEF RunTask, UploadRun, DownloadCleanUp
<1> DEFINE r == tasks[d][i].socket
<1>3. /\ r.complete_file /\ saved' = [saved EXCEPT ![d] = r.file_contents]
      /\ tasks[d][i].kind = "get" /\ i \in Running(d)
  BY <1>2 DEF DownloadRun, HasCompleteFile
<1>4. WTypes /\ ClientInv(d) /\ InStep(d)
  BY DEF WInv, AllInStep
<1>5. saved'[c] = r.file_contents
  BY <1>3, <1>4 DEF WTypes
<1>6. tasks[d][i].status = "RUNNING"
  BY <1>3 DEF Running
<1>7. GetRuns(d) /\ LastTask(d) = tasks[d][i]
  <2>1. i = Len(tasks[d]) /\ tasks[d] # <<>>
    BY <1>4, <1>6 DEF ClientInv, StepInv, OneTask
  <2>. QED
    BY <1>3, <1>6, <2>1 DEF GetRuns, LastTask
<1>8. \E q : Downloads(d, r, q)
  BY <1>4, <1>7 DEF ClientInv, WholeInv
<1> HIDE DEF r
<1>9. PICK f \in WholeFiles \cap FileData :
         IsStartOf(r.file_contents, f) /\ Len(r.file_contents) = Len(f)
  BY <1>3, <1>8 DEF Downloads
<1>10. SubSeq(f, 1, Len(f)) = f
  BY <1>9, SubSeqFull DEF FileData
<1>11. r.file_contents = f
  BY <1>9, <1>10 DEF IsStartOf
<1>. QED
  BY <1>5, <1>9, <1>11

(* A file changes on the server only into a whole upload, an empty file or    *)
(* nothing, and a client saves only whole files (agent.cpp:79-90 and 252,    *)
(* download_task.cpp:15), unless a connection has been used out of step: for *)
(* any files, chunk size and number of clients, commands and terminations.   *)
THEOREM TransfersAreWholeHolds == Spec => TransfersAreWhole
<1> DEFINE A == /\ \A f \in Files : files'[f] # files[f] =>
                      \/ files'[f] \in WholeFiles \cup {Missing}
                      \/ \E c \in Clients : apc[c] = "write" /\ file[c] = f /\ ~InStep(c)
                /\ \A c \in Clients : saved'[c] # saved[c] =>
                      saved'[c] \in WholeFiles \/ \E d \in Clients : ~InStep(d)
<1>1. WInv /\ [Next]_vars => [A]_vars
  <2> SUFFICES ASSUME WInv, Next PROVE A
    OBVIOUS
  <2>. QED
    BY FilesChange, SavedChanges DEF AllInStep
<1>. QED
  BY WInvHolds, <1>1, PTL DEF Spec, TransfersAreWhole
=============================================================================
