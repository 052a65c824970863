----------------------------- MODULE FtpServer -----------------------------
(***************************************************************************)
(* The FTP server (src/project1_2/server): an agent for every client of    *)
(* the normal port, the set of active command ids they share, and the      *)
(* termination port, through which a client removes an id from that set.   *)
(*                                                                         *)
(* An agent's step is one access to what it shares with others: a socket,  *)
(* the ids, or the disk (whose operations are atomic: module FileLocks).   *)
(* recv() takes one or more whole messages; where it matters that it may   *)
(* also take the beginning of the next one (CleanUp), the part stays in    *)
(* the connection with the rest of its message.  A step that the process   *)
(* does not survive (SIGPIPE, an exception nobody catches) ends every      *)
(* agent.                                                                  *)
(***************************************************************************)
EXTENDS ChunkedFiles, FiniteSets

CONSTANTS
    Clients,        \* the clients; an agent is named after its client
    Files,          \* the names of files on the server
    NoFile,         \* a name that no file has
    Missing,        \* "contents" of a file that does not exist
    IdModulus,      \* 2^16 in the program: id_ is a uint16_t
    SocketBuffer    \* the messages a connection holds in each direction

ASSUME FilesAssumption == NoFile \notin Files
ASSUME IdAssumption == IdModulus \in Nat \ {0}
ASSUME BufferAssumption == SocketBuffer \in Nat \ {0}

VARIABLES
    alive,          \* the server's process runs
    nport,          \* NPortTask: "listening" or "failed"
    files,          \* what is on the disk
    next_id,        \* CommandIDs::id_
    command_ids,    \* CommandIDs::command_ids_
    apc,            \* where Agent::Handle() is
    command, file,  \* the request it handles
    cid, loaded,    \* that command's id; the value of id_ its increment has read
    terminated,     \* the local variable of SendFileContents and ReadFileContents
    sender, receiver,
    contents,       \* file_contents of HandleRequest(PutRequest)
    parser,         \* Agent::parser_: messages received and not yet handled
    late,           \* history: chunks carried since the command's id was last removed
    to_agent, to_client,    \* the two directions of each client's connection
    open,           \* the client's end of it is open
    out_of_step,    \* history: what has put the two sides out of step first, or "no"
    terminations    \* TerminateRequests on their way to the termination port

process == <<alive, nport>>
ids == <<next_id, command_ids>>
handler == <<command, file, cid, loaded, terminated, sender, receiver, contents, late>>
connection == <<to_agent, to_client, open, out_of_step>>
server_vars == <<process, files, ids, apc, handler, parser, connection, terminations>>

(* Where an agent is between Insert() and Delete() of its command's id. *)
Holding == {"respond", "open", "send", "check_sent", "check_received", "receive",
            "clean", "write", "delete", "abort"}

AgentLabels == Holding \cup {"none", "pending", "read", "load", "store", "check", "take",
                             "insert", "del", "other", "reply", "ended"}

ServerInit ==
    /\ alive = TRUE /\ nport = "listening"
    /\ next_id = 0 /\ command_ids = {}
    /\ apc = [c \in Clients |-> "none"]
    /\ command = [c \in Clients |-> "other"] /\ file = [c \in Clients |-> NoFile]
    /\ cid = [c \in Clients |-> 0] /\ loaded = [c \in Clients |-> 0]
    /\ terminated = [c \in Clients |-> FALSE]
    /\ sender = [c \in Clients |-> SetFileContents(<<>>)]
    /\ receiver = [c \in Clients |-> NewReceiver]
    /\ contents = [c \in Clients |-> <<>>]
    /\ parser = [c \in Clients |-> <<>>]
    /\ late = [c \in Clients |-> 0]
    /\ to_agent = [c \in Clients |-> <<>>] /\ to_client = [c \in Clients |-> <<>>]
    /\ open = [c \in Clients |-> FALSE] /\ out_of_step = [c \in Clients |-> "no"]
    /\ terminations = {}

-----------------------------------------------------------------------------
(* The process dies: every connection is closed, nobody listens. *)
Crash ==
    /\ alive' = FALSE /\ nport' = "failed"
    /\ apc' = [c \in Clients |-> IF apc[c] = "none" THEN "none" ELSE "ended"]

Goto(c, label) == apc' = [apc EXCEPT ![c] = label] /\ UNCHANGED process

(* History: the two sides are out of step from the first disturbance on. *)
Disturbed(c, disturbed, why) ==
    out_of_step' = [out_of_step EXCEPT ![c] = IF disturbed /\ @ = "no" THEN why ELSE @]

(* Sockets are blocking: a send() waits until the connection holds it all.   *)
HasRoom(messages) == Len(messages) < SocketBuffer

(* send() of m to client c: `sent' follows a success, `failed' a -1.  Once   *)
(* the client has closed its end, a send() may still succeed, may fail, or   *)
(* raise SIGPIPE, for which nobody installs a handler.                       *)
Send(c, m, sent, failed) ==
    \/ /\ open[c] => HasRoom(to_client[c])
       /\ to_client' = [to_client EXCEPT ![c] = IF open[c] THEN Append(@, m) ELSE @]
       /\ Goto(c, sent)
    \/ ~open[c] /\ UNCHANGED to_client /\ Goto(c, failed)
    \/ ~open[c] /\ UNCHANGED to_client /\ Crash

(* NPortTask::Listen(): accept() returns a connection and gives it an agent, *)
(* or fails, and the port is never listened to again.                        *)
NPortListen(c) ==
    /\ nport = "listening" /\ apc[c] = "pending"
    /\ \/ Goto(c, "read")
       \/ nport' = "failed" /\ UNCHANGED <<alive, apc>>
    /\ UNCHANGED <<files, ids, handler, parser, connection, terminations>>

(* CommandIDs::Delete(). *)
Deleted(id) == command_ids \ {id}

(* TPortTask::Listen(), its AgentTask and HandleRequest(TerminateRequest):   *)
(* the id is removed whoever owns it.  If the client's connect() or the      *)
(* server's accept() fails, now or before, the request is lost.              *)
Terminate(t) ==
    /\ t \in terminations
    /\ terminations' = terminations \ {t}
    /\ command_ids' = Deleted(t.id) \/ UNCHANGED command_ids
    /\ UNCHANGED <<process, files, next_id, apc, handler, parser, connection>>

-----------------------------------------------------------------------------
(* Agent::ReadNextMessage() and Agent::DispatchMessage(). *)

(* The requests a message can be taken for.  FileContents reads as a get if  *)
(* its data happens to parse as a GetRequest (of a name nobody chose), and   *)
(* not at all otherwise.                                                     *)
AsRequest(m) ==
    CASE m.type = "request" -> {m}
      [] m.type = "contents" -> {Request("get", NoFile), Request("none", NoFile)}

Dispatch(c, m) ==
    \E r \in AsRequest(m) :
        /\ command' = [command EXCEPT ![c] = r.kind]
        /\ file' = [file EXCEPT ![c] = r.file]
        /\ Goto(c, CASE r.kind \in {"get", "put"} -> "load"
                     [] r.kind = "none" -> "ended"
                     [] r.kind = "del" -> "del"
                     [] OTHER -> "other")
        /\ Disturbed(c, m.type # "request", "contents_as_request")

ReadNextMessage(c) ==
    /\ apc[c] = "read"
    /\ \/ /\ parser[c] # <<>>
          /\ Dispatch(c, Head(parser[c]))
          /\ parser' = [parser EXCEPT ![c] = Tail(@)]
          /\ UNCHANGED to_agent
       \/ /\ parser[c] = <<>>
          /\ \E n \in 1..Len(to_agent[c]) :
                /\ Dispatch(c, Head(to_agent[c]))
                /\ parser' = [parser EXCEPT ![c] = SubSeq(to_agent[c], 2, n)]
                /\ to_agent' = [to_agent EXCEPT ![c] = SubSeq(@, n + 1, Len(@))]
       \/ /\ parser[c] = <<>> /\ to_agent[c] = <<>> /\ ~open[c]
          /\ Goto(c, "ended")
          /\ UNCHANGED <<command, file, parser, to_agent, out_of_step>>
    /\ UNCHANGED <<files, ids, cid, loaded, terminated, sender, receiver, contents, late,
                   to_client, open, terminations>>

-----------------------------------------------------------------------------
(* CommandIDs::GenerateID() and Insert(): only Contains() and Insert() lock. *)

(* id_++ is a read and a write. *)
GenerateLoad(c) ==
    /\ apc[c] = "load" /\ Goto(c, "store")
    /\ loaded' = [loaded EXCEPT ![c] = next_id]
    /\ UNCHANGED <<files, ids, command, file, cid, terminated, sender, receiver, contents,
                   late, parser, connection, terminations>>

GenerateStore(c) ==
    /\ apc[c] = "store" /\ Goto(c, "check")
    /\ next_id' = (loaded[c] + 1) % IdModulus
    /\ loaded' = [loaded EXCEPT ![c] = 0]
    /\ UNCHANGED <<files, command_ids, command, file, cid, terminated, sender, receiver,
                   contents, late, parser, connection, terminations>>

GenerateCheck(c) ==
    /\ apc[c] = "check" /\ Goto(c, IF next_id \in command_ids THEN "load" ELSE "take")
    /\ UNCHANGED <<files, ids, handler, parser, connection, terminations>>

(* id_ is read once more for the result. *)
GenerateTake(c) ==
    /\ apc[c] = "take" /\ Goto(c, "insert")
    /\ cid' = [cid EXCEPT ![c] = next_id]
    /\ UNCHANGED <<files, ids, command, file, loaded, terminated, sender, receiver, contents,
                   late, parser, connection, terminations>>

Insert(c) ==
    /\ apc[c] = "insert" /\ Goto(c, "respond")
    /\ command_ids' = command_ids \cup {cid[c]}
    /\ late' = [d \in Clients |-> IF cid[d] = cid[c] THEN 0 ELSE late[d]]
    /\ UNCHANGED <<files, next_id, command, file, cid, loaded, terminated, sender, receiver,
                   contents, parser, connection, terminations>>

GenerateID(c) ==
    GenerateLoad(c) \/ GenerateStore(c) \/ GenerateCheck(c) \/ GenerateTake(c) \/ Insert(c)

(* SendResponse() of a get or a put, whose result is not looked at. *)
RespondWithId(c) ==
    /\ apc[c] = "respond"
    /\ LET next == IF command[c] = "get" THEN "open" ELSE "check_received"
       IN  Send(c, Response(command[c], cid[c]), next, next)
    /\ UNCHANGED <<files, ids, handler, parser, to_agent, open, out_of_step, terminations>>

-----------------------------------------------------------------------------
(* HandleRequest(GetRequest). *)

(* FileHandler::Get() of a file that cannot be read is empty. *)
Stored(f) == IF f \in Files /\ files[f] # Missing THEN files[f] ELSE <<>>

(* The loop of SendFileContents(), lines 185-186. *)
SendLabel(s, stop) == IF SentCompleteFile(s) \/ stop THEN "delete" ELSE "send"

(* Reading a directory throws. *)
OpenFile(c) ==
    /\ apc[c] = "open"
    /\ \/ /\ sender' = [sender EXCEPT ![c] = SetFileContents(Stored(file[c]))]
          /\ Goto(c, SendLabel(sender'[c], FALSE))
       \/ Crash /\ UNCHANGED sender
    /\ UNCHANGED <<files, ids, command, file, cid, loaded, terminated, receiver, contents,
                   late, parser, connection, terminations>>

(* Mutant: after a failed send the handler returns at once. *)
ReturnAtOnce == "ended"

(* Lines 191 and 227: a failed send ends the session, but after Delete(). *)
AfterFailedSend == "abort"

(* A chunk is carried: history for StopsSoon. *)
Carried(c) == late' = [late EXCEPT ![c] = IF cid[c] \in command_ids THEN 0 ELSE @ + 1]

(* Line 187. *)
SendChunk(c) ==
    /\ apc[c] = "send"
    /\ Send(c, NextChunk(sender[c]), "check_sent", AfterFailedSend)
    /\ sender' = [sender EXCEPT ![c] = AfterChunk(@)]
    /\ Carried(c)
    /\ UNCHANGED <<files, ids, command, file, cid, loaded, terminated, receiver, contents,
                   parser, to_agent, open, out_of_step, terminations>>

(* Mutant: the command is looked up once, before the first chunk. *)
NeverTerminated(c) == FALSE

IsTerminated(c) == cid[c] \notin command_ids

(* Line 198, then lines 185-186. *)
CheckSent(c) ==
    /\ apc[c] = "check_sent" /\ Goto(c, SendLabel(sender[c], IsTerminated(c)))
    /\ UNCHANGED <<files, ids, handler, parser, connection, terminations>>

-----------------------------------------------------------------------------
(* HandleRequest(PutRequest) and ReadFileContents(). *)

(* Line 64. *)
CheckReceived(c) ==
    /\ apc[c] = "check_received" /\ Goto(c, "receive")
    /\ terminated' = [terminated EXCEPT ![c] = IsTerminated(c)]
    /\ UNCHANGED <<files, ids, command, file, cid, loaded, sender, receiver, contents, late,
                   parser, connection, terminations>>

(* Mutant: a terminated command leaves what has come so far. *)
ContentsSoFar(r, stopped) == r.file_contents

(* Lines 74-85 return without contents, line 90 with all of them. *)
ContentsRead(r, stopped) == IF stopped THEN <<>> ELSE r.file_contents

(* Lines 68-90 for the message m: a chunk without data is taken for the end  *)
(* of the connection, and `terminated' is older than the chunk.  When the    *)
(* loop ends the receiver is gone, with the messages it has read too much.   *)
(* The last recv() may have taken the beginning of a message whose rest is   *)
(* on its way; then CleanUp() of a terminated command goes on receiving.     *)
TakeChunk(c, m, behind) ==
    LET r == WithChunk(receiver[c], m, behind)
        stopped == ChunkLength(m) = 0 \/ terminated[c]
        over == stopped \/ HasCompleteFile(r)
    IN  /\ contents' = [contents EXCEPT ![c] = IF over THEN ContentsRead(r, stopped) ELSE <<>>]
        /\ receiver' = [receiver EXCEPT ![c] = IF over THEN NewReceiver ELSE r]
        /\ \/ Goto(c, IF over THEN "write" ELSE "check_received")
           \/ terminated[c] /\ ChunkLength(m) # 0 /\ to_agent'[c] # <<>> /\ Goto(c, "clean")
        /\ Disturbed(c, over /\ \E i \in 1..Len(behind) : behind[i].type = "request",
                     "request_dropped")

ReceiveChunk(c) ==
    /\ apc[c] = "receive"
    /\ \/ /\ receiver[c].parser # <<>>
          /\ UNCHANGED to_agent
          /\ TakeChunk(c, Head(receiver[c].parser), Tail(receiver[c].parser))
          /\ Carried(c)
       \/ /\ receiver[c].parser = <<>>
          /\ \E n \in 1..Len(to_agent[c]) :
                /\ to_agent' = [to_agent EXCEPT ![c] = SubSeq(@, n + 1, Len(@))]
                /\ TakeChunk(c, Head(to_agent[c]), SubSeq(to_agent[c], 2, n))
          /\ Carried(c)
       \/ /\ receiver[c].parser = <<>> /\ to_agent[c] = <<>> /\ ~open[c]
          /\ Goto(c, "write")
          /\ receiver' = [receiver EXCEPT ![c] = NewReceiver]
          /\ UNCHANGED <<contents, late, to_agent, out_of_step>>
    /\ terminated' = [terminated EXCEPT ![c] = FALSE]
    /\ UNCHANGED <<files, ids, command, file, cid, loaded, sender, parser, to_client, open,
                   terminations>>

(* ChunkedFileReceiver::CleanUp(): it drops the message it holds a part of,  *)
(* with those that the same recv() returns, and goes on if the last of them  *)
(* is again in part.  The rest comes: what was sent before a close() is      *)
(* read.                                                                     *)
CleanUp(c) ==
    /\ apc[c] = "clean"
    /\ \E n \in 1..Len(to_agent[c]) :
          /\ to_agent' = [to_agent EXCEPT ![c] = SubSeq(@, n + 1, Len(@))]
          /\ Goto(c, "write") \/ (to_agent'[c] # <<>> /\ Goto(c, "clean"))
          /\ Disturbed(c, \E i \in 1..n : to_agent[c][i].type = "request",
                       "request_dropped")
    /\ UNCHANGED <<files, ids, handler, parser, to_client, open, terminations>>

(* Line 252.  FileHandler::Put() reports success also if it could not open   *)
(* the file, so the branch that would return with the id still in the set is *)
(* never taken.                                                              *)
WriteFile(c) ==
    /\ apc[c] = "write" /\ Goto(c, "delete")
    /\ \/ file[c] \in Files /\ files' = [files EXCEPT ![file[c]] = contents[c]]
       \/ UNCHANGED files
    /\ contents' = [contents EXCEPT ![c] = <<>>]
    /\ UNCHANGED <<ids, command, file, cid, loaded, terminated, sender, receiver, late,
                   parser, connection, terminations>>

(* The request has been handled; its variables go out of scope. *)
Forget(c) ==
    /\ command' = [command EXCEPT ![c] = "other"]
    /\ file' = [file EXCEPT ![c] = NoFile]

(* Lines 227-228 and 258-259: Delete() the id, wherever it has come from. *)
EndCommand(c) ==
    /\ \/ apc[c] = "delete" /\ Goto(c, "read")
       \/ apc[c] = "abort" /\ Goto(c, "ended")
    /\ command_ids' = Deleted(cid[c])
    /\ Forget(c)
    /\ cid' = [cid EXCEPT ![c] = 0]
    /\ sender' = [sender EXCEPT ![c] = SetFileContents(<<>>)]
    /\ late' = [late EXCEPT ![c] = 0]
    /\ UNCHANGED <<files, next_id, loaded, terminated, receiver, contents, parser,
                   connection, terminations>>

-----------------------------------------------------------------------------
(* The requests that are answered at once. *)

(* HandleRequest(DeleteRequest): remove() of a missing file reports failure,  *)
(* which ends the session; of a directory with entries it throws.            *)
HandleDelete(c) ==
    /\ apc[c] = "del"
    /\ \/ /\ file[c] \in Files /\ files[file[c]] # Missing
          /\ files' = [files EXCEPT ![file[c]] = Missing]
          /\ Goto(c, "reply")
       \/ /\ file[c] \in Files => files[file[c]] = Missing
          /\ Goto(c, "ended") /\ UNCHANGED files
       \/ Crash /\ UNCHANGED files
    /\ UNCHANGED <<ids, handler, parser, connection, terminations>>

(* List, change, make and print directory: each succeeds, or ends the        *)
(* session, or throws (List() of a directory that `cd' did not check).       *)
HandleOther(c) ==
    /\ apc[c] = "other"
    /\ Goto(c, "reply") \/ Goto(c, "ended") \/ Crash
    /\ UNCHANGED <<files, ids, handler, parser, connection, terminations>>

Reply(c) ==
    /\ apc[c] = "reply"
    /\ Send(c, Response(command[c], 0), "read", "ended")
    /\ Forget(c)
    /\ UNCHANGED <<files, ids, cid, loaded, terminated, sender, receiver, contents, late, parser,
                   to_agent, open, out_of_step, terminations>>

Agent(c) ==
    \/ ReadNextMessage(c) \/ GenerateID(c) \/ RespondWithId(c)
    \/ OpenFile(c) \/ SendChunk(c) \/ CheckSent(c)
    \/ CheckReceived(c) \/ ReceiveChunk(c) \/ CleanUp(c) \/ WriteFile(c)
    \/ EndCommand(c)
    \/ HandleDelete(c) \/ HandleOther(c) \/ Reply(c)

=============================================================================
