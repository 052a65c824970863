-------------------------------- MODULE Ftp --------------------------------
(***************************************************************************)
(* The FTP client (src/project1_2/client) and its composition with the     *)
(* server: the shell, and the upload, download and terminate tasks that it *)
(* gives to a thread pool, all on one socket.                              *)
(*                                                                         *)
(* A task runs step by step as module ThreadPool describes: a step is one  *)
(* RunAtomic() and the status update behind it, so a cancelled task may    *)
(* still finish the RunAtomic() it is in.  The user types anything the     *)
(* shell accepts, MaxCommands commands in all.  A client uploads a file of *)
(* its own and keeps its downloads apart from it.                          *)
(***************************************************************************)
EXTENDS FtpServer

CONSTANTS
    Piece,          \* the pieces that files are made of
    InitialFiles,   \* what is on the server's disk at first
    Source,         \* the contents of the file a client uploads
    MaxCommands     \* bound: the commands all users type together

ASSUME ContentsAssumption ==
    /\ InitialFiles \in [Files -> {Missing} \cup Seq(Piece)]
    /\ Source \in [Clients -> Seq(Piece)]
ASSUME CommandsAssumption == MaxCommands \in Nat

VARIABLES
    shell,          \* where FtpShell() is
    request,        \* its `r'
    forking,        \* InputParser::IsForking()
    tasks,          \* the UploadTasks and DownloadTasks of each client's pool
    get_task,       \* the index of the last get's task, which r_old stands for; 0 is none
    awaited,        \* the task the shell waits for; 0 is none
    saved,          \* what each client's last download has saved
    issued          \* the number of commands typed

client_vars == <<shell, request, forking, tasks, get_task, awaited, saved, issued>>
vars == <<server_vars, client_vars>>

UploadTask(c) ==
    [kind |-> "put", status |-> "RUNNING", cancelled |-> FALSE, cleaning |-> FALSE,
     socket |-> SetFileContents(Serialized(Source[c]))]

DownloadTask ==
    [kind |-> "get", status |-> "RUNNING", cancelled |-> FALSE, cleaning |-> FALSE,
     socket |-> NewReceiver]

Init ==
    /\ ServerInit
    /\ files = InitialFiles
    /\ shell = [c \in Clients |-> "new"]
    /\ request = [c \in Clients |-> Request("other", NoFile)]
    /\ forking = [c \in Clients |-> FALSE]
    /\ tasks = [c \in Clients |-> <<>>]
    /\ get_task = [c \in Clients |-> 0] /\ awaited = [c \in Clients |-> 0]
    /\ saved = [c \in Clients |-> <<>>]
    /\ issued = 0

-----------------------------------------------------------------------------
(* Client::Connect(); the program ends if it fails. *)
Connect(c) ==
    /\ shell[c] = "new" /\ alive
    /\ shell' = [shell EXCEPT ![c] = "prompt"]
    /\ open' = [open EXCEPT ![c] = TRUE]
    /\ apc' = [apc EXCEPT ![c] = "pending"]
    /\ UNCHANGED <<process, files, ids, handler, parser, to_agent, to_client, out_of_step,
                   terminations, request, forking, tasks, get_task, awaited, saved, issued>>

(* The client's end is closed: by quit, or because the process dies. *)
Leave(c, how) ==
    /\ shell' = [shell EXCEPT ![c] = how]
    /\ open' = [open EXCEPT ![c] = FALSE]
    /\ to_client' = [to_client EXCEPT ![c] = <<>>]

(* send() of m to the agent, followed by the shell at `next'.  Once the agent *)
(* has ended the message is lost, or SIGPIPE ends the client.                 *)
SendToAgent(c, m, next) ==
    \/ /\ apc[c] # "ended" => HasRoom(to_agent[c])
       /\ to_agent' = [to_agent EXCEPT ![c] = IF apc[c] = "ended" THEN @ ELSE Append(@, m)]
       /\ shell' = [shell EXCEPT ![c] = next]
       /\ UNCHANGED <<open, to_client>>
    \/ apc[c] = "ended" /\ Leave(c, "dead") /\ UNCHANGED to_agent

Running(c) == {i \in 1..Len(tasks[c]) : tasks[c][i].status = "RUNNING"}

MayType(c) == shell[c] = "prompt" /\ issued < MaxCommands

(* The requests that InputParser::CreateReq() makes for the server. *)
Requests ==
    {Request(k, f) : k \in {"get", "put", "del"}, f \in Files} \cup {Request("other", NoFile)}

(* InputParser: a command line and whether it ends in "&", which only a get *)
(* and a put look at.                                                       *)
CommandLines ==
    {l \in Requests \X BOOLEAN : l[2] => l[1].kind \in {"get", "put"}}

(* FtpShell(), lines 149-150: SendReq(), whose result is not looked at. *)
TypeRequest(c) ==
    /\ MayType(c)
    /\ \E l \in CommandLines :
          /\ request' = [request EXCEPT ![c] = l[1]]
          /\ forking' = [forking EXCEPT ![c] = l[2]]
          /\ SendToAgent(c, l[1], "response")
    /\ issued' = issued + 1
    /\ Disturbed(c, Running(c) # {}, "typed_during_transfer")
    /\ UNCHANGED <<process, files, ids, apc, handler, parser, terminations, tasks, get_task,
                   awaited, saved>>

(* Lines 129-138: r_old is set by a get only (line 175), so what terminate   *)
(* cancels is the last download, and never an upload.                        *)
TaskToCancel(c) == get_task[c]

(* Lines 124-141, with TerminateTask, which sends the request on a           *)
(* connection of its own; the user may name any id.                          *)
TypeTerminate(c) ==
    /\ MayType(c)
    /\ \E n \in 0..(IdModulus - 1) :
          terminations' = terminations \cup {[number |-> issued, id |-> n]}
    /\ issued' = issued + 1
    /\ LET i == TaskToCancel(c)
       IN  \/ i = 0 /\ UNCHANGED <<shell, tasks, awaited>>
           \/ /\ i # 0
              /\ tasks' = [tasks EXCEPT ![c][i].cancelled = TRUE]
              /\ awaited' = [awaited EXCEPT ![c] = i]
              /\ shell' = [shell EXCEPT ![c] = "waiting"]
    /\ UNCHANGED <<process, files, ids, apc, handler, parser, connection, request, forking,
                   get_task, saved>>

(* Lines 142-148: the socket is closed under the tasks that still use it. *)
TypeQuit(c) ==
    /\ MayType(c)
    /\ Leave(c, "closed")
    /\ issued' = issued + 1
    /\ UNCHANGED <<process, files, ids, apc, handler, parser, to_agent, out_of_step, terminations,
                   request, forking, tasks, get_task, awaited, saved>>

(* Lines 153-176, behind WaitForMessage() and HandleResponse(): whatever the *)
(* response was, the transfer begins, and the shell waits unless forking.    *)
AfterResponse(c) ==
    /\ \/ /\ request[c].kind = "put"
          /\ tasks' = [tasks EXCEPT ![c] = Append(@, UploadTask(c))]
          /\ UNCHANGED get_task
       \/ /\ request[c].kind = "get"
          /\ tasks' = [tasks EXCEPT ![c] = Append(@, DownloadTask)]
          /\ get_task' = [get_task EXCEPT ![c] = Len(tasks[c]) + 1]
       \/ request[c].kind \in {"del", "other"} /\ UNCHANGED <<tasks, get_task>>
    /\ LET waits == request[c].kind \in {"get", "put"} /\ ~forking[c]
       IN  /\ shell' = [shell EXCEPT ![c] = IF waits THEN "waiting" ELSE "prompt"]
           /\ awaited' = [awaited EXCEPT ![c] = IF waits THEN Len(tasks[c]) + 1 ELSE 0]
    /\ request' = [request EXCEPT ![c] = Request("other", NoFile)]
    /\ forking' = [forking EXCEPT ![c] = FALSE]

(* Mutant: the end of the connection is taken for a timeout. *)
WaitOn(c) == FALSE

(* Line 52: recv() reports that the agent has closed the connection. *)
HasEnded(c) == to_client[c] = <<>> /\ apc[c] = "ended"

(* WaitForMessage(): one recv() may take more than the response; what is     *)
(* behind it goes with the next ResetParser().  The end of the connection is *)
(* not reported to anybody.                                                  *)
WaitForMessage(c) ==
    /\ shell[c] = "response"
    /\ \/ \E n \in 1..Len(to_client[c]) :
             /\ to_client' = [to_client EXCEPT ![c] = SubSeq(@, n + 1, Len(@))]
             /\ Disturbed(c, \E i \in 1..n : to_client[c][i].type = "contents",
                          "contents_dropped")
       \/ HasEnded(c) /\ UNCHANGED <<to_client, out_of_step>>
    /\ AfterResponse(c)
    /\ UNCHANGED <<process, files, ids, apc, handler, parser, to_agent, open, terminations,
                   saved, issued>>

(* WaitForCompletion(task) returns. *)
TaskCompleted(c) ==
    /\ shell[c] = "waiting"
    /\ awaited[c] \notin Running(c)
    /\ shell' = [shell EXCEPT ![c] = "prompt"]
    /\ awaited' = [awaited EXCEPT ![c] = 0]
    /\ UNCHANGED <<server_vars, request, forking, tasks, get_task, saved, issued>>

Shell(c) == WaitForMessage(c) \/ TaskCompleted(c)

-----------------------------------------------------------------------------
(* The tasks. *)

(* RunAtomic() has returned `status'; cancellation overrides it.  A task     *)
(* that has ended is done with its socket, and drops what its receiver has   *)
(* read; `cleaning' says that this ends in part of a message, so that its    *)
(* CleanUp() is still to receive the rest: the status is known before.       *)
Returns(c, i, status, socket, cleaning) ==
    LET final == IF tasks[c][i].cancelled THEN "CANCELLED" ELSE status
    IN  tasks' = [tasks EXCEPT ![c][i] =
                     [@ EXCEPT !.status = final,
                               !.socket = IF final = "RUNNING" THEN socket ELSE NewReceiver,
                               !.cleaning = final # "RUNNING" /\ cleaning]]

(* UploadTask::RunAtomic().  When the shell has closed the socket, send() fails. *)
UploadRun(c, i) ==
    LET s == tasks[c][i].socket
    IN  /\ tasks[c][i].kind = "put" /\ i \in Running(c) /\ shell[c] # "dead"
        /\ \/ /\ ~open[c]
              /\ Returns(c, i, "FAILED", s, FALSE)
              /\ UNCHANGED <<to_agent, to_client, open, shell>>
           \/ /\ open[c] /\ SentCompleteFile(s)
              /\ Returns(c, i, "DONE", s, FALSE)
              /\ UNCHANGED <<to_agent, to_client, open, shell>>
           \/ /\ open[c] /\ ~SentCompleteFile(s)
              /\ SendToAgent(c, NextChunk(s), shell[c])
              /\ Returns(c, i, "RUNNING", AfterChunk(s), FALSE)
           \/ /\ open[c] /\ ~SentCompleteFile(s) /\ apc[c] = "ended"
              /\ Returns(c, i, "FAILED", s, FALSE)
              /\ UNCHANGED <<to_agent, to_client, open, shell>>
        /\ UNCHANGED <<process, files, ids, apc, handler, parser, out_of_step, terminations,
                       request, forking, get_task, awaited, saved, issued>>

(* The last recv() may have taken the beginning of a message whose rest is on *)
(* its way.                                                                   *)
MayHoldPart(c) == {FALSE, to_client'[c] # <<>>}

(* Lines 16-31 for the message m: a chunk without data counts as the end. *)
TakeDownload(c, i, m, behind) ==
    \E part \in MayHoldPart(c) :
        Returns(c, i, IF ChunkLength(m) = 0 THEN "DONE" ELSE "RUNNING",
                WithChunk(tasks[c][i].socket, m, behind), part)

(* DownloadTask::RunAtomic(). *)
DownloadRun(c, i) ==
    LET r == tasks[c][i].socket
    IN  /\ tasks[c][i].kind = "get" /\ i \in Running(c) /\ shell[c] # "dead"
        /\ \/ /\ HasCompleteFile(r)
              /\ saved' = [saved EXCEPT ![c] = r.file_contents]
              /\ Returns(c, i, "DONE", r, FALSE)
              /\ UNCHANGED to_client
           \/ /\ ~HasCompleteFile(r) /\ r.parser # <<>>
              /\ UNCHANGED <<saved, to_client>>
              /\ TakeDownload(c, i, Head(r.parser), Tail(r.parser))
           \/ /\ ~HasCompleteFile(r) /\ r.parser = <<>>
              /\ \E n \in 1..Len(to_client[c]) :
                    /\ to_client' = [to_client EXCEPT ![c] = SubSeq(@, n + 1, Len(@))]
                    /\ TakeDownload(c, i, Head(to_client[c]), SubSeq(to_client[c], 2, n))
              /\ UNCHANGED saved
           \/ /\ ~HasCompleteFile(r) /\ r.parser = <<>>
              /\ UNCHANGED <<saved, to_client>>
              /\ IF ~open[c] \/ (apc[c] = "ended" /\ to_client[c] = <<>>)
                 THEN \E status \in {"DONE", "FAILED"} : Returns(c, i, status, r, FALSE)
                 ELSE /\ tasks[c][i].cancelled                         \* a timeout
                      /\ \E part \in MayHoldPart(c) : Returns(c, i, "RUNNING", r, part)
        /\ UNCHANGED <<process, files, ids, apc, handler, parser, to_agent, open, out_of_step,
                       terminations, shell, request, forking, get_task, awaited, issued>>

(* DownloadTask::CleanUp(), behind the final status: the messages it drops,  *)
(* and the one it then holds in part, may be a later command's.  It ends,    *)
(* too, when recv() fails or times out.                                      *)
DownloadCleanUp(c, i) ==
    /\ tasks[c][i].cleaning /\ shell[c] # "dead"
    /\ \/ \E n \in 1..Len(to_client[c]) :
             /\ to_client' = [to_client EXCEPT ![c] = SubSeq(@, n + 1, Len(@))]
             /\ \E part \in MayHoldPart(c) :
                   /\ tasks' = [tasks EXCEPT ![c][i].cleaning = part]
                   /\ Disturbed(c, \E k \in 1..Len(to_client[c]) :
                                       /\ k <= n \/ (part /\ k = n + 1)
                                       /\ to_client[c][k].type = "response",
                                "response_dropped")
       \/ /\ tasks' = [tasks EXCEPT ![c][i].cleaning = FALSE]
          /\ UNCHANGED <<to_client, out_of_step>>
    /\ UNCHANGED <<process, files, ids, apc, handler, parser, to_agent, open, terminations,
                   shell, request, forking, get_task, awaited, saved, issued>>

RunTask(c) ==
    \E i \in 1..Len(tasks[c]) : UploadRun(c, i) \/ DownloadRun(c, i) \/ DownloadCleanUp(c, i)

-----------------------------------------------------------------------------
Server(c) == NPortListen(c) \/ Agent(c)

Next ==
    \/ \E c \in Clients : Server(c) /\ UNCHANGED client_vars
    \/ \E t \in terminations : Terminate(t) /\ UNCHANGED client_vars
    \/ \E c \in Clients :
          Connect(c) \/ TypeRequest(c) \/ TypeTerminate(c) \/ TypeQuit(c) \/ Shell(c)
          \/ RunTask(c)

(* Threads are scheduled and connections that were made are accepted.  No    *)
(* user has to type anything.                                                *)
Fairness ==
    /\ \A c \in Clients :
          /\ WF_vars(Server(c) /\ UNCHANGED client_vars)
          /\ WF_vars(Shell(c))
          /\ WF_vars(RunTask(c))
    /\ WF_vars(\E t \in terminations : Terminate(t) /\ UNCHANGED client_vars)

Spec == Init /\ [][Next]_vars
FairSpec == Spec /\ Fairness

-----------------------------------------------------------------------------
(* Each side has taken every message for what it was, and dropped none. *)
InStep(c) == out_of_step[c] = "no"

(* What a whole file looks like: one that was there, or a client's upload.   *)
WholeFiles ==
    {InitialFiles[f] : f \in Files} \cup {Serialized(Source[c]) : c \in Clients} \cup {<<>>}

(* Whatever is terminated, broken off or done at once by others, a file      *)
(* changes on the server only into a whole upload, or an empty file, or      *)
(* nothing; and a client saves only whole files: a stopped command leaves no *)
(* part of a file (agent.cpp:79-90 and 252, download_task.cpp:15), unless    *)
(* its own connection has been used out of step.                             *)
TransfersAreWhole ==
    [][/\ \A f \in Files : files'[f] # files[f] =>
             \/ files'[f] \in WholeFiles \cup {Missing}
             \/ \E c \in Clients : apc[c] = "write" /\ file[c] = f /\ ~InStep(c)
       /\ \A c \in Clients : saved'[c] # saved[c] =>
             saved'[c] \in WholeFiles \/ \E d \in Clients : ~InStep(d)]_vars

(* An active id is the id of a command in progress: no way out of a handler  *)
(* leaves its id behind, so GenerateID() never runs out of ids, although ids *)
(* are shared and removed by number (agent.cpp:213-258, command_ids.cpp).    *)
IdsAreAccounted ==
    alive => command_ids \subseteq {cid[c] : c \in {d \in Clients : apc[d] \in Holding}}

(* Termination ends the transfer at once: after the id of a command has been *)
(* removed the loop of a get sends at most one more chunk, and that of a put *)
(* takes at most two (the check of agent.cpp:198 follows a chunk, the one of *)
(* line 64 is older).  Chunks that CleanUp() of a put reads only to drop     *)
(* them (line 81) do not count: it goes on as long as recv() cuts a message. *)
(* Only a command that has drawn the same id and registers it after the      *)
(* removal makes the terminated one go on.                                   *)
StopsSoon ==
    \A c \in Clients : late[c] <= (IF command[c] = "put" THEN 2 ELSE 1)

(* A command is being handled: its agent is busy, or its shell waits for the *)
(* response.                                                                 *)
Busy(c) ==
    \/ shell[c] = "response"
    \/ apc[c] \notin {"none", "pending", "read", "ended"}

(* The agent waits in send() for a client that has nothing left to read with. *)
Unread(c) ==
    /\ apc[c] \in {"respond", "send", "reply"} /\ open[c] /\ ~HasRoom(to_client[c])
    /\ shell[c] # "response"
    /\ \A i \in 1..Len(tasks[c]) :
          tasks[c][i].kind = "get" => i \notin Running(c) /\ ~tasks[c][i].cleaning

(* Every command comes to an end at the server and is answered, also when it *)
(* is terminated, fails, or its client or the whole server goes away, if the *)
(* connection was accepted and stays in step: the shell gets a response or   *)
(* learns that there will be none, and the agent goes back to its loop.  The *)
(* exception is a get whose download has been cancelled while the agent goes *)
(* on (the terminate was lost or named another id): it may wait in send()    *)
(* until the client leaves (chunked_file_sender.cpp:52).                     *)
CommandsEnd ==
    \A c \in Clients :
        Busy(c) ~> (~Busy(c) \/ ~InStep(c) \/ apc[c] = "pending" \/ Unread(c))

-----------------------------------------------------------------------------
(* What the documentation says and the code does not do. *)

(* agent.h:51: "Handles this particular client, until the client             *)
(* disconnects."  A client that types one command after the other has its    *)
(* requests answered, as far as WaitForMessage() takes nothing but responses *)
(* (client.cpp:51).                                                          *)
PlainRequestsAreAnswered ==
    LET Plain(c) == out_of_step[c] \in {"no", "request_dropped"} /\ apc[c] # "pending"
    IN  \A c \in Clients :
            (shell[c] = "response" /\ Plain(c)) ~> (shell[c] # "response" \/ ~Plain(c))
=============================================================================
