----------------------------- MODULE Receiving -----------------------------
(***************************************************************************)
(* How a message_passing::Node receives (src/common/message_passing,       *)
(* node.h and tasks/receiver_task.cpp).  A ReceiverTask for each endpoint  *)
(* reads its socket and pushes the pieces on receive_queue_, which all     *)
(* endpoints share; Receive() feeds the pieces of one endpoint to a parser *)
(* until it has a message, and keeps the others for later.                 *)
(*                                                                         *)
(* The queue has no limit, so a Push or a Pop is one step (module Queue).  *)
(* One thread calls Receive(): un_processed_messages_ is not protected.    *)
(* A Client has one endpoint, a Server one for each of its clients.        *)
(* EnsureConnected() has succeeded: a call that fails there does nothing.  *)
(***************************************************************************)
EXTENDS MessageParser, SequencesExt

CONSTANTS
    Endpoints, NoEndpoint,
    Messages,           \* what may be sent, each a sequence of bytes
    MaxSends,           \* bound: messages sent
    ReceiveChunkSize    \* kReceiveChunkSize

ASSUME MessagesAssumption ==
    /\ NoEndpoint \notin Endpoints
    /\ \A m \in Messages : m \in Seq(Byte) /\ Len(m) \in MessageLength
    /\ MaxSends \in Nat /\ ReceiveChunkSize \in Nat \ {0}

VARIABLES
    sent,           \* the messages each endpoint has sent
    wire,           \* the bytes on their way from it
    link,           \* its end of the connection
    task,           \* the status of its ReceiverTask
    receive_queue,
    un_processed,   \* un_processed_messages_
    pc,             \* "idle", or "receiving" in the loop of DoReceive()
    local,          \* un_processed_messages
    reading,        \* reading_endpoint, once it is set
    parser,
    received        \* the messages returned by Receive(), for each endpoint

peers == <<sent, wire, link>>
locals == <<pc, local, reading, parser>>
vars == <<peers, task, receive_queue, un_processed, locals, received>>

Piece == [message : Seq(Byte), endpoint : Endpoints, status : Int]

(* Members and locals hold values of their types; nothing is written past   *)
(* the end of partial_length_ (wire_protocol.h:231), and the parser's state *)
(* is the one its contents call for.                                        *)
TypeOK ==
    /\ sent \in [Endpoints -> Seq(Messages)] /\ wire \in [Endpoints -> Seq(Byte)]
    /\ link \in [Endpoints -> {"open", "closed", "reset"}]
    /\ task \in [Endpoints -> {"RUNNING", "FAILED"}]
    /\ receive_queue \in Seq(Piece) /\ un_processed \in Seq(Piece) /\ local \in Seq(Piece)
    /\ pc \in {"idle", "receiving"}
    /\ reading \in Endpoints \cup {NoEndpoint}
    /\ ParserOK(parser)
    /\ received \in [Endpoints -> Seq(Seq(Byte))]

Init ==
    /\ sent = [e \in Endpoints |-> <<>>] /\ wire = [e \in Endpoints |-> <<>>]
    /\ link = [e \in Endpoints |-> "open"] /\ task = [e \in Endpoints |-> "RUNNING"]
    /\ receive_queue = <<>> /\ un_processed = <<>>
    /\ pc = "idle" /\ local = <<>> /\ reading = NoEndpoint /\ parser = NewParser
    /\ received = [e \in Endpoints |-> <<>>]

-----------------------------------------------------------------------------
MessagesSent == SumFunction([e \in Endpoints |-> Len(sent[e])])

(* The other end: its SenderTask sends a serialized message whole. *)
PeerSends(e, m) ==
    /\ link[e] = "open" /\ MessagesSent < MaxSends
    /\ sent' = [sent EXCEPT ![e] = Append(@, m)]
    /\ wire' = [wire EXCEPT ![e] = @ \o Serialize(m)]
    /\ UNCHANGED <<link, task, receive_queue, un_processed, locals, received>>

PeerCloses(e) ==
    /\ link[e] = "open"
    /\ link' = [link EXCEPT ![e] = "closed"]
    /\ UNCHANGED <<sent, wire, task, receive_queue, un_processed, locals, received>>

(* The connection breaks, and what was on its way is gone. *)
PeerResets(e) ==
    /\ link[e] = "open"
    /\ link' = [link EXCEPT ![e] = "reset"]
    /\ wire' = [wire EXCEPT ![e] = <<>>]
    /\ UNCHANGED <<sent, task, receive_queue, un_processed, locals, received>>

-----------------------------------------------------------------------------
(* What recv() may return: a part of what has come, 0 at the end of the     *)
(* stream, or -1 (a timeout, after which nothing has changed, is left out). *)
ReceiveResults(e) ==
    (1..Min2(Len(wire[e]), ReceiveChunkSize))
        \cup (IF link[e] = "closed" /\ wire[e] = <<>> THEN {0} ELSE {})
        \cup (IF link[e] = "reset" THEN {-1} ELSE {})

(* ReceiverTask::RunAtomic: the result goes on the queue, good or bad. *)
RunAtomic(e) ==
    /\ task[e] = "RUNNING"
    /\ \E n \in ReceiveResults(e) :
          /\ receive_queue' = Append(receive_queue,
                [message |-> FirstBytes(wire[e], n), endpoint |-> e, status |-> n])
          /\ wire' = [wire EXCEPT ![e] = IF n > 0 THEN BytesFrom(@, n) ELSE @]
          /\ task' = [task EXCEPT ![e] = IF n > 0 THEN "RUNNING" ELSE "FAILED"]
    /\ UNCHANGED <<sent, link, un_processed, locals, received>>

-----------------------------------------------------------------------------
(* DoReceive(), lines 118-127: the saved messages become a local copy. *)
Receive ==
    /\ pc = "idle"
    /\ pc' = "receiving"
    /\ local' = un_processed /\ un_processed' = <<>>
    /\ reading' = NoEndpoint /\ parser' = NewParser
    /\ UNCHANGED <<peers, task, receive_queue, received>>

(* Lines 131-137: the pieces saved earlier come before those on the queue. *)
Piece1 == Head(local \o receive_queue)
TakePiece ==
    /\ pc = "receiving" /\ ~HasCompleteMessage(parser) /\ local \o receive_queue # <<>>
    /\ receive_queue' = IF local = <<>> THEN Tail(receive_queue) ELSE receive_queue

LocalAfterTake == IF local = <<>> THEN <<>> ELSE Tail(local)

(* Lines 140-147: the first piece decides which endpoint is read. *)
IsForThisCall(piece) == reading \in {NoEndpoint, piece.endpoint}

(* A piece of another endpoint is saved. *)
SavePiece ==
    /\ TakePiece /\ ~IsForThisCall(Piece1)
    /\ un_processed' = Append(un_processed, Piece1)
    /\ local' = LocalAfterTake
    /\ UNCHANGED <<peers, task, pc, reading, parser, received>>

(* Line 154. *)
ParsePiece ==
    /\ TakePiece /\ IsForThisCall(Piece1) /\ Piece1.status > 0
    /\ reading' = Piece1.endpoint
    /\ parser' = AddNewData(parser, Piece1.message)
    /\ local' = LocalAfterTake
    /\ UNCHANGED <<peers, task, un_processed, pc, received>>

(* DoReceive() returns: the local copy and the parser are gone. *)
Return == pc' = "idle" /\ local' = <<>> /\ reading' = NoEndpoint /\ parser' = NewParser

(* Lines 149-152: the endpoint disconnected or failed. *)
ReceiveFails ==
    /\ TakePiece /\ IsForThisCall(Piece1) /\ Piece1.status <= 0
    /\ Return
    /\ UNCHANGED <<peers, task, un_processed, received>>

(* Lines 134-137: PopTimed, or the hours of Pop, are over and nothing came. *)
ReceiveTimesOut ==
    /\ pc = "receiving" /\ ~HasCompleteMessage(parser) /\ local \o receive_queue = <<>>
    /\ Return
    /\ UNCHANGED <<peers, task, receive_queue, un_processed, received>>

(* Mutant: what follows the message is forgotten. *)
SavedWithoutOverflow == un_processed

(* Lines 161-165: what follows the message is a piece for the next call. *)
SavedWithOverflow ==
    IF HasOverflow(parser)
    THEN Append(un_processed,
            [message |-> parser.overflow, endpoint |-> reading, status |-> Len(parser.overflow)])
    ELSE un_processed

(* Lines 157-166. *)
ReceiveReturns ==
    /\ pc = "receiving" /\ HasCompleteMessage(parser)
    /\ received' = [received EXCEPT ![reading] = Append(@, MessageOf(parser))]
    /\ un_processed' = SavedWithOverflow
    /\ Return
    /\ UNCHANGED <<peers, task, receive_queue>>

Next ==
    \/ \E e \in Endpoints :
          \/ \E m \in Messages : PeerSends(e, m)
          \/ PeerCloses(e) \/ PeerResets(e) \/ RunAtomic(e)
    \/ Receive \/ SavePiece \/ ParsePiece \/ ReceiveFails \/ ReceiveTimesOut \/ ReceiveReturns

Spec == Init /\ [][Next]_vars

(* Receiver tasks run (AddedTaskStarts of ThreadPool), the loop of DoReceive() *)
(* goes on, and the node's user asks for messages again and again.             *)
FairSpec ==
    /\ Spec
    /\ \A e \in Endpoints : WF_vars(RunAtomic(e))
    /\ WF_vars(Receive) /\ WF_vars(SavePiece \/ ParsePiece \/ ReceiveFails \/ ReceiveReturns)

-----------------------------------------------------------------------------
Stream(messages) == FlattenSeq([i \in DOMAIN messages |-> Serialize(messages[i])])

(* The bytes of the pieces of e, in their order. *)
BytesOf(e, pieces) ==
    FlattenSeq([i \in DOMAIN pieces |->
                   IF pieces[i].endpoint = e THEN pieces[i].message ELSE <<>>])

(* Every byte of e is in one place and in its order: in a message that was *)
(* returned, in the parser, among the saved pieces, on the queue or on the  *)
(* wire.                                                                    *)
Accounted(e) ==
    Stream(sent[e]) =
        Stream(received[e])
        \o (IF reading = e THEN BytesIn(parser) ELSE <<>>)
        \o BytesOf(e, un_processed \o local \o receive_queue) \o wire[e]

(* Whatever a peer sent on a connection that did not break is kept until it *)
(* is returned: un_processed_messages_ is "a buffer of all messages that    *)
(* have been received but not yet processed" (node.h:178).                  *)
NothingIsLost == \A e \in Endpoints : link[e] # "reset" => Accounted(e)

(* No step loses, repeats or moves a byte, however recv() cuts the streams, *)
(* but for a return that leaves pieces of the endpoint in the local copy or *)
(* a part of its message in the parser (node.h:119-166).                    *)
OnlyReturnsLose ==
    [][\A e \in Endpoints :
          Accounted(e) /\ ~Accounted(e)' =>
              \/ link'[e] = "reset"
              \/ /\ pc = "receiving" /\ pc' = "idle"
                 /\ \/ \E i \in DOMAIN local : local[i].endpoint = e
                    \/ reading = e /\ ~HasCompleteMessage(parser)]_vars

(* Receive() never waits for more while it has a whole message: also an     *)
(* empty one, one that ends with a piece, or one that came with the message *)
(* before (wire_protocol.h:143-204).                                        *)
CompleteIsNoticed ==
    ~HasCompleteMessage(parser) =>
        \A m \in Messages : ~IsPrefix(Serialize(m), BytesIn(parser))

(* Once the peers pause, every message has been returned, in the order of   *)
(* sending and with its own bytes, to a user who keeps asking, unless its   *)
(* connection breaks or an early return lost bytes, be they another         *)
(* endpoint's: Receive() may then wait for the rest of what is no message.  *)
EveryMessageIsReceived ==
    []<>(NothingIsLost => \A e \in Endpoints : link[e] = "reset" \/ received[e] = sent[e])
=============================================================================
