--------------------------- MODULE MessageParser ---------------------------
(***************************************************************************)
(* The wire format (src/common/wire_protocol): a message is its length, in *)
(* network byte order, followed by its bytes.  MessageParser takes a       *)
(* stream in pieces of any size.  Its methods are operators from a parser  *)
(* and its input to the parser afterwards.                                 *)
(*                                                                         *)
(* A message is the bytes protobuf gives for it; GetMessage returns them,  *)
(* and what protobuf makes of them is not modelled.                        *)
(***************************************************************************)
EXTENDS Integers, Sequences

CONSTANTS
    LengthBytes,    \* kNumLengthBytes
    ByteBase        \* 256 in the program

ASSUME FormatAssumption ==
    /\ LengthBytes \in Nat \ {0} /\ ByteBase \in Nat \ {0, 1}
    /\ ByteBase ^ LengthBytes \in Nat \ {0}

Byte == 0..(ByteBase - 1)
MessageLength == 0..(ByteBase ^ LengthBytes - 1)

(* htonl: the most significant byte first. *)
HostToNetwork(n) == [i \in 1..LengthBytes |-> (n \div ByteBase ^ (LengthBytes - i)) % ByteBase]

(* ntohl is its inverse. *)
NetworkToHost(bytes) == CHOOSE n \in MessageLength : HostToNetwork(n) = bytes

(* Positional notation: every length has its own bytes, and all bytes are   *)
(* those of a length.                                                       *)
ASSUME NotationAssumption ==
    /\ \A n \in MessageLength :
          HostToNetwork(n) \in Seq(Byte) /\ NetworkToHost(HostToNetwork(n)) = n
    /\ \A bytes \in [1..LengthBytes -> Byte] :
          NetworkToHost(bytes) \in MessageLength /\ HostToNetwork(NetworkToHost(bytes)) = bytes

Serialize(message) == HostToNetwork(Len(message)) \o message

-----------------------------------------------------------------------------
(* got_length_bytes_ is the length of partial_length: the bytes after it in *)
(* the array are never read.                                                *)
NewParser ==
    [state |-> "PARSING_LENGTH", partial_length |-> <<>>, partial_message |-> <<>>,
     expected_length |-> ByteBase ^ LengthBytes - 1, overflow |-> <<>>]

Parser ==
    [state : {"PARSING_LENGTH", "PARSING_MESSAGE", "PARSING_DONE"},
     partial_length : Seq(Byte), partial_message : Seq(Byte),
     expected_length : MessageLength, overflow : Seq(Byte)]

(* The class invariant: no more of each part than the format allows, and the *)
(* state tells which part is incomplete.                                     *)
ParserOK(p) ==
    /\ p \in Parser
    /\ p.state = "PARSING_LENGTH" =>
          Len(p.partial_length) < LengthBytes /\ p.partial_message = <<>> /\ p.overflow = <<>>
    /\ p.state # "PARSING_LENGTH" =>
          /\ Len(p.partial_length) = LengthBytes
          /\ p.expected_length = NetworkToHost(p.partial_length)
    /\ p.state = "PARSING_MESSAGE" =>
          Len(p.partial_message) < p.expected_length /\ p.overflow = <<>>
    /\ p.state = "PARSING_DONE" => Len(p.partial_message) = p.expected_length

(* The bytes a parser has taken. *)
BytesIn(p) == p.partial_length \o p.partial_message \o p.overflow

HasCompleteMessage(p) == p.state = "PARSING_DONE"
HasOverflow(p) == p.overflow # <<>>

Min2(m, n) == IF m <= n THEN m ELSE n
FirstBytes(data, n) == SubSeq(data, 1, n)
BytesFrom(data, offset) == SubSeq(data, offset + 1, Len(data))

(* Mutant: every piece is taken to begin with a whole length. *)
LengthBytesToCopyFresh(p, data) == Min2(Len(data), LengthBytes)

(* kLengthBytesToCopy. *)
LengthBytesToCopy(p, data) ==
    IF p.state = "PARSING_LENGTH"
    THEN Min2(Len(data), LengthBytes - Len(p.partial_length)) ELSE 0

ParseLength(p, data) ==
    LET partial_length == p.partial_length \o FirstBytes(data, LengthBytesToCopy(p, data))
    IN  IF p.state # "PARSING_LENGTH" THEN p
        ELSE IF Len(partial_length) = LengthBytes
        THEN [p EXCEPT !.partial_length = partial_length, !.state = "PARSING_MESSAGE",
                       !.expected_length = NetworkToHost(partial_length)]
        ELSE [p EXCEPT !.partial_length = partial_length]

(* kNumBytesToCopy, of what is left of the piece. *)
NumBytesToCopy(p, rest) ==
    IF p.state = "PARSING_MESSAGE"
    THEN Min2(Len(rest), p.expected_length - Len(p.partial_message)) ELSE 0

(* Mutant: a message is complete only if some of it has come. *)
IsCompleteIfNotEmpty(p, message) == Len(message) = p.expected_length /\ message # <<>>

(* Line 199. *)
IsComplete(p, message) == Len(message) = p.expected_length

ParseMessage(p, rest) ==
    LET message == p.partial_message \o FirstBytes(rest, NumBytesToCopy(p, rest))
    IN  IF p.state # "PARSING_MESSAGE" THEN p
        ELSE [p EXCEPT !.partial_message = message,
                       !.state = IF IsComplete(p, message) THEN "PARSING_DONE" ELSE @]

SaveOverflow(p, rest) ==
    IF p.state # "PARSING_DONE" THEN p ELSE [p EXCEPT !.overflow = @ \o rest]

AddNewData(p, data) ==
    LET p1 == ParseLength(p, data)
        rest1 == BytesFrom(data, LengthBytesToCopy(p, data))
        p2 == ParseMessage(p1, rest1)
        rest2 == BytesFrom(rest1, NumBytesToCopy(p1, rest1))
    IN  SaveOverflow(p2, rest2)

(* GetMessage: the message, and the parser with what follows it. *)
MessageOf(p) == p.partial_message
AfterGetMessage(p) == AddNewData(NewParser, p.overflow)
=============================================================================
