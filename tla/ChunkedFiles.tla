---------------------------- MODULE ChunkedFiles ----------------------------
(***************************************************************************)
(* The messages of the FTP programs and the classes ChunkedFileSender and  *)
(* ChunkedFileReceiver (src/common/chunked_files), which carry a file over *)
(* a socket in FileContents messages of at most ChunkSize pieces.          *)
(*                                                                         *)
(* A file is a sequence of pieces.  The socket carries Requests, Responses *)
(* and FileContents with nothing that tells them apart, so a reader takes  *)
(* whatever comes next for the kind it expects: AsFileContents is what the *)
(* protobuf parser makes of another kind of message.                       *)
(***************************************************************************)
EXTENDS Integers, Sequences

CONSTANTS
    ChunkSize,      \* kChunkSize, in pieces
    Header,         \* the piece Serialize() and protobuf put before a message
    Noise           \* a piece that is part of no file

ASSUME ChunkAssumption == ChunkSize \in Nat \ {0} /\ Header # Noise

(* Requests, Responses and FileContents (ftp_messages.proto). *)
Request(kind, file) == [type |-> "request", kind |-> kind, file |-> file]
Response(kind, id) == [type |-> "response", kind |-> kind, id |-> id]
FileContents(data, last) == [type |-> "contents", data |-> data, last |-> last]

(* Another message read as FileContents.  Field 1 of a Request or a Response *)
(* is its `get', which becomes the contents (empty for a GetResponse with    *)
(* command_id 0); the other fields are unknown, or of a wrong wire type.     *)
AsFileContents(m) ==
    CASE m.type = "contents" -> m
      [] m.type # "contents" /\ m.kind = "get" /\ (m.type = "response" => m.id # 0)
            -> FileContents(<<Noise>>, FALSE)
      [] OTHER -> FileContents(<<>>, FALSE)

(* A FileContents message as a piece of data: what client.cpp:155-158 hands  *)
(* to UploadTask is a serialized FileContents, not the contents.             *)
Serialized(contents) == <<Header>> \o contents

-----------------------------------------------------------------------------
(* ChunkedFileSender. *)

SetFileContents(contents) == [file_contents |-> contents, total_sent |-> 0]

SentCompleteFile(s) == s.total_sent = Len(s.file_contents)

(* SendNextChunk(), lines 34-41: the chunk and its is_last flag. *)
NextChunk(s) ==
    LET end == s.total_sent + ChunkSize
    IN  FileContents(SubSeq(s.file_contents, s.total_sent + 1,
                            IF end < Len(s.file_contents) THEN end ELSE Len(s.file_contents)),
                     end >= Len(s.file_contents))

(* SendNextChunk(), lines 66-68: the sender once the chunk has been sent. *)
AfterChunk(s) == [s EXCEPT !.total_sent = @ + Len(NextChunk(s).data)]

-----------------------------------------------------------------------------
(* ChunkedFileReceiver.  `parser' holds the messages recv() returned together *)
(* with the one that was wanted.                                              *)

NewReceiver == [parser |-> <<>>, file_contents |-> <<>>, complete_file |-> FALSE]

HasCompleteFile(r) == r.complete_file

(* ReceiveNextChunk(), lines 47-61, for the next message m and those behind. *)
WithChunk(r, m, behind) ==
    [parser |-> behind,
     file_contents |-> r.file_contents \o AsFileContents(m).data,
     complete_file |-> r.complete_file \/ AsFileContents(m).last]

(* What it returns for m; 0 also means that the other side has disconnected. *)
ChunkLength(m) == Len(AsFileContents(m).data)
=============================================================================
