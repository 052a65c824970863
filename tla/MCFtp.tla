---- MODULE MCFtp ----
(* Model-checking instance of Ftp.  The file on the server takes three chunks, one *)
(* more than a connection holds; with its header so does the file of c1, and that  *)
(* of another client takes one.                                                    *)
EXTENDS Ftp

CONSTANT c1

FilePieces == Files \cup Clients

DiskFiles == [f \in Files |-> <<f, f, f>>]

OwnFile == [c \in Clients |-> IF c = c1 THEN <<c, c>> ELSE <<>>]
====
