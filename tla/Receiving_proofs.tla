-------------------------- MODULE Receiving_proofs --------------------------
(***************************************************************************)
(* Theorems about MessageParser and Receiving: the parser keeps its class  *)
(* invariant and every byte it is given, whatever the pieces, and so       *)
(* Receive() never waits for more when it has a whole message; and no byte *)
(* is lost, repeated or moved but by a return.                             *)
(***************************************************************************)
EXTENDS Receiving, TLAPS, SequenceTheorems, FiniteSetTheorems

(* A new parser is sound and empty. *)
LEMMA NewParserFact == ParserOK(NewParser) /\ BytesIn(NewParser) = <<>>
BY FormatAssumption DEF ParserOK, NewParser, Parser, MessageLength, BytesIn

(* Cutting a sequence in two loses nothing. *)
LEMMA CutFact ==
    ASSUME NEW s \in Seq(Byte), NEW n \in 0..Len(s)
    PROVE  /\ FirstBytes(s, n) \in Seq(Byte) /\ Len(FirstBytes(s, n)) = n
           /\ BytesFrom(s, n) \in Seq(Byte) /\ Len(BytesFrom(s, n)) = Len(s) - n
           /\ FirstBytes(s, n) \o BytesFrom(s, n) = s
           /\ n = 0 => FirstBytes(s, n) = <<>> /\ BytesFrom(s, n) = s
           /\ n = Len(s) => BytesFrom(s, n) = <<>>
<1> DEFINE a == FirstBytes(s, n)
           b == BytesFrom(s, n)
<1>1. a \in Seq(Byte) /\ Len(a) = n /\ \A i \in 1..n : a[i] = s[i]
  BY DEF FirstBytes
<1>2. b \in Seq(Byte) /\ Len(b) = Len(s) - n /\ \A i \in 1..(Len(s) - n) : b[i] = s[n + i]
  BY DEF BytesFrom
<1> HIDE DEF a, b
<1>3. a \o b \in Seq(Byte) /\ Len(a \o b) = Len(s)
  <2>1. a \o b \in Seq(Byte) /\ Len(a \o b) = Len(a) + Len(b)
    BY <1>1, <1>2, ConcatProperties
  <2>2. Len(s) \in Nat /\ n \in Nat
    OBVIOUS
  <2> QED
    BY <2>1, <2>2, <1>1, <1>2
<1>4. ASSUME NEW i \in 1..Len(s) PROVE (a \o b)[i] = s[i]
  <2> i \in Int /\ n \in Int
    OBVIOUS
  <2>1. CASE i <= n
    BY <2>1, <1>1, <1>2
  <2>2. CASE i > n
    <3>1. (a \o b)[i] = b[i - n] /\ i - n \in 1..(Len(s) - n)
      BY <2>2, <1>1, <1>2
    <3> QED
      BY <3>1, <1>2
  <2>3. i <= n \/ i > n
    OBVIOUS
  <2> QED
    BY <2>1, <2>2, <2>3, Zenon
<1>5. a \o b = s
  BY <1>3, <1>4, SeqEqual
<1>6. n = 0 => a = <<>> /\ b = s
  BY <1>1, <1>2, SeqEqual
<1>7. n = Len(s) => b = <<>>
  BY <1>2
<1> QED
  BY <1>1, <1>2, <1>5, <1>6, <1>7 DEF a, b

(* Joining has the empty sequence as its unit and is associative.  *)
LEMMA ConcatFact ==
    \A r \in Seq(Byte) : r \o <<>> = r /\ <<>> \o r = r
BY ConcatEmptySeq

(* Appending in pieces is appending at once. *)
LEMMA AssociativeFact ==
    \A r, s, t \in Seq(Byte) : (r \o s) \o t = r \o (s \o t)
BY ConcatAssociative

(* Between ParseLength and ParseMessage a message may also be complete       *)
(* without the state saying so.                                              *)
AfterLengthOK(p) ==
    /\ p \in Parser
    /\ p.state = "PARSING_LENGTH" =>
          Len(p.partial_length) < LengthBytes /\ p.partial_message = <<>> /\ p.overflow = <<>>
    /\ p.state # "PARSING_LENGTH" =>
          /\ Len(p.partial_length) = LengthBytes
          /\ p.expected_length = NetworkToHost(p.partial_length)
    /\ p.state = "PARSING_MESSAGE" =>
          Len(p.partial_message) <= p.expected_length /\ p.overflow = <<>>
    /\ p.state = "PARSING_DONE" => Len(p.partial_message) = p.expected_length

(* ParseLength takes bytes from the front of its input and puts them behind *)
(* those of the length, all of them unless the length is complete           *)
(* (lines 143-169).                                                         *)
LEMMA ParseLengthFact ==
    ASSUME NEW p, ParserOK(p), NEW data \in Seq(Byte)
    PROVE  LET n == LengthBytesToCopy(p, data)
               q == ParseLength(p, data)
           IN  /\ n \in 0..Len(data)
               /\ AfterLengthOK(q)
               /\ q.state = "PARSING_LENGTH" => n = Len(data)
               /\ q.partial_length = p.partial_length \o FirstBytes(data, n)
               /\ q.partial_message = p.partial_message /\ q.overflow = p.overflow
<1> DEFINE n == LengthBytesToCopy(p, data)
           q == ParseLength(p, data)
           pl == p.partial_length \o FirstBytes(data, n)
<1>1. /\ p.partial_length \in Seq(Byte) /\ p.partial_message \in Seq(Byte)
      /\ p.overflow \in Seq(Byte) /\ p.expected_length \in MessageLength
  BY DEF ParserOK, Parser
<1>2. n \in 0..Len(data)
  BY <1>1, FormatAssumption DEF LengthBytesToCopy, Min2, ParserOK
<1>3. CASE p.state # "PARSING_LENGTH"
  <2>1. n = 0 /\ q = p
    BY <1>3 DEF LengthBytesToCopy, ParseLength
  <2>2. pl = p.partial_length
    BY <2>1, <1>1, CutFact, ConcatFact
  <2>3. Len(p.partial_message) \in Nat /\ p.expected_length \in Nat
    BY <1>1 DEF MessageLength
  <2>4. AfterLengthOK(p)
    BY <2>3, <1>3 DEF ParserOK, AfterLengthOK
  <2> QED
    BY <2>1, <2>2, <2>4, <1>2, <1>3, Zenon
<1>4. CASE p.state = "PARSING_LENGTH"
  <2>1. /\ Len(p.partial_length) < LengthBytes /\ p.partial_message = <<>> /\ p.overflow = <<>>
        /\ n = Min2(Len(data), LengthBytes - Len(p.partial_length))
    BY <1>4 DEF ParserOK, LengthBytesToCopy
  <2>2. pl \in Seq(Byte) /\ Len(pl) = Len(p.partial_length) + n
    BY <1>1, <1>2, CutFact
  <2> HIDE DEF n, pl
  <2>3. Len(pl) <= LengthBytes /\ (Len(pl) # LengthBytes => n = Len(data))
    <3>1. Len(data) \in Nat /\ Len(p.partial_length) \in Nat /\ LengthBytes \in Nat
      BY <1>1, FormatAssumption
    <3>2. CASE Len(data) <= LengthBytes - Len(p.partial_length)
      <4>1. n = Len(data)
        BY <3>2, <2>1 DEF Min2
      <4> QED
        BY <3>1, <3>2, <4>1, <2>2
    <3>3. CASE ~(Len(data) <= LengthBytes - Len(p.partial_length))
      <4>1. n = LengthBytes - Len(p.partial_length)
        BY <3>3, <2>1 DEF Min2
      <4> QED
        BY <3>1, <4>1, <2>2
    <3> QED
      BY <3>2, <3>3
  <2>4. CASE Len(pl) = LengthBytes
    <3>1. pl \in [1..LengthBytes -> Byte]
      BY <2>2, <2>4, LenProperties
    <3>2. NetworkToHost(pl) \in MessageLength
      BY <3>1, NotationAssumption
    <3>3. q = [p EXCEPT !.partial_length = pl, !.state = "PARSING_MESSAGE",
                        !.expected_length = NetworkToHost(pl)]
      BY <1>4, <2>4 DEF ParseLength, pl, n
    <3>4. q \in Parser /\ q.state = "PARSING_MESSAGE" /\ q.partial_length = pl
          /\ q.partial_message = <<>> /\ q.overflow = <<>> /\ q.expected_length = NetworkToHost(pl)
      BY <3>2, <3>3, <2>1, <2>2 DEF ParserOK, Parser
    <3>5. Len(q.partial_message) <= q.expected_length
      BY <3>2, <3>4 DEF MessageLength
    <3> QED
      BY <1>2, <2>1, <2>4, <3>4, <3>5 DEF AfterLengthOK, pl, n
  <2>5. CASE Len(pl) # LengthBytes
    <3>1. q = [p EXCEPT !.partial_length = pl]
      BY <1>4, <2>5 DEF ParseLength, pl, n
    <3>2. q \in Parser /\ q.state = "PARSING_LENGTH" /\ q.partial_length = pl
          /\ q.partial_message = <<>> /\ q.overflow = <<>>
      BY <3>1, <1>4, <2>1, <2>2 DEF ParserOK, Parser
    <3>3. Len(pl) < LengthBytes
      BY <2>2, <2>3, <2>5, FormatAssumption
    <3> QED
      BY <1>2, <2>1, <2>3, <2>5, <3>2, <3>3 DEF AfterLengthOK, pl, n
  <2> QED
    BY <2>4, <2>5
<1> QED
  BY <1>3, <1>4

(* ParseMessage takes bytes from the front of its input and puts them       *)
(* behind those of the message, all of them unless the message is complete, *)
(* and says so if it is, an empty one too (lines 178-204).                  *)
LEMMA ParseMessageFact ==
    ASSUME NEW p, AfterLengthOK(p), NEW rest \in Seq(Byte)
    PROVE  LET n == NumBytesToCopy(p, rest)
               q == ParseMessage(p, rest)
           IN  /\ n \in 0..Len(rest)
               /\ ParserOK(q)
               /\ p.state # "PARSING_LENGTH" /\ q.state # "PARSING_DONE" => n = Len(rest)
               /\ q.partial_message = p.partial_message \o FirstBytes(rest, n)
               /\ q.partial_length = p.partial_length /\ q.overflow = p.overflow
               /\ q.state = "PARSING_LENGTH" <=> p.state = "PARSING_LENGTH"
<1> DEFINE n == NumBytesToCopy(p, rest)
           q == ParseMessage(p, rest)
           m == p.partial_message \o FirstBytes(rest, n)
<1>1. /\ p.partial_length \in Seq(Byte) /\ p.partial_message \in Seq(Byte)
      /\ p.overflow \in Seq(Byte) /\ p.expected_length \in Nat
      /\ Len(rest) \in Nat /\ Len(p.partial_message) \in Nat
  BY DEF AfterLengthOK, Parser, MessageLength
<1>2. n \in 0..Len(rest)
  BY <1>1 DEF NumBytesToCopy, Min2, AfterLengthOK
<1>3. CASE p.state # "PARSING_MESSAGE"
  <2>1. n = 0 /\ q = p
    BY <1>3 DEF NumBytesToCopy, ParseMessage
  <2>2. m = p.partial_message
    BY <2>1, <1>1, CutFact, ConcatFact
  <2>3. p.state \in {"PARSING_LENGTH", "PARSING_DONE"}
    BY <1>3 DEF AfterLengthOK, Parser
  <2>4. ParserOK(p)
    BY <1>3 DEF ParserOK, AfterLengthOK
  <2> QED
    BY <2>1, <2>2, <2>3, <2>4, <1>2, Zenon
<1>4. CASE p.state = "PARSING_MESSAGE"
  <2>1. /\ Len(p.partial_message) <= p.expected_length /\ p.overflow = <<>>
        /\ n = Min2(Len(rest), p.expected_length - Len(p.partial_message))
    BY <1>4 DEF AfterLengthOK, NumBytesToCopy
  <2>2. m \in Seq(Byte) /\ Len(m) = Len(p.partial_message) + n
    BY <1>1, <1>2, CutFact
  <2> HIDE DEF n, m
  <2>3. Len(m) <= p.expected_length /\ (Len(m) # p.expected_length => n = Len(rest))
    <3>1. CASE Len(rest) <= p.expected_length - Len(p.partial_message)
      BY <3>1, <1>1, <2>1, <2>2 DEF Min2
    <3>2. CASE ~(Len(rest) <= p.expected_length - Len(p.partial_message))
      <4>1. n = p.expected_length - Len(p.partial_message)
        BY <3>2, <2>1 DEF Min2
      <4> QED
        BY <4>1, <1>1, <2>2
    <3> QED
      BY <3>1, <3>2
  <2>4. q = [p EXCEPT !.partial_message = m,
                      !.state = IF Len(m) = p.expected_length THEN "PARSING_DONE" ELSE @]
    BY <1>4 DEF ParseMessage, IsComplete, m, n
  <2>5. /\ q \in Parser /\ q.partial_message = m /\ q.partial_length = p.partial_length
        /\ q.overflow = <<>> /\ q.expected_length = p.expected_length
        /\ q.state = IF Len(m) = p.expected_length THEN "PARSING_DONE" ELSE "PARSING_MESSAGE"
    BY <2>4, <2>1, <2>2, <1>4 DEF AfterLengthOK, Parser
  <2>6. Len(m) # p.expected_length => Len(m) < p.expected_length
    BY <2>2, <2>3, <1>1
  <2>7. ParserOK(q)
    BY <2>5, <2>6, <1>4 DEF ParserOK, AfterLengthOK
  <2>8. q.state # "PARSING_LENGTH" /\ (q.state # "PARSING_DONE" => n = Len(rest))
    BY <2>3, <2>5
  <2> QED
    BY <1>2, <1>4, <2>1, <2>5, <2>7, <2>8 DEF m, n
<1> QED
  BY <1>3, <1>4

(* Joining, by its algebraic laws alone. *)
Join(r, s) == r \o s

(* The same facts, of the name. *)
LEMMA JoinFact ==
    /\ \A r, s \in Seq(Byte) : Join(r, s) \in Seq(Byte)
    /\ \A r \in Seq(Byte) : Join(r, <<>>) = r /\ Join(<<>>, r) = r
    /\ \A r, s, t \in Seq(Byte) : Join(Join(r, s), t) = Join(r, Join(s, t))
<1>1. \A r, s \in Seq(Byte) : Join(r, s) \in Seq(Byte)
  BY DEF Join
<1>2. \A r \in Seq(Byte) : Join(r, <<>>) = r /\ Join(<<>>, r) = r
  BY ConcatFact DEF Join
<1>3. \A r, s, t \in Seq(Byte) : Join(Join(r, s), t) = Join(r, Join(s, t))
  BY AssociativeFact DEF Join
<1> QED
  BY <1>1, <1>2, <1>3

(* Three parts that each get their own share of what comes next, none       *)
(* before the parts after it have anything.                                 *)
LEMMA SharesFact ==
    ASSUME NEW a \in Seq(Byte), NEW b \in Seq(Byte), NEW c \in Seq(Byte),
           NEW x \in Seq(Byte), NEW y \in Seq(Byte), NEW z \in Seq(Byte),
           x = <<>> \/ b = <<>>, (x = <<>> /\ y = <<>>) \/ c = <<>>
    PROVE  Join(Join(Join(a, x), Join(b, y)), Join(c, z))
              = Join(Join(Join(a, b), c), Join(x, Join(y, z)))
<1>1. CASE x = <<>> /\ y = <<>>
  BY <1>1, JoinFact
<1>2. CASE x = <<>> /\ c = <<>>
  BY <1>2, JoinFact
<1>3. CASE b = <<>> /\ c = <<>>
  BY <1>3, JoinFact
<1> QED
  BY <1>1, <1>2, <1>3

(* AddNewData keeps the class invariant and every byte, in order, whatever  *)
(* the size of the piece and wherever in a message it begins or ends        *)
(* (wire_protocol.h:47-51).                                                 *)
THEOREM AddNewDataConserves ==
    ASSUME NEW p, ParserOK(p), NEW data \in Seq(Byte)
    PROVE  /\ ParserOK(AddNewData(p, data))
           /\ BytesIn(AddNewData(p, data)) = BytesIn(p) \o data
<1> DEFINE n1 == LengthBytesToCopy(p, data)
           p1 == ParseLength(p, data)
           rest1 == BytesFrom(data, n1)
           n2 == NumBytesToCopy(p1, rest1)
           p2 == ParseMessage(p1, rest1)
           rest2 == BytesFrom(rest1, n2)
           r == SaveOverflow(p2, rest2)
           x == FirstBytes(data, n1)
           y == FirstBytes(rest1, n2)
<1>1. r = AddNewData(p, data)
  BY DEF AddNewData
<1>2. /\ n1 \in 0..Len(data) /\ AfterLengthOK(p1)
      /\ p1.state = "PARSING_LENGTH" => n1 = Len(data)
      /\ p1.partial_length = p.partial_length \o x
      /\ p1.partial_message = p.partial_message /\ p1.overflow = p.overflow
  BY ParseLengthFact, Zenon
<1>3. /\ x \in Seq(Byte) /\ rest1 \in Seq(Byte) /\ x \o rest1 = data
      /\ n1 = 0 => x = <<>>
      /\ n1 = Len(data) => rest1 = <<>>
  <2> HIDE DEF n1
  <2> QED
    BY <1>2, CutFact
<1>4. /\ n2 \in 0..Len(rest1) /\ ParserOK(p2)
      /\ p1.state # "PARSING_LENGTH" /\ p2.state # "PARSING_DONE" => n2 = Len(rest1)
      /\ p2.partial_message = p1.partial_message \o y
      /\ p2.partial_length = p1.partial_length /\ p2.overflow = p1.overflow
      /\ p2.state = "PARSING_LENGTH" <=> p1.state = "PARSING_LENGTH"
  <2> HIDE DEF p1, rest1
  <2> QED
    BY <1>2, <1>3, ParseMessageFact, Zenon
<1>5. /\ y \in Seq(Byte) /\ rest2 \in Seq(Byte) /\ y \o rest2 = rest1
      /\ n2 = 0 => y = <<>>
      /\ n2 = Len(rest1) => rest2 = <<>>
  <2> HIDE DEF n2, rest1
  <2> QED
    BY <1>3, <1>4, CutFact
<1>6. /\ p.partial_length \in Seq(Byte) /\ p.partial_message \in Seq(Byte)
      /\ p.overflow \in Seq(Byte)
  BY DEF ParserOK, Parser
<1>7. x = <<>> \/ p.partial_message = <<>>
  <2>1. p.state # "PARSING_LENGTH" => n1 = 0
    BY DEF LengthBytesToCopy
  <2> QED
    BY <2>1, <1>3 DEF ParserOK
<1>8. (x = <<>> /\ y = <<>>) \/ p.overflow = <<>>
  <2>1. CASE p.state = "PARSING_DONE"
    <3>1. n1 = 0 /\ p1 = p
      BY <2>1 DEF LengthBytesToCopy, ParseLength
    <3>2. n2 = 0
      BY <2>1, <3>1 DEF NumBytesToCopy
    <3> QED
      BY <3>1, <3>2, <1>3, <1>5
  <2>2. CASE p.state # "PARSING_DONE"
    BY <2>2 DEF ParserOK, Parser
  <2> QED
    BY <2>1, <2>2
<1>9. p2.state # "PARSING_DONE" => rest2 = <<>>
  <2>1. CASE p1.state = "PARSING_LENGTH"
    <3>1. rest1 = <<>>
      BY <2>1, <1>2, <1>3
    <3>2. n2 = Len(rest1)
      BY <3>1, <1>4
    <3> QED
      BY <3>2, <1>5
  <2>2. CASE p1.state # "PARSING_LENGTH"
    BY <2>2, <1>4, <1>5
  <2> QED
    BY <2>1, <2>2
<1> HIDE DEF p2, rest2, p1, rest1, n1, n2, x, y
<1>10. /\ r.partial_length = p.partial_length \o x
       /\ r.partial_message = p.partial_message \o y
       /\ r.overflow = p.overflow \o rest2
       /\ ParserOK(r)
  <2>1. CASE p2.state # "PARSING_DONE"
    <3>1. r = p2 /\ p.overflow \o rest2 = p.overflow
      BY <2>1, <1>9, <1>6, ConcatFact DEF SaveOverflow
    <3> QED
      BY <3>1, <1>2, <1>4
  <2>2. CASE p2.state = "PARSING_DONE"
    <3>1. r = [p2 EXCEPT !.overflow = p.overflow \o rest2]
      BY <2>2, <1>2, <1>4 DEF SaveOverflow
    <3>2. p2 \in Parser /\ p.overflow \o rest2 \in Seq(Byte)
      BY <1>4, <1>5, <1>6 DEF ParserOK
    <3>3. /\ r \in Parser /\ r.state = p2.state /\ r.partial_length = p2.partial_length
          /\ r.partial_message = p2.partial_message /\ r.expected_length = p2.expected_length
          /\ r.overflow = p.overflow \o rest2
      BY <3>1, <3>2 DEF Parser
    <3>4. ParserOK(r)
      BY <3>3, <2>2, <1>4 DEF ParserOK
    <3> QED
      BY <3>3, <3>4, <1>2, <1>4
  <2> QED
    BY <2>1, <2>2
<1>11. x \o (y \o rest2) = data
  BY <1>3, <1>5
<1>12. BytesIn(r) = BytesIn(p) \o data
  <2> HIDE DEF r
  <2>1. (p.partial_length \o x) \o (p.partial_message \o y) \o (p.overflow \o rest2)
        = (p.partial_length \o p.partial_message \o p.overflow) \o (x \o (y \o rest2))
    <3>1. Join(Join(Join(p.partial_length, x), Join(p.partial_message, y)),
               Join(p.overflow, rest2))
          = Join(Join(Join(p.partial_length, p.partial_message), p.overflow),
                 Join(x, Join(y, rest2)))
      <4> DEFINE a == p.partial_length
                 b == p.partial_message
                 c == p.overflow
      <4>1. /\ a \in Seq(Byte) /\ b \in Seq(Byte) /\ c \in Seq(Byte)
            /\ x \in Seq(Byte) /\ y \in Seq(Byte) /\ rest2 \in Seq(Byte)
            /\ x = <<>> \/ b = <<>>
            /\ (x = <<>> /\ y = <<>>) \/ c = <<>>
        BY <1>3, <1>5, <1>6, <1>7, <1>8
      <4> HIDE DEF a, b, c
      <4>2. Join(Join(Join(a, x), Join(b, y)), Join(c, rest2))
              = Join(Join(Join(a, b), c), Join(x, Join(y, rest2)))
        BY <4>1, SharesFact, SMTT(30)
      <4> QED
        BY <4>2 DEF a, b, c
    <3> QED
      BY <3>1 DEF Join
  <2> QED
    BY <2>1, <1>10, <1>11 DEF BytesIn
<1> QED
  BY <1>1, <1>10, <1>12, Zenon

(* After GetMessage the parser is sound and holds exactly what followed the *)
(* message (wire_protocol.h:68-86).                                         *)
THEOREM GetMessageConserves ==
    ASSUME NEW p, ParserOK(p)
    PROVE  /\ ParserOK(AfterGetMessage(p))
           /\ BytesIn(AfterGetMessage(p)) = p.overflow
<1>1. p.overflow \in Seq(Byte)
  BY DEF ParserOK, Parser
<1>2. /\ ParserOK(AddNewData(NewParser, p.overflow))
      /\ BytesIn(AddNewData(NewParser, p.overflow)) = <<>> \o p.overflow
  BY <1>1, NewParserFact, AddNewDataConserves
<1>3. <<>> \o p.overflow = p.overflow
  BY <1>1, ConcatFact
<1> QED
  BY <1>2, <1>3 DEF AfterGetMessage

-----------------------------------------------------------------------------
(* The parser of a call is untouched until the call has an endpoint. *)
Inv == TypeOK /\ (reading = NoEndpoint => parser = NewParser)

(* What a piece of the stream is made of. *)
LEMMA PieceFact ==
    ASSUME TypeOK, TakePiece
    PROVE  /\ Piece1 \in Piece
           /\ receive_queue' \in Seq(Piece) /\ LocalAfterTake \in Seq(Piece)
<1>1. local \in Seq(Piece) /\ receive_queue \in Seq(Piece) /\ local \o receive_queue # <<>>
  BY DEF TypeOK, TakePiece
<1>2. local \o receive_queue \in Seq(Piece)
  BY <1>1
<1>3. Piece1 \in Piece
  <2> DEFINE all == local \o receive_queue
  <2>1. all \in Seq(Piece) /\ all # <<>>
    BY <1>1, <1>2
  <2> HIDE DEF all
  <2>2. Head(all) \in Piece
    BY <2>1
  <2> QED
    BY <2>2 DEF Piece1, all
<1>4. LocalAfterTake \in Seq(Piece)
  BY <1>1 DEF LocalAfterTake
<1>5. receive_queue' \in Seq(Piece)
  <2>1. CASE local = <<>>
    <3>1. receive_queue # <<>>
      BY <1>1, <2>1
    <3> QED
      BY <1>1, <2>1, <3>1 DEF TakePiece
  <2>2. CASE local # <<>>
    BY <1>1, <2>2 DEF TakePiece
  <2> QED
    BY <2>1, <2>2
<1> QED
  BY <1>3, <1>4, <1>5

(* Serialize gives bytes, the length before the message (wire_protocol.cpp). *)
LEMMA SerializeFact ==
    ASSUME NEW m \in Messages
    PROVE  /\ Serialize(m) \in Seq(Byte)
           /\ Len(Serialize(m)) = LengthBytes + Len(m)
           /\ \A i \in 1..LengthBytes : Serialize(m)[i] = HostToNetwork(Len(m))[i]
<1>1. m \in Seq(Byte) /\ Len(m) \in MessageLength
  BY MessagesAssumption
<1>2. HostToNetwork(Len(m)) \in Seq(Byte)
  BY <1>1, NotationAssumption
<1>3. DOMAIN HostToNetwork(Len(m)) = 1..LengthBytes
  BY DEF HostToNetwork
<1>4. Len(HostToNetwork(Len(m))) = LengthBytes
  BY <1>2, <1>3, FormatAssumption, LenProperties
<1> DEFINE h == HostToNetwork(Len(m))
<1>5. h \in Seq(Byte) /\ Len(h) = LengthBytes
  BY <1>2, <1>4
<1> HIDE DEF h
<1>6. /\ h \o m \in Seq(Byte) /\ Len(h \o m) = LengthBytes + Len(m)
      /\ \A i \in 1..LengthBytes : (h \o m)[i] = h[i]
  BY <1>1, <1>5, FormatAssumption
<1> QED
  BY <1>6 DEF Serialize, h

(* A new parser is sound. *)
LEMMA InitInv == Init => Inv
<1> SUFFICES ASSUME Init PROVE Inv
  OBVIOUS
<1>1. ParserOK(parser)
  BY NewParserFact DEF Init
<1> QED
  BY <1>1 DEF Init, Inv, TypeOK

(* Each action keeps the invariant. *)
LEMMA StepInv == Inv /\ [Next]_vars => Inv'
<1> SUFFICES ASSUME Inv, [Next]_vars PROVE Inv'
  OBVIOUS
<1>0. ParserOK(NewParser)
  BY NewParserFact
<1> USE DEF Inv
<1>1. ASSUME NEW e \in Endpoints, NEW m \in Messages, PeerSends(e, m) PROVE Inv'
  <2>1. Serialize(m) \in Seq(Byte)
    BY SerializeFact
  <2>2. wire[e] \o Serialize(m) \in Seq(Byte) /\ Append(sent[e], m) \in Seq(Messages)
    BY <2>1 DEF TypeOK
  <2> QED
    BY <1>1, <2>2 DEF PeerSends, TypeOK, locals
<1>2. ASSUME NEW e \in Endpoints, PeerCloses(e) PROVE Inv'
  BY <1>2 DEF PeerCloses, TypeOK, locals
<1>10. ASSUME NEW e \in Endpoints, PeerResets(e) PROVE Inv'
  <2>1. wire' \in [Endpoints -> Seq(Byte)]
    <3>1. <<>> \in Seq(Byte)
      OBVIOUS
    <3> QED
      BY <1>10, <3>1, Zenon DEF PeerResets, TypeOK
  <2>2. link' \in [Endpoints -> {"open", "closed", "reset"}]
    BY <1>10 DEF PeerResets, TypeOK
  <2> QED
    BY <1>10, <2>1, <2>2 DEF PeerResets, TypeOK, locals
<1>3. ASSUME NEW e \in Endpoints, RunAtomic(e) PROVE Inv'
  <2>1. PICK n \in ReceiveResults(e) :
          /\ receive_queue' = Append(receive_queue,
                [message |-> FirstBytes(wire[e], n), endpoint |-> e, status |-> n])
          /\ wire' = [wire EXCEPT ![e] = IF n > 0 THEN BytesFrom(@, n) ELSE @]
          /\ task' = [task EXCEPT ![e] = IF n > 0 THEN "RUNNING" ELSE "FAILED"]
    BY <1>3 DEF RunAtomic
  <2>2. wire[e] \in Seq(Byte) /\ ReceiveChunkSize \in Nat
    BY MessagesAssumption DEF TypeOK
  <2>3. n \in Int /\ (n > 0 => n \in 0..Len(wire[e])) /\ (n <= 0 => n \in {0, -1})
    BY <2>2 DEF ReceiveResults, Min2
  <2>4. FirstBytes(wire[e], n) \in Seq(Byte)
    <3>1. CASE n > 0
      BY <3>1, <2>2, <2>3, CutFact
    <3>2. CASE n <= 0
      BY <3>2, <2>2, <2>3 DEF FirstBytes
    <3> QED
      BY <3>1, <3>2, <2>3
  <2>5. n > 0 => BytesFrom(wire[e], n) \in Seq(Byte)
    BY <2>2, <2>3, CutFact
  <2>6. wire' \in [Endpoints -> Seq(Byte)] /\ task' \in [Endpoints -> {"RUNNING", "FAILED"}]
    BY <2>1, <2>5 DEF TypeOK
  <2>7. receive_queue' \in Seq(Piece)
    <3>1. [message |-> FirstBytes(wire[e], n), endpoint |-> e, status |-> n] \in Piece
      BY <2>3, <2>4 DEF Piece
    <3> QED
      BY <2>1, <3>1 DEF TypeOK
  <2> QED
    BY <1>3, <2>6, <2>7 DEF RunAtomic, TypeOK, locals
<1>4. ASSUME Receive PROVE Inv'
  BY <1>0, <1>4 DEF Receive, TypeOK, peers
<1>5. ASSUME SavePiece PROVE Inv'
  <2>1. Piece1 \in Piece /\ receive_queue' \in Seq(Piece) /\ LocalAfterTake \in Seq(Piece)
    BY <1>5, PieceFact DEF SavePiece
  <2>2. Append(un_processed, Piece1) \in Seq(Piece)
    BY <2>1 DEF TypeOK
  <2> QED
    BY <1>5, <2>1, <2>2 DEF SavePiece, TypeOK, peers
<1>6. ASSUME ParsePiece PROVE Inv'
  <2>1. Piece1 \in Piece /\ receive_queue' \in Seq(Piece) /\ LocalAfterTake \in Seq(Piece)
    BY <1>6, PieceFact DEF ParsePiece
  <2>2. Piece1.endpoint \in Endpoints /\ Piece1.message \in Seq(Byte)
    BY <2>1 DEF Piece
  <2>3. ParserOK(AddNewData(parser, Piece1.message))
    BY <2>2, AddNewDataConserves DEF TypeOK
  <2> QED
    BY <1>6, <2>1, <2>2, <2>3, MessagesAssumption DEF ParsePiece, TypeOK, peers
<1>7. ASSUME ReceiveFails PROVE Inv'
  <2>1. receive_queue' \in Seq(Piece)
    BY <1>7, PieceFact DEF ReceiveFails
  <2> QED
    BY <1>0, <1>7, <2>1 DEF ReceiveFails, Return, TypeOK, peers
<1>11. ASSUME ReceiveTimesOut PROVE Inv'
  BY <1>0, <1>11 DEF ReceiveTimesOut, Return, TypeOK, peers
<1>8. ASSUME ReceiveReturns PROVE Inv'
  <2>1. reading \in Endpoints
    BY <1>8 DEF ReceiveReturns, HasCompleteMessage, NewParser, TypeOK
  <2>2. parser.partial_message \in Seq(Byte) /\ parser.overflow \in Seq(Byte)
    BY DEF TypeOK, ParserOK, Parser
  <2>3. SavedWithOverflow \in Seq(Piece)
    <3>1. [message |-> parser.overflow, endpoint |-> reading, status |-> Len(parser.overflow)]
            \in Piece
      BY <2>1, <2>2 DEF Piece
    <3> QED
      BY <3>1 DEF SavedWithOverflow, TypeOK
  <2>4. received' \in [Endpoints -> Seq(Seq(Byte))]
    BY <1>8, <2>1, <2>2 DEF ReceiveReturns, MessageOf, TypeOK
  <2> QED
    BY <1>0, <1>8, <2>3, <2>4 DEF ReceiveReturns, Return, TypeOK, peers
<1>9. CASE UNCHANGED vars
  BY <1>9 DEF vars, peers, locals, TypeOK
<1> QED
  BY <1>1, <1>2, <1>3, <1>4, <1>5, <1>6, <1>7, <1>8, <1>9, <1>10, <1>11 DEF Next

(* The parser of Receive() is sound in every state: it never writes past    *)
(* the end of partial_length_ and its state is the one its contents call    *)
(* for, however recv() cuts the streams and whichever endpoints disconnect  *)
(* (wire_protocol.h:143-225, node.h:110-167).                               *)
THEOREM TypeCorrect == Spec => []TypeOK
<1>1. Inv => TypeOK
  BY DEF Inv
<1> QED
  BY <1>1, InitInv, StepInv, PTL DEF Spec

(* The front of a sequence is left as it was. *)
LEMMA FrontFact ==
    ASSUME NEW s \in Seq(Byte), NEW n \in Nat, n <= Len(s), NEW i \in 1..n
    PROVE  SubSeq(s, 1, n)[i] = s[i]
OBVIOUS

(* What is appended does not change what was there. *)
LEMMA ConcatFront ==
    ASSUME NEW s \in Seq(Byte), NEW t \in Seq(Byte), NEW i \in 1..Len(s)
    PROVE  (s \o t)[i] = s[i]
OBVIOUS

(* A sound parser that does not hold a complete message holds no bytes that *)
(* begin with one.                                                          *)
LEMMA SoundNotices == TypeOK => CompleteIsNoticed
<1> SUFFICES ASSUME TypeOK, ~HasCompleteMessage(parser), NEW m \in Messages,
                    IsPrefix(Serialize(m), BytesIn(parser))
             PROVE  FALSE
  BY DEF CompleteIsNoticed
<1> DEFINE l == parser.partial_length
           s == Serialize(m)
           b == BytesIn(parser)
<1>1. /\ l \in Seq(Byte) /\ parser.partial_message \in Seq(Byte) /\ parser.overflow = <<>>
      /\ parser.expected_length \in Nat
      /\ parser.state \in {"PARSING_LENGTH", "PARSING_MESSAGE"}
  BY DEF TypeOK, ParserOK, Parser, MessageLength, HasCompleteMessage
<1>2. m \in Seq(Byte) /\ Len(m) \in MessageLength /\ LengthBytes \in Nat
  BY MessagesAssumption, FormatAssumption
<1>3. b = l \o parser.partial_message
  BY <1>1, ConcatFact DEF BytesIn
<1>4. Len(b) = Len(l) + Len(parser.partial_message) /\ b \in Seq(Byte)
  BY <1>1, <1>3
<1>5. s \in Seq(Byte) /\ Len(s) = LengthBytes + Len(m)
  BY SerializeFact
<1>6. Len(s) <= Len(b) /\ SubSeq(s, 1, Len(s)) = SubSeq(b, 1, Len(s))
  BY DEF IsPrefix
<1>7. CASE parser.state = "PARSING_LENGTH"
  <2>1. Len(l) < LengthBytes /\ Len(parser.partial_message) = 0
    BY <1>7 DEF TypeOK, ParserOK
  <2> HIDE DEF l, s, b
  <2> QED
    BY <2>1, <1>1, <1>2, <1>4, <1>5, <1>6 DEF l
<1>8. CASE parser.state = "PARSING_MESSAGE"
  <2>1. /\ Len(l) = LengthBytes /\ parser.expected_length = NetworkToHost(l)
        /\ Len(parser.partial_message) < parser.expected_length
    BY <1>8 DEF TypeOK, ParserOK
  <2>2. ASSUME NEW i \in 1..LengthBytes PROVE l[i] = HostToNetwork(Len(m))[i]
    <3>1. b[i] = l[i]
      BY <1>1, <1>3, <2>1, ConcatFront
    <3>2. s[i] = HostToNetwork(Len(m))[i]
      BY SerializeFact
    <3>3. s[i] = b[i]
      <4> HIDE DEF s, b
      <4>1. i \in 1..Len(s)
        BY <1>2, <1>5
      <4>2. Len(s) \in Nat /\ Len(s) <= Len(s) /\ Len(s) <= Len(b)
        <5>1. Len(s) \in Nat
          BY <1>5, LenProperties
        <5>2. Len(s) <= Len(s)
          BY <5>1
        <5> QED
          BY <5>1, <5>2, <1>6, Zenon
      <4>3. SubSeq(s, 1, Len(s))[i] = s[i]
        BY <4>1, <4>2, <1>5, FrontFact
      <4>4. SubSeq(b, 1, Len(s))[i] = b[i]
        BY <4>1, <4>2, <1>4, FrontFact
      <4> QED
        BY <4>3, <4>4, <1>6
    <3> QED
      BY <3>1, <3>2, <3>3
  <2>3. l = HostToNetwork(Len(m))
    <3>1. l = [i \in 1..LengthBytes |-> l[i]]
      BY <1>1, <2>1, LenProperties
    <3> QED
      BY <3>1, <2>2 DEF HostToNetwork
  <2>4. parser.expected_length = Len(m)
    BY <1>2, <2>1, <2>3, NotationAssumption
  <2> HIDE DEF l, s, b
  <2> QED
    BY <2>1, <2>4, <1>1, <1>2, <1>4, <1>5, <1>6 DEF l
<1> QED
  BY <1>1, <1>7, <1>8

(* Receive() never waits for more while it has a whole message.             *)
THEOREM WholeMessagesAreNoticed == Spec => []CompleteIsNoticed
BY TypeCorrect, SoundNotices, PTL

-----------------------------------------------------------------------------
(* Induction, and what FlattenSeq computes. *)

(* Induction on the natural numbers, with a set in place of a predicate: a  *)
(* number that is left out bounds a finite set that maps into itself        *)
(* without reaching 0.                                                      *)
LEMMA SetInduction ==
    ASSUME NEW S \in SUBSET Nat, 0 \in S, \A n \in S : n + 1 \in S
    PROVE  S = Nat
<1> SUFFICES ASSUME NEW n \in Nat, n \notin S PROVE FALSE
  OBVIOUS
<1> DEFINE A == S \cap (0..n)
           f == [k \in A |-> k + 1]
<1>1. IsFiniteSet(A)
  <2>1. IsFiniteSet(0..n)
    BY FS_Interval
  <2> QED
    BY <2>1, FS_Intersection
<1>2. f \in [A -> A] /\ \A k \in A : f[k] = k + 1 /\ k \in Nat
  OBVIOUS
<1>3. 0 \in A
  OBVIOUS
<1> HIDE DEF A, f
<1>4. f \in Injection(A, A)
  BY <1>2 DEF Injection, IsInjective
<1>5. f \in Surjection(A, A)
  BY <1>1, <1>4, FS_Injection
<1>6. \E k \in A : f[k] = 0
  BY <1>3, <1>5 DEF Surjection
<1> QED
  BY <1>2, <1>6

(* g holds the flattened prefixes of ss, up to n. *)
Flattens(g, ss, n) ==
    g = [i \in 1..n |-> IF i = 1 THEN ss[i] ELSE g[i - 1] \o ss[i]]

(* Prefixes of any length can be flattened, by induction on the length. *)
LEMMA FlattensExists ==
    ASSUME NEW T, NEW ss \in Seq(Seq(T)), NEW n \in Nat, n <= Len(ss)
    PROVE  \E g \in [1..n -> Seq(T)] : Flattens(g, ss, n)
<1> DEFINE S == {k \in Nat : k <= Len(ss) => \E g \in [1..k -> Seq(T)] : Flattens(g, ss, k)}
<1>0. Len(ss) \in Nat /\ \A i \in 1..Len(ss) : ss[i] \in Seq(T)
  OBVIOUS
<1>1. 0 \in S
  <2>1. [i \in 1..0 |-> <<>>] \in [1..0 -> Seq(T)]
    OBVIOUS
  <2>2. Flattens([i \in 1..0 |-> <<>>], ss, 0)
    BY DEF Flattens
  <2> QED
    BY <2>1, <2>2
<1>2. ASSUME NEW k \in S PROVE k + 1 \in S
  <2> SUFFICES ASSUME k + 1 <= Len(ss)
               PROVE  \E g \in [1..(k + 1) -> Seq(T)] : Flattens(g, ss, k + 1)
    OBVIOUS
  <2>1. k \in Nat /\ k <= Len(ss)
    BY <1>0
  <2>2. PICK g \in [1..k -> Seq(T)] : Flattens(g, ss, k)
    BY <2>1
  <2> DEFINE x == IF k = 0 THEN ss[1] ELSE g[k] \o ss[k + 1]
             h == [i \in 1..(k + 1) |-> IF i = k + 1 THEN x ELSE g[i]]
  <2>3. x \in Seq(T)
    <3>1. CASE k = 0
      BY <1>0, <2>1, <3>1
    <3>2. CASE k # 0
      <4>1. g[k] \in Seq(T) /\ ss[k + 1] \in Seq(T)
        BY <1>0, <2>1, <3>2
      <4> QED
        BY <4>1, <3>2
    <3> QED
      BY <3>1, <3>2
  <2> HIDE DEF x
  <2>4. h \in [1..(k + 1) -> Seq(T)]
    BY <2>1, <2>3
  <2>5. ASSUME NEW i \in 1..(k + 1)
        PROVE  h[i] = IF i = 1 THEN ss[i] ELSE h[i - 1] \o ss[i]
    <3>1. CASE i = k + 1
      BY <3>1, <2>1 DEF x
    <3>2. CASE i # k + 1
      <4>1. i \in 1..k /\ h[i] = g[i] /\ (i # 1 => h[i - 1] = g[i - 1])
        BY <3>2, <2>1
      <4>2. g[i] = IF i = 1 THEN ss[i] ELSE g[i - 1] \o ss[i]
        BY <4>1, <2>2 DEF Flattens
      <4> QED
        BY <4>1, <4>2
    <3> QED
      BY <3>1, <3>2
  <2>6. Flattens(h, ss, k + 1)
    <3>1. h = [i \in 1..(k + 1) |-> h[i]]
      BY <2>4
    <3> HIDE DEF h
    <3> QED
      BY <3>1, <2>5 DEF Flattens
  <2> QED
    BY <2>4, <2>6
<1> HIDE DEF S
<1>3. S = Nat
  <2>1. S \in SUBSET Nat
    BY DEF S
  <2> QED
    BY <1>1, <1>2, <2>1, SetInduction
<1> QED
  BY <1>3 DEF S

(* The first n elements are the same. *)
SameFront(s, t, n) == \A i \in 1..n : s[i] = t[i]

(* Sequences with the same front have the same flattened prefixes. *)
LEMMA FlattensAgree ==
    ASSUME NEW ss, NEW tt, NEW m \in Nat, NEW n \in Nat, m <= n,
           SameFront(ss, tt, m),
           NEW g, Flattens(g, ss, m), NEW h, Flattens(h, tt, n)
    PROVE  SameFront(g, h, m)
<1> DEFINE S == {k \in Nat : k \in 1..m => g[k] = h[k]}
<1>1. 0 \in S
  OBVIOUS
<1>2. ASSUME NEW k \in S PROVE k + 1 \in S
  <2> SUFFICES ASSUME k + 1 \in 1..m PROVE g[k + 1] = h[k + 1]
    OBVIOUS
  <2>0. k \in Nat /\ k + 1 \in 1..n
    OBVIOUS
  <2>1. /\ g[k + 1] = IF k + 1 = 1 THEN ss[k + 1] ELSE g[k + 1 - 1] \o ss[k + 1]
        /\ h[k + 1] = IF k + 1 = 1 THEN tt[k + 1] ELSE h[k + 1 - 1] \o tt[k + 1]
    <3>1. g[k + 1] = [i \in 1..m |-> IF i = 1 THEN ss[i] ELSE g[i - 1] \o ss[i]][k + 1]
      BY DEF Flattens
    <3>2. h[k + 1] = [i \in 1..n |-> IF i = 1 THEN tt[i] ELSE h[i - 1] \o tt[i]][k + 1]
      BY DEF Flattens
    <3> QED
      BY <2>0, <3>1, <3>2
  <2>2. k # 0 => g[k] = h[k]
    BY <2>0
  <2>3. k + 1 - 1 = k
    BY <2>0
  <2> QED
    BY <2>0, <2>1, <2>2, <2>3 DEF SameFront
<1> HIDE DEF S
<1>3. S = Nat
  <2>1. S \in SUBSET Nat
    BY DEF S
  <2> QED
    BY <1>1, <1>2, <2>1, SetInduction
<1>4. \A k \in Nat : k \in 1..m => g[k] = h[k]
  BY <1>3 DEF S
<1> QED
  BY <1>4 DEF SameFront

(* FlattenSeq is the last of the flattened prefixes. *)
LEMMA FlattenSeqFact ==
    ASSUME NEW T, NEW ss \in Seq(Seq(T)), ss # <<>>
    PROVE  \E g \in [1..Len(ss) -> Seq(T)] :
              Flattens(g, ss, Len(ss)) /\ FlattenSeq(ss) = g[Len(ss)]
<1>1. Len(ss) \in Nat \ {0}
  OBVIOUS
<1> DEFINE n == Len(ss)
           c == CHOOSE g : Flattens(g, ss, n)
<1>2. PICK g \in [1..n -> Seq(T)] : Flattens(g, ss, n)
  <2>1. n \in Nat /\ n <= Len(ss)
    BY <1>1
  <2> HIDE DEF n
  <2> QED
    BY <2>1, FlattensExists, Zenon
<1>3. Flattens(c, ss, n)
  BY <1>2
<1>4. FlattenSeq(ss) = c[n]
  BY <1>1 DEF FlattenSeq, Flattens
<1>5. SameFront(c, g, n)
  <2>1. SameFront(ss, ss, n) /\ n <= n
    BY <1>1 DEF SameFront
  <2> QED
    BY <1>1, <1>2, <1>3, <2>1, FlattensAgree
<1>6. c[n] = g[n]
  BY <1>1, <1>5 DEF SameFront
<1> QED
  BY <1>2, <1>4, <1>6

(* Flattening sequences of sequences gives a sequence, and of none the empty*)
(* one.                                                                     *)
LEMMA FlattenType ==
    ASSUME NEW T, NEW ss \in Seq(Seq(T))
    PROVE  FlattenSeq(ss) \in Seq(T) /\ FlattenSeq(<<>>) = <<>>
<1>1. FlattenSeq(<<>>) = <<>>
  BY DEF FlattenSeq
<1>2. CASE ss # <<>>
  <2>1. PICK g \in [1..Len(ss) -> Seq(T)] :
              Flattens(g, ss, Len(ss)) /\ FlattenSeq(ss) = g[Len(ss)]
    BY <1>2, FlattenSeqFact
  <2>2. Len(ss) \in 1..Len(ss)
    BY <1>2
  <2> QED
    BY <1>1, <2>1, <2>2
<1> QED
  BY <1>1, <1>2

(* One more sequence is flattened behind the others. *)
LEMMA FlattenAppend ==
    ASSUME NEW T, NEW ss \in Seq(Seq(T)), NEW x \in Seq(T)
    PROVE  FlattenSeq(Append(ss, x)) = FlattenSeq(ss) \o x
<1> DEFINE tt == Append(ss, x)
           n == Len(ss)
<1>1. /\ tt \in Seq(Seq(T)) /\ tt # <<>> /\ Len(tt) = n + 1 /\ n \in Nat
      /\ \A i \in 1..n : tt[i] = ss[i]
      /\ tt[n + 1] = x
  BY AppendProperties
<1> HIDE DEF tt
<1>2. PICK h \in [1..Len(tt) -> Seq(T)] :
              Flattens(h, tt, Len(tt)) /\ FlattenSeq(tt) = h[Len(tt)]
  BY <1>1, FlattenSeqFact
<1>3. h[n + 1] = IF n + 1 = 1 THEN x ELSE h[n] \o x
  <2>1. h[n + 1] = [i \in 1..(n + 1) |-> IF i = 1 THEN tt[i] ELSE h[i - 1] \o tt[i]][n + 1]
    BY <1>1, <1>2 DEF Flattens
  <2>2. n + 1 \in 1..(n + 1) /\ n + 1 - 1 = n
    BY <1>1
  <2> QED
    BY <1>1, <2>1, <2>2
<1>4. CASE ss = <<>>
  <2>1. n = 0 /\ FlattenSeq(ss) = <<>> /\ <<>> \o x = x
    BY <1>4, FlattenType, ConcatEmptySeq
  <2> QED
    BY <1>1, <1>2, <1>3, <2>1 DEF tt
<1>5. CASE ss # <<>>
  <2>1. PICK g \in [1..n -> Seq(T)] : Flattens(g, ss, n) /\ FlattenSeq(ss) = g[n]
    BY <1>5, FlattenSeqFact
  <2>2. n # 0
    BY <1>5
  <2>3. /\ Flattens(h, tt, n + 1) /\ n + 1 \in Nat /\ n <= n + 1
        /\ SameFront(ss, tt, n)
    BY <1>1, <1>2 DEF SameFront
  <2> HIDE DEF n
  <2>4. SameFront(g, h, n)
    BY <1>1, <2>1, <2>3, FlattensAgree
  <2>5. g[n] = h[n]
    BY <1>1, <2>2, <2>4 DEF SameFront
  <2> QED
    BY <1>1, <1>2, <1>3, <2>1, <2>2, <2>5, SMTT(30) DEF tt
<1> QED
  BY <1>4, <1>5

(* Joining is associative. *)
LEMMA Associates ==
    ASSUME NEW T, NEW p \in Seq(T), NEW q \in Seq(T), NEW r \in Seq(T)
    PROVE  (p \o q) \o r = p \o (q \o r)
BY ConcatAssociative, SMTT(30)

(* The step of the induction for FlattenConcat. *)
LEMMA FlattenConcatAppend ==
    ASSUME NEW T, NEW ss \in Seq(Seq(T)), NEW a \in Seq(Seq(T)), NEW x \in Seq(T),
           FlattenSeq(ss \o a) = FlattenSeq(ss) \o FlattenSeq(a)
    PROVE  FlattenSeq(ss \o Append(a, x)) = FlattenSeq(ss) \o FlattenSeq(Append(a, x))
<1>1. /\ Append(a, x) = a \o <<x>> /\ ss \o a \in Seq(Seq(T)) /\ <<x>> \in Seq(Seq(T))
  BY AppendIsConcat
<1>2. Append(ss \o a, x) = (ss \o a) \o <<x>>
  BY <1>1, AppendIsConcat
<1>3. ss \o Append(a, x) = Append(ss \o a, x)
  BY <1>1, <1>2, ConcatAssociative, SMTT(30)
<1>4. /\ FlattenSeq(Append(ss \o a, x)) = FlattenSeq(ss \o a) \o x
      /\ FlattenSeq(Append(a, x)) = FlattenSeq(a) \o x
  BY <1>1, FlattenAppend
<1>5. FlattenSeq(ss) \in Seq(T) /\ FlattenSeq(a) \in Seq(T)
  BY FlattenType
<1>6. \A u, v \in Seq(T) : (u \o v) \o x = u \o (v \o x)
  BY Associates, SMTT(30)
<1>7. (FlattenSeq(ss) \o FlattenSeq(a)) \o x = FlattenSeq(ss) \o (FlattenSeq(a) \o x)
  BY <1>5, <1>6, Zenon
<1> QED
  BY <1>3, <1>4, <1>7

(* Flattening two lists is flattening each, by induction on the second. *)
LEMMA FlattenConcat ==
    ASSUME NEW T, NEW ss \in Seq(Seq(T)), NEW tt \in Seq(Seq(T))
    PROVE  FlattenSeq(ss \o tt) = FlattenSeq(ss) \o FlattenSeq(tt)
<1> DEFINE FirstOf(k) == SubSeq(tt, 1, k)
           S == {k \in Nat : k <= Len(tt) =>
                    FlattenSeq(ss \o FirstOf(k)) = FlattenSeq(ss) \o FlattenSeq(FirstOf(k))}
<1>1. 0 \in S
  <2>1. FirstOf(0) = <<>>
    BY SubSeqEmpty
  <2>2. FlattenSeq(ss) \in Seq(T) /\ FlattenSeq(<<>>) = <<>>
    BY FlattenType
  <2>3. ss \o <<>> = ss /\ FlattenSeq(ss) \o <<>> = FlattenSeq(ss)
    BY <2>2, ConcatEmptySeq
  <2> QED
    BY <2>1, <2>2, <2>3
<1>2. ASSUME NEW k \in S PROVE k + 1 \in S
  <2> SUFFICES ASSUME k + 1 <= Len(tt)
               PROVE  FlattenSeq(ss \o FirstOf(k + 1)) = FlattenSeq(ss) \o FlattenSeq(FirstOf(k + 1))
    OBVIOUS
  <2> DEFINE a == FirstOf(k)
             x == tt[k + 1]
  <2>0. k \in Nat /\ k <= Len(tt) /\ Len(tt) \in Nat
    OBVIOUS
  <2>1. x \in Seq(T) /\ a \in Seq(Seq(T))
    BY <2>0
  <2>2. FirstOf(k + 1) = Append(a, x)
    <3>1. SubSeq(tt, 1, k + 1) = SubSeq(tt, 1, k + 1 - 1) \o <<tt[k + 1]>>
      BY <2>0, SubSeqRecursiveSecond
    <3>2. k + 1 - 1 = k
      BY <2>0
    <3>3. Append(a, x) = a \o <<x>>
      BY <2>1, AppendIsConcat
    <3> QED
      BY <3>1, <3>2, <3>3
  <2>3. FlattenSeq(ss \o a) = FlattenSeq(ss) \o FlattenSeq(a)
    BY <2>0
  <2> HIDE DEF a, x, FirstOf
  <2> QED
    BY <2>1, <2>2, <2>3, FlattenConcatAppend, ZenonT(60)
<1> HIDE DEF S
<1>3. S = Nat
  <2>1. S \in SUBSET Nat
    BY DEF S
  <2> QED
    BY <1>1, <1>2, <2>1, SetInduction
<1>4. FirstOf(Len(tt)) = tt /\ Len(tt) \in Nat
  BY SubSeqFull
<1>5. FlattenSeq(ss \o FirstOf(Len(tt))) = FlattenSeq(ss) \o FlattenSeq(FirstOf(Len(tt)))
  BY <1>3, <1>4 DEF S
<1> QED
  BY <1>4, <1>5

(* Empty sequences flatten to the empty one. *)
LEMMA FlattenNothing ==
    ASSUME NEW T, NEW ss \in Seq(Seq(T)), \A i \in 1..Len(ss) : ss[i] = <<>>
    PROVE  FlattenSeq(ss) = <<>>
<1> DEFINE S == {k \in Nat : k <= Len(ss) => FlattenSeq(SubSeq(ss, 1, k)) = <<>>}
<1>1. 0 \in S
  <2>1. SubSeq(ss, 1, 0) = <<>>
    BY SubSeqEmpty
  <2>2. FlattenSeq(<<>>) = <<>>
    BY FlattenType
  <2> QED
    BY <2>1, <2>2
<1>2. ASSUME NEW k \in S PROVE k + 1 \in S
  <2> SUFFICES ASSUME k + 1 <= Len(ss) PROVE FlattenSeq(SubSeq(ss, 1, k + 1)) = <<>>
    OBVIOUS
  <2> DEFINE a == SubSeq(ss, 1, k)
  <2>0. k \in Nat /\ k <= Len(ss) /\ Len(ss) \in Nat /\ ss[k + 1] = <<>>
    OBVIOUS
  <2>1. a \in Seq(Seq(T)) /\ <<>> \in Seq(T)
    BY <2>0
  <2>2. SubSeq(ss, 1, k + 1) = Append(a, <<>>)
    <3>1. SubSeq(ss, 1, k + 1) = SubSeq(ss, 1, k + 1 - 1) \o <<ss[k + 1]>>
      BY <2>0, SubSeqRecursiveSecond
    <3>2. k + 1 - 1 = k
      BY <2>0
    <3>3. Append(a, <<>>) = a \o << <<>> >>
      BY <2>1, AppendIsConcat
    <3> QED
      BY <2>0, <3>1, <3>2, <3>3
  <2>3. FlattenSeq(a) = <<>>
    BY <2>0
  <2> HIDE DEF a
  <2>4. FlattenSeq(Append(a, <<>>)) = <<>> \o <<>>
    BY <2>1, <2>3, FlattenAppend
  <2>5. <<>> \o <<>> = <<>>
    BY <2>1, ConcatEmptySeq
  <2> QED
    BY <2>2, <2>4, <2>5
<1> HIDE DEF S
<1>3. S = Nat
  <2>1. S \in SUBSET Nat
    BY DEF S
  <2> QED
    BY <1>1, <1>2, <2>1, SetInduction
<1>4. SubSeq(ss, 1, Len(ss)) = ss /\ Len(ss) \in Nat
  BY SubSeqFull
<1>5. FlattenSeq(SubSeq(ss, 1, Len(ss))) = <<>>
  BY <1>3, <1>4 DEF S
<1> QED
  BY <1>4, <1>5
-----------------------------------------------------------------------------
(* The messages the wire format can carry, and the pieces a receiver makes. *)
Sendable == {m \in Seq(Byte) : Len(m) \in MessageLength}
GoodPiece == {p \in Piece : p.status <= 0 => p.message = <<>>}

(* What a call has taken goes to its parser or, of other endpoints, to the   *)
(* saved pieces, and an idle node has neither a local copy nor a parser.     *)
ReceiveInv ==
    /\ Inv
    /\ received \in [Endpoints -> Seq(Sendable)]
    /\ un_processed \in Seq(GoodPiece) /\ local \in Seq(GoodPiece)
    /\ receive_queue \in Seq(GoodPiece)
    /\ pc = "idle" => local = <<>> /\ reading = NoEndpoint
    /\ pc = "receiving" /\ reading = NoEndpoint => un_processed = <<>>
    /\ \A i \in 1..Len(un_processed) : un_processed[i].endpoint # reading

(* What a piece gives to endpoint e. *)
Part(e, piece) == IF piece.endpoint = e THEN piece.message ELSE <<>>
Parts(e, pieces) == [i \in DOMAIN pieces |-> Part(e, pieces[i])]

(* A piece gives bytes. *)
LEMMA PartFact ==
    ASSUME NEW e, NEW p \in GoodPiece
    PROVE  Part(e, p) \in Seq(Byte)
BY DEF Part, GoodPiece, Piece

(* So do pieces, each its own. *)
LEMMA PartsFact ==
    ASSUME NEW e, NEW ps \in Seq(GoodPiece)
    PROVE  /\ Parts(e, ps) \in Seq(Seq(Byte)) /\ Len(Parts(e, ps)) = Len(ps)
           /\ \A i \in 1..Len(ps) : Parts(e, ps)[i] = Part(e, ps[i])
<1>1. /\ DOMAIN ps = 1..Len(ps) /\ Len(ps) \in Nat
      /\ \A i \in 1..Len(ps) : ps[i] \in GoodPiece
  BY LenProperties
<1>2. \A i \in 1..Len(ps) : Part(e, ps[i]) \in Seq(Byte)
  BY <1>1, PartFact
<1>3. Parts(e, ps) \in [1..Len(ps) -> Seq(Byte)]
  BY <1>1, <1>2 DEF Parts
<1>4. Parts(e, ps) \in Seq(Seq(Byte))
  BY <1>1, <1>3
<1>5. Len(Parts(e, ps)) = Len(ps)
  BY <1>1, <1>3, <1>4
<1> QED
  BY <1>1, <1>4, <1>5 DEF Parts

(* The bytes of pieces are those parts, flattened. *)
LEMMA BytesOfType ==
    ASSUME NEW e, NEW ps \in Seq(GoodPiece)
    PROVE  BytesOf(e, ps) \in Seq(Byte) /\ BytesOf(e, ps) = FlattenSeq(Parts(e, ps))
<1>1. BytesOf(e, ps) = FlattenSeq(Parts(e, ps))
  BY DEF BytesOf, Parts, Part
<1> QED
  BY <1>1, PartsFact, FlattenType

(* The bytes of two lists of pieces are those of the first and the second. *)
LEMMA BytesOfConcat ==
    ASSUME NEW e, NEW ps \in Seq(GoodPiece), NEW qs \in Seq(GoodPiece)
    PROVE  BytesOf(e, ps \o qs) = BytesOf(e, ps) \o BytesOf(e, qs)
<1> DEFINE a == Parts(e, ps)
           b == Parts(e, qs)
           c == Parts(e, ps \o qs)
<1>1. ps \o qs \in Seq(GoodPiece) /\ Len(ps \o qs) = Len(ps) + Len(qs)
      /\ Len(ps) \in Nat /\ Len(qs) \in Nat
      /\ \A i \in 1..(Len(ps) + Len(qs)) :
            (ps \o qs)[i] = IF i <= Len(ps) THEN ps[i] ELSE qs[i - Len(ps)]
  BY ConcatProperties
<1>2. /\ a \in Seq(Seq(Byte)) /\ Len(a) = Len(ps) /\ \A i \in 1..Len(ps) : a[i] = Part(e, ps[i])
      /\ b \in Seq(Seq(Byte)) /\ Len(b) = Len(qs) /\ \A i \in 1..Len(qs) : b[i] = Part(e, qs[i])
  BY PartsFact
<1>3. /\ c \in Seq(Seq(Byte)) /\ Len(c) = Len(ps) + Len(qs)
      /\ \A i \in 1..(Len(ps) + Len(qs)) : c[i] = Part(e, (ps \o qs)[i])
  BY <1>1, PartsFact
<1> HIDE DEF a, b, c
<1>4. /\ a \o b \in Seq(Seq(Byte)) /\ Len(a \o b) = Len(a) + Len(b)
      /\ \A i \in 1..(Len(a) + Len(b)) :
            (a \o b)[i] = IF i <= Len(a) THEN a[i] ELSE b[i - Len(a)]
  <2>1. a \in Seq(Seq(Byte)) /\ b \in Seq(Seq(Byte))
    BY <1>2
  <2> QED
    BY <2>1, ConcatProperties
<1>5. ASSUME NEW i \in 1..(Len(ps) + Len(qs)) PROVE c[i] = (a \o b)[i]
  <2>1. CASE i <= Len(ps)
    <3>1. i \in 1..Len(ps)
      BY <2>1, <1>1
    <3> QED
      BY <3>1, <2>1, <1>1, <1>2, <1>3, <1>4
  <2>2. CASE ~(i <= Len(ps))
    <3>1. i - Len(ps) \in 1..Len(qs)
      BY <2>2, <1>1
    <3> QED
      BY <3>1, <2>2, <1>1, <1>2, <1>3, <1>4
  <2> QED
    BY <2>1, <2>2
<1>6. c = a \o b
  BY <1>2, <1>3, <1>4, <1>5, SeqEqual
<1>7. FlattenSeq(a \o b) = FlattenSeq(a) \o FlattenSeq(b)
  BY <1>2, FlattenConcat
<1> QED
  BY <1>1, <1>6, <1>7, BytesOfType DEF a, b, c

(* Pieces of other endpoints, or without bytes, give nothing. *)
LEMMA BytesOfNone ==
    ASSUME NEW e, NEW ps \in Seq(GoodPiece), \A i \in 1..Len(ps) : Part(e, ps[i]) = <<>>
    PROVE  BytesOf(e, ps) = <<>>
<1> DEFINE a == Parts(e, ps)
<1>1. a \in Seq(Seq(Byte)) /\ \A i \in 1..Len(a) : a[i] = <<>>
  BY PartsFact
<1> HIDE DEF a
<1>2. FlattenSeq(a) = <<>>
  BY <1>1, FlattenNothing
<1> QED
  BY <1>2, BytesOfType DEF a

(* No pieces have no bytes. *)
LEMMA BytesOfEmpty == \A e : BytesOf(e, <<>>) = <<>>
<1> SUFFICES ASSUME NEW e PROVE BytesOf(e, <<>>) = <<>>
  OBVIOUS
<1>1. <<>> \in Seq(GoodPiece) /\ \A i \in 1..Len(<<>>) : Part(e, <<>>[i]) = <<>>
  OBVIOUS
<1> QED
  BY <1>1, BytesOfNone

(* One piece has its own bytes. *)
LEMMA BytesOfOne ==
    ASSUME NEW e, NEW p \in GoodPiece
    PROVE  BytesOf(e, <<p>>) = Part(e, p)
<1> DEFINE s == <<p>>
           a == Parts(e, s)
           x == Part(e, p)
<1>1. s \in Seq(GoodPiece) /\ Len(s) = 1 /\ s[1] = p
  OBVIOUS
<1>2. a \in Seq(Seq(Byte)) /\ Len(a) = 1 /\ a[1] = x /\ x \in Seq(Byte)
  <2> HIDE DEF s
  <2>1. a \in Seq(Seq(Byte)) /\ Len(a) = 1
    BY <1>1, PartsFact
  <2>2. \A i \in 1..1 : a[i] = Part(e, s[i])
    BY <1>1, PartsFact
  <2> QED
    BY <1>1, <2>1, <2>2, PartFact
<1>3. BytesOf(e, <<p>>) = FlattenSeq(a)
  BY <1>1, BytesOfType
<1> HIDE DEF a, x
<1>4. a = Append(<<>>, x) /\ <<>> \in Seq(Seq(Byte))
  BY <1>2
<1>5. FlattenSeq(Append(<<>>, x)) = FlattenSeq(<<>>) \o x
  BY <1>2, <1>4, FlattenAppend
<1>6. FlattenSeq(<<>>) = <<>>
  BY <1>4, FlattenType
<1>7. <<>> \o x = x
  BY <1>2, ConcatFact
<1> QED
  BY <1>3, <1>4, <1>5, <1>6, <1>7 DEF x

(* A piece more, its bytes more. *)
LEMMA BytesOfAppend ==
    ASSUME NEW e, NEW ps \in Seq(GoodPiece), NEW p \in GoodPiece
    PROVE  BytesOf(e, Append(ps, p)) = BytesOf(e, ps) \o Part(e, p)
<1>1. Append(ps, p) = ps \o <<p>> /\ <<p>> \in Seq(GoodPiece)
  BY AppendIsConcat
<1> QED
  BY <1>1, BytesOfConcat, BytesOfOne

(* A message that fits its length serializes to bytes. *)
LEMMA SendableFact ==
    ASSUME NEW m \in Sendable
    PROVE  Serialize(m) \in Seq(Byte)
<1>1. m \in Seq(Byte) /\ HostToNetwork(Len(m)) \in Seq(Byte)
  BY NotationAssumption DEF Sendable
<1> DEFINE h == HostToNetwork(Len(m))
<1>2. h \in Seq(Byte)
  BY <1>1
<1> HIDE DEF h
<1>3. h \o m \in Seq(Byte)
  BY <1>1, <1>2
<1> QED
  BY <1>3 DEF Serialize, h

(* A message more, its bytes more. *)
LEMMA StreamAppend ==
    ASSUME NEW ms \in Seq(Sendable), NEW m \in Sendable
    PROVE  Stream(ms) \in Seq(Byte) /\ Stream(Append(ms, m)) = Stream(ms) \o Serialize(m)
<1> DEFINE a == [i \in DOMAIN ms |-> Serialize(ms[i])]
           b == [i \in DOMAIN Append(ms, m) |-> Serialize(Append(ms, m)[i])]
           n == Len(ms)
           x == Serialize(m)
<1>1. /\ DOMAIN ms = 1..n /\ n \in Nat /\ \A i \in 1..n : Serialize(ms[i]) \in Seq(Byte)
      /\ x \in Seq(Byte)
  <2>1. DOMAIN ms = 1..n /\ n \in Nat /\ \A i \in 1..n : ms[i] \in Sendable
    BY LenProperties
  <2> QED
    BY <2>1, SendableFact
<1>2. a \in Seq(Seq(Byte)) /\ Len(a) = n /\ \A i \in 1..n : a[i] = Serialize(ms[i])
  <2>1. a \in [1..n -> Seq(Byte)]
    BY <1>1
  <2> QED
    BY <1>1, <2>1
<1>3. /\ DOMAIN Append(ms, m) = 1..(n + 1) /\ Append(ms, m)[n + 1] = m
      /\ \A i \in 1..n : Append(ms, m)[i] = ms[i]
  BY AppendProperties, LenProperties
<1>4. DOMAIN b = 1..(n + 1) /\ b[n + 1] = x /\ \A i \in 1..n : b[i] = Serialize(ms[i])
  BY <1>1, <1>3
<1> HIDE DEF a, x, n
<1>5. /\ Append(a, x) \in Seq(Seq(Byte)) /\ Len(Append(a, x)) = n + 1
      /\ \A i \in 1..n : Append(a, x)[i] = a[i]
      /\ Append(a, x)[n + 1] = x
  BY <1>1, <1>2, AppendProperties
<1>6. b = Append(a, x)
  <2>1. b = [i \in 1..(n + 1) |-> b[i]]
    BY <1>4
  <2>2. Append(a, x) = [i \in 1..(n + 1) |-> Append(a, x)[i]]
    BY <1>5, LenProperties
  <2>3. ASSUME NEW i \in 1..(n + 1) PROVE b[i] = Append(a, x)[i]
    <3>1. i = n + 1 \/ i \in 1..n
      BY <1>1
    <3> QED
      BY <3>1, <1>2, <1>4, <1>5
  <2> HIDE DEF b
  <2> QED
    BY <2>1, <2>2, <2>3
<1>7. FlattenSeq(a) \in Seq(Byte) /\ FlattenSeq(Append(a, x)) = FlattenSeq(a) \o x
  BY <1>1, <1>2, FlattenType, FlattenAppend
<1>8. Stream(ms) = FlattenSeq(a) /\ Stream(Append(ms, m)) = FlattenSeq(b)
  BY DEF Stream, a
<1> QED
  BY <1>6, <1>7, <1>8 DEF x

-----------------------------------------------------------------------------
(* All the pieces to come, and those after the next. *)
Pending == local \o receive_queue
Rest == LocalAfterTake \o receive_queue'

(* A piece that is taken is the first of those saved, then of those on the  *)
(* queue (node.h:131-137).                                                  *)
LEMMA TakeFact ==
    ASSUME ReceiveInv, TakePiece
    PROVE  /\ Piece1 \in GoodPiece /\ LocalAfterTake \in Seq(GoodPiece)
           /\ receive_queue' \in Seq(GoodPiece) /\ Rest \in Seq(GoodPiece)
           /\ Pending = <<Piece1>> \o Rest
<1>1. local \in Seq(GoodPiece) /\ receive_queue \in Seq(GoodPiece) /\ Pending # <<>>
  BY DEF ReceiveInv, TakePiece, Pending
<1>2. CASE local = <<>>
  <2>1. Pending = receive_queue /\ receive_queue # <<>>
    BY <1>1, <1>2, ConcatEmptySeq DEF Pending
  <2>2. Piece1 = Head(receive_queue) /\ receive_queue' = Tail(receive_queue) /\ LocalAfterTake = <<>>
    BY <1>2, <2>1 DEF Pending, Piece1, TakePiece, LocalAfterTake
  <2>3. /\ Head(receive_queue) \in GoodPiece /\ Tail(receive_queue) \in Seq(GoodPiece)
        /\ receive_queue = <<Head(receive_queue)>> \o Tail(receive_queue)
    BY <1>1, <2>1
  <2>4. Rest = Tail(receive_queue)
    BY <2>2, <2>3, ConcatEmptySeq DEF Rest
  <2> QED
    BY <2>1, <2>2, <2>3, <2>4
<1>3. CASE local # <<>>
  <2>1. /\ Head(local) \in GoodPiece /\ Tail(local) \in Seq(GoodPiece)
        /\ local = <<Head(local)>> \o Tail(local)
    BY <1>1, <1>3
  <2>2. Piece1 = Head(local)
    BY <1>1, <1>3 DEF Piece1
  <2>3. receive_queue' = receive_queue /\ LocalAfterTake = Tail(local)
    BY <1>3 DEF TakePiece, LocalAfterTake
  <2> DEFINE h == Head(local)
             t == Tail(local)
  <2>4. <<h>> \in Seq(GoodPiece) /\ t \in Seq(GoodPiece) /\ local = <<h>> \o t
    BY <2>1
  <2> HIDE DEF h, t
  <2>5. (<<h>> \o t) \o receive_queue = <<h>> \o (t \o receive_queue)
    BY <1>1, <2>4, ConcatAssociative
  <2>6. t \o receive_queue \in Seq(GoodPiece)
    BY <1>1, <2>4
  <2> QED
    BY <1>1, <2>1, <2>2, <2>3, <2>4, <2>5, <2>6 DEF Pending, Rest, h, t
<1> QED
  BY <1>2, <1>3

(* The invariant holds at first. *)
LEMMA ReceiveInit == Init => ReceiveInv
<1> SUFFICES ASSUME Init PROVE ReceiveInv
  OBVIOUS
<1>1. Inv
  BY InitInv
<1> QED
  BY <1>1 DEF Init, ReceiveInv

(* A message that is complete can be sent. *)
LEMMA ReturnFact ==
    ASSUME ReceiveInv, ReceiveReturns
    PROVE  /\ reading \in Endpoints /\ MessageOf(parser) \in Sendable
           /\ parser.overflow \in Seq(Byte)
           /\ BytesIn(parser) = Serialize(MessageOf(parser)) \o parser.overflow
<1>1. reading \in Endpoints
  BY DEF ReceiveReturns, HasCompleteMessage, NewParser, TypeOK, ReceiveInv, Inv
<1>2. /\ parser.state = "PARSING_DONE" /\ parser.partial_message \in Seq(Byte)
      /\ parser.overflow \in Seq(Byte) /\ parser.partial_length \in Seq(Byte)
      /\ Len(parser.partial_length) = LengthBytes
      /\ parser.expected_length = NetworkToHost(parser.partial_length)
      /\ Len(parser.partial_message) = parser.expected_length
      /\ parser.expected_length \in MessageLength
  BY DEF ReceiveReturns, HasCompleteMessage, TypeOK, ReceiveInv, Inv, ParserOK, Parser
<1>3. HostToNetwork(Len(parser.partial_message)) = parser.partial_length
  <2>1. parser.partial_length \in [1..LengthBytes -> Byte]
    BY <1>2, LenProperties
  <2> QED
    BY <1>2, <2>1, NotationAssumption
<1> QED
  BY <1>1, <1>2, <1>3 DEF BytesIn, Serialize, MessageOf, Sendable

(* Each action keeps the invariant. *)
LEMMA ReceiveStep == ReceiveInv /\ [Next]_vars => ReceiveInv'
<1> SUFFICES ASSUME ReceiveInv, [Next]_vars PROVE ReceiveInv'
  OBVIOUS
<1>0. Inv /\ Inv'
  BY StepInv DEF ReceiveInv
<1> DEFINE Others == UNCHANGED <<received, un_processed, locals>>
<1>a. ASSUME Others, receive_queue' \in Seq(GoodPiece) PROVE ReceiveInv'
  BY <1>0, <1>a DEF ReceiveInv, locals
<1>1. ASSUME NEW e \in Endpoints, NEW m \in Messages, PeerSends(e, m) PROVE ReceiveInv'
  BY <1>1, <1>a DEF PeerSends, ReceiveInv
<1>2. ASSUME NEW e \in Endpoints, PeerCloses(e) PROVE ReceiveInv'
  BY <1>2, <1>a DEF PeerCloses, ReceiveInv
<1>3. ASSUME NEW e \in Endpoints, PeerResets(e) PROVE ReceiveInv'
  BY <1>3, <1>a DEF PeerResets, ReceiveInv
<1>4. ASSUME NEW e \in Endpoints, RunAtomic(e) PROVE ReceiveInv'
  <2>1. PICK n \in ReceiveResults(e) : receive_queue' = Append(receive_queue,
                [message |-> FirstBytes(wire[e], n), endpoint |-> e, status |-> n])
    BY <1>4 DEF RunAtomic
  <2>0. wire[e] \in Seq(Byte) /\ ReceiveChunkSize \in Nat
    BY <1>0, MessagesAssumption DEF Inv, TypeOK
  <2>2. wire[e] \in Seq(Byte) /\ n \in Int /\ (n > 0 => n \in 0..Len(wire[e])) /\ n >= -1
    BY <2>0 DEF ReceiveResults, Min2
  <2>3. FirstBytes(wire[e], n) \in Seq(Byte) /\ (n <= 0 => FirstBytes(wire[e], n) = <<>>)
    <3>1. CASE n > 0
      BY <3>1, <2>2, CutFact
    <3>2. CASE n <= 0
      BY <3>2, <2>2, SubSeqEmpty DEF FirstBytes
    <3> QED
      BY <3>1, <3>2, <2>2
  <2>4. [message |-> FirstBytes(wire[e], n), endpoint |-> e, status |-> n] \in GoodPiece
    BY <2>2, <2>3 DEF GoodPiece, Piece
  <2>5. receive_queue' \in Seq(GoodPiece)
    BY <2>1, <2>4 DEF ReceiveInv
  <2> QED
    BY <1>4, <1>a, <2>5 DEF RunAtomic
<1>5. ASSUME Receive PROVE ReceiveInv'
  BY <1>0, <1>5 DEF Receive, ReceiveInv, peers
<1>6. ASSUME SavePiece PROVE ReceiveInv'
  <2>1. /\ Piece1 \in GoodPiece /\ LocalAfterTake \in Seq(GoodPiece)
        /\ receive_queue' \in Seq(GoodPiece)
    BY <1>6, TakeFact DEF SavePiece
  <2>2. reading # NoEndpoint /\ Piece1.endpoint # reading
    BY <1>6 DEF SavePiece, IsForThisCall
  <2>3. pc = "receiving"
    BY <1>6 DEF SavePiece, TakePiece
  <2> DEFINE u == un_processed
             v == Append(u, Piece1)
  <2>4. /\ v \in Seq(GoodPiece) /\ Len(v) = Len(u) + 1 /\ Len(u) \in Nat
        /\ \A i \in 1..Len(u) : v[i] = u[i]
        /\ v[Len(u) + 1] = Piece1
    BY <2>1, AppendProperties DEF ReceiveInv
  <2>5. \A i \in 1..Len(v) : v[i].endpoint # reading
    <3> HIDE DEF v
    <3>1. ASSUME NEW i \in 1..Len(v) PROVE v[i].endpoint # reading
      <4>1. i \in 1..Len(u) \/ i = Len(u) + 1
        BY <2>4
      <4> QED
        BY <4>1, <2>2, <2>4 DEF ReceiveInv
    <3> QED
      BY <3>1
  <2> HIDE DEF v
  <2>6. un_processed' = v /\ local' = LocalAfterTake /\ UNCHANGED <<pc, reading, received>>
    BY <1>6 DEF SavePiece, v
  <2> QED
    BY <1>0, <2>1, <2>2, <2>3, <2>4, <2>5, <2>6 DEF ReceiveInv
<1>7. ASSUME ParsePiece PROVE ReceiveInv'
  <2>1. /\ Piece1 \in GoodPiece /\ LocalAfterTake \in Seq(GoodPiece)
        /\ receive_queue' \in Seq(GoodPiece)
    BY <1>7, TakeFact DEF ParsePiece
  <2>2. /\ reading' = Piece1.endpoint /\ local' = LocalAfterTake
        /\ UNCHANGED <<pc, un_processed, received>> /\ pc = "receiving"
        /\ reading = NoEndpoint \/ reading = reading'
    BY <1>7 DEF ParsePiece, TakePiece, IsForThisCall
  <2>3. reading' # NoEndpoint
    BY <2>1, <2>2, MessagesAssumption DEF GoodPiece, Piece
  <2>4. \A i \in 1..Len(un_processed) : un_processed[i].endpoint # reading'
    <3>1. CASE reading = NoEndpoint
      BY <3>1, <2>2 DEF ReceiveInv
    <3>2. CASE reading = reading'
      BY <3>2 DEF ReceiveInv
    <3> QED
      BY <2>2, <3>1, <3>2
  <2> QED
    BY <1>0, <2>1, <2>2, <2>3, <2>4 DEF ReceiveInv
<1>b. ASSUME NEW s \in Seq(GoodPiece) 
      PROVE \A i \in 1..Len(s) : s[i].endpoint # NoEndpoint
  <2>1. ASSUME NEW i \in 1..Len(s) PROVE s[i].endpoint # NoEndpoint
    <3>1. s[i] \in GoodPiece
      BY ElementOfSeq
    <3> QED
      BY <3>1, MessagesAssumption DEF GoodPiece, Piece
  <2> QED
    BY <2>1
<1>8. ASSUME ReceiveFails PROVE ReceiveInv'
  <2>1. receive_queue' \in Seq(GoodPiece)
    BY <1>8, TakeFact DEF ReceiveFails
  <2> QED
    BY <1>0, <1>8, <1>b, <2>1 DEF ReceiveFails, Return, ReceiveInv
<1>9. ASSUME ReceiveTimesOut PROVE ReceiveInv'
  BY <1>0, <1>9, <1>b DEF ReceiveTimesOut, Return, ReceiveInv
<1>10. ASSUME ReceiveReturns PROVE ReceiveInv'
  <2>1. reading \in Endpoints /\ MessageOf(parser) \in Sendable /\ parser.overflow \in Seq(Byte)
    BY <1>10, ReturnFact
  <2>2. received' \in [Endpoints -> Seq(Sendable)]
    BY <1>10, <2>1 DEF ReceiveReturns, ReceiveInv
  <2>3. SavedWithOverflow \in Seq(GoodPiece)
    <3>1. CASE parser.overflow = <<>>
      BY <3>1 DEF SavedWithOverflow, HasOverflow, ReceiveInv
    <3>2. CASE parser.overflow # <<>>
      <4>1. Len(parser.overflow) \in Nat \ {0}
        BY <3>2, <2>1
      <4>2. [message |-> parser.overflow, endpoint |-> reading, status |-> Len(parser.overflow)]
              \in GoodPiece
        BY <2>1, <4>1 DEF GoodPiece, Piece
      <4> QED
        BY <3>2, <4>2 DEF SavedWithOverflow, HasOverflow, ReceiveInv
    <3> QED
      BY <3>1, <3>2
  <2> QED
    BY <1>0, <1>10, <1>b, <2>2, <2>3 DEF ReceiveReturns, Return, ReceiveInv
<1>11. CASE UNCHANGED vars
  BY <1>0, <1>11 DEF vars, peers, locals, ReceiveInv
<1> QED
  BY <1>1, <1>2, <1>3, <1>4, <1>5, <1>6, <1>7, <1>8, <1>9, <1>10, <1>11 DEF Next
-----------------------------------------------------------------------------
(* The books of an endpoint. *)

Taken(e) == IF reading = e THEN BytesIn(parser) ELSE <<>>

(* Moving a part from the front of one sequence to the end of the one       *)
(* before.                                                                  *)
LEMMA Regroup ==
    ASSUME NEW x \in Seq(Byte), NEW b \in Seq(Byte), NEW c \in Seq(Byte), NEW d \in Seq(Byte)
    PROVE  (x \o b) \o (c \o d) = (x \o (b \o c)) \o d
<1>1. x \o b \in Seq(Byte)
  OBVIOUS
<1>2. (x \o b) \o (c \o d) = ((x \o b) \o c) \o d
  BY <1>1, AssociativeFact, ZenonT(30)
<1>3. (x \o b) \o c = x \o (b \o c)
  BY AssociativeFact, SMTT(30)
<1> QED
  BY <1>2, <1>3

(* The same for Join, which the provers do not look into. *)
LEMMA RegroupJoin ==
    \A x, b, c, d \in Seq(Byte) :
        Join(Join(x, b), Join(c, d)) = Join(Join(x, Join(b, c)), d)
BY Regroup DEF Join

(* Lists of pieces join associatively. *)
LEMMA PiecesJoin ==
    \A r, s, t \in Seq(GoodPiece) :
        Join(Join(r, s), t) = Join(r, Join(s, t)) /\ Join(r, s) \in Seq(GoodPiece)
BY ConcatAssociative DEF Join

(* What an endpoint has sent is a stream of bytes. *)
LEMMA StreamType == \A ms \in Seq(Sendable) : Stream(ms) \in Seq(Byte)
<1>1. <<>> \in Sendable
  BY FormatAssumption DEF Sendable, MessageLength
<1> QED
  BY <1>1, StreamAppend

(* The saved pieces, the local copy and the queue are read one after the    *)
(* other.                                                                   *)
LEMMA BytesOfThree ==
    ASSUME NEW e, NEW u \in Seq(GoodPiece), NEW l \in Seq(GoodPiece), NEW q \in Seq(GoodPiece)
    PROVE  /\ BytesOf(e, u \o l \o q) = BytesOf(e, u) \o BytesOf(e, l \o q)
           /\ BytesOf(e, l \o q) = BytesOf(e, l) \o BytesOf(e, q)
           /\ BytesOf(e, u) \in Seq(Byte) /\ BytesOf(e, l) \in Seq(Byte)
           /\ BytesOf(e, q) \in Seq(Byte) /\ BytesOf(e, l \o q) \in Seq(Byte)
<1>1. l \o q \in Seq(GoodPiece) /\ (u \o l) \o q = u \o (l \o q)
  BY ConcatAssociative
<1> QED
  BY <1>1, BytesOfConcat, BytesOfType, ZenonT(60)

(* Nothing is read from a local copy that is empty. *)
LEMMA BytesOfTwo ==
    ASSUME NEW e, NEW u \in Seq(GoodPiece), NEW q \in Seq(GoodPiece)
    PROVE  BytesOf(e, u \o <<>> \o q) = BytesOf(e, u) \o BytesOf(e, q)
<1>1. u \o <<>> = u
  BY ConcatEmptySeq
<1> QED
  BY <1>1, BytesOfConcat

(* The places a byte may be in hold bytes. *)
LEMMA BooksFact ==
    ASSUME ReceiveInv, NEW e \in Endpoints
    PROVE  /\ Stream(received[e]) \in Seq(Byte) /\ Taken(e) \in Seq(Byte)
           /\ wire[e] \in Seq(Byte) /\ Stream(received[e]) \o Taken(e) \in Seq(Byte)
           /\ received[e] \in Seq(Sendable) /\ sent[e] \in Seq(Sendable)
           /\ un_processed \in Seq(GoodPiece) /\ local \in Seq(GoodPiece)
           /\ receive_queue \in Seq(GoodPiece) /\ BytesIn(parser) \in Seq(Byte)
<1>1. /\ received[e] \in Seq(Sendable) /\ wire[e] \in Seq(Byte) /\ sent[e] \in Seq(Messages)
      /\ un_processed \in Seq(GoodPiece) /\ local \in Seq(GoodPiece)
      /\ receive_queue \in Seq(GoodPiece)
  BY DEF ReceiveInv, Inv, TypeOK
<1>2. Messages \subseteq Sendable
  BY MessagesAssumption DEF Sendable
<1>3. sent[e] \in Seq(Sendable)
  BY <1>1, <1>2, SeqMonotonic
<1>4. BytesIn(parser) \in Seq(Byte)
  <2>1. /\ parser.partial_length \in Seq(Byte) /\ parser.partial_message \in Seq(Byte)
        /\ parser.overflow \in Seq(Byte)
    BY DEF ReceiveInv, Inv, TypeOK, ParserOK, Parser
  <2> QED
    BY <2>1 DEF BytesIn
<1>5. Taken(e) \in Seq(Byte)
  BY <1>4 DEF Taken
<1>6. Stream(received[e]) \in Seq(Byte)
  BY <1>1, StreamType
<1> DEFINE x == Stream(received[e])
           y == Taken(e)
<1>7. x \o y \in Seq(Byte)
  <2>1. x \in Seq(Byte) /\ y \in Seq(Byte)
    BY <1>5, <1>6
  <2> HIDE DEF x, y
  <2> QED
    BY <2>1
<1> QED
  BY <1>1, <1>3, <1>4, <1>5, <1>6, <1>7

(* A peer that sends puts the bytes of its message on the wire. *)
LEMMA SendsBooks ==
    ASSUME ReceiveInv, NEW e \in Endpoints, Accounted(e),
           NEW d \in Endpoints, NEW m \in Messages, PeerSends(d, m)
    PROVE  Accounted(e)'
<1> DEFINE B == BytesOf(e, un_processed \o local \o receive_queue)
           x == Stream(received[e]) \o Taken(e) \o B
<1>1. Stream(sent[e]) = x \o wire[e]
  BY DEF Accounted, Taken
<1>2. UNCHANGED <<x, Taken(e)>>
  BY DEF PeerSends, locals, Taken
<1>3. CASE d # e
  <2>1. sent'[e] = sent[e] /\ wire'[e] = wire[e]
    BY <1>3 DEF PeerSends, ReceiveInv, Inv, TypeOK
  <2> QED
    BY <1>1, <1>2, <2>1 DEF Accounted, Taken
<1>4. CASE d = e
  <2>1. sent'[e] = Append(sent[e], m) /\ wire'[e] = wire[e] \o Serialize(m)
    BY <1>4 DEF PeerSends, ReceiveInv, Inv, TypeOK
  <2>2. m \in Sendable /\ sent[e] \in Seq(Sendable)
    BY MessagesAssumption, BooksFact DEF Sendable
  <2>3. Stream(sent'[e]) = Stream(sent[e]) \o Serialize(m)
    BY <2>1, <2>2, StreamAppend
  <2>4. x \in Seq(Byte)
    <3>1. B \in Seq(Byte)
      <4> DEFINE A == un_processed \o local \o receive_queue
      <4>1. A \in Seq(GoodPiece)
        BY BooksFact
      <4> HIDE DEF A
      <4>2. BytesOf(e, A) \in Seq(Byte)
        BY <4>1, BytesOfType
      <4> QED
        BY <4>2 DEF A
    <3>2. Stream(received[e]) \o Taken(e) \in Seq(Byte)
      BY BooksFact
    <3> HIDE DEF B
    <3> QED
      BY <3>1, <3>2
  <2>5. Serialize(m) \in Seq(Byte) /\ wire[e] \in Seq(Byte)
    BY <2>2, SendableFact, BooksFact
  <2> DEFINE sm == Serialize(m)
             w == wire[e]
  <2>6. (x \o w) \o sm = x \o (w \o sm)
    <3> HIDE DEF x, sm, w
    <3> QED
      BY <2>4, <2>5, AssociativeFact DEF sm, w
  <2>7. Stream(sent'[e]) = x' \o wire'[e]
    BY <1>1, <1>2, <2>1, <2>3, <2>6
  <2> QED
    BY <2>7 DEF Accounted, Taken
<1> QED
  BY <1>3, <1>4

(* What a receiver task takes off the wire it puts on the queue             *)
(* (receiver_task.cpp).                                                     *)
LEMMA RunBooks ==
    ASSUME ReceiveInv, NEW e \in Endpoints, Accounted(e), NEW d \in Endpoints, RunAtomic(d)
    PROVE  Accounted(e)'
<1> DEFINE A == un_processed \o local \o receive_queue
           x == Stream(received[e]) \o Taken(e)
<1>1. PICK n \in ReceiveResults(d) :
          /\ receive_queue' = Append(receive_queue,
                [message |-> FirstBytes(wire[d], n), endpoint |-> d, status |-> n])
          /\ wire' = [wire EXCEPT ![d] = IF n > 0 THEN BytesFrom(@, n) ELSE @]
  BY DEF RunAtomic
<1> DEFINE p == [message |-> FirstBytes(wire[d], n), endpoint |-> d, status |-> n]
<1>2. /\ UNCHANGED <<x, Taken(e), sent, un_processed, local>>
  BY DEF RunAtomic, locals, Taken
<1>3. wire[d] \in Seq(Byte) /\ n \in Int /\ (n > 0 => n \in 0..Len(wire[d])) /\ n >= -1
  <2>1. wire[d] \in Seq(Byte) /\ ReceiveChunkSize \in Nat
    BY MessagesAssumption DEF ReceiveInv, Inv, TypeOK
  <2> QED
    BY <2>1 DEF ReceiveResults, Min2
<1>4. FirstBytes(wire[d], n) \in Seq(Byte) /\ (n <= 0 => FirstBytes(wire[d], n) = <<>>)
  <2>1. CASE n > 0
    BY <2>1, <1>3, CutFact
  <2>2. CASE n <= 0
    BY <2>2, <1>3, SubSeqEmpty DEF FirstBytes
  <2> QED
    BY <2>1, <2>2, <1>3
<1>5. p \in GoodPiece
  BY <1>3, <1>4 DEF GoodPiece, Piece
<1>6. A \in Seq(GoodPiece) /\ A' = Append(A, p)
  <2>1. /\ un_processed \in Seq(GoodPiece) /\ local \in Seq(GoodPiece)
        /\ receive_queue \in Seq(GoodPiece)
    BY BooksFact
  <2> DEFINE ul == un_processed \o local
  <2>2. ul \in Seq(GoodPiece)
    BY <2>1
  <2>3. A' = ul \o Append(receive_queue, p)
    BY <1>1, <1>2
  <2> HIDE DEF ul, p
  <2>4. ul \o Append(receive_queue, p) = Append(ul \o receive_queue, p)
    <3>1. ul \o receive_queue \in Seq(GoodPiece) /\ <<p>> \in Seq(GoodPiece)
      BY <1>5, <2>1, <2>2
    <3>2. /\ Append(receive_queue, p) = receive_queue \o <<p>>
          /\ Append(ul \o receive_queue, p) = (ul \o receive_queue) \o <<p>>
      BY <1>5, <2>1, <3>1, AppendIsConcat
    <3>3. (ul \o receive_queue) \o <<p>> = ul \o (receive_queue \o <<p>>)
      BY <2>1, <2>2, <3>1, ConcatAssociative, SMTT(30)
    <3> QED
      BY <3>2, <3>3
  <2>5. ul \o receive_queue \in Seq(GoodPiece)
    BY <2>1, <2>2
  <2> QED
    BY <2>3, <2>4, <2>5 DEF ul
<1> DEFINE b == BytesOf(e, A)
           c == Part(e, p)
           w == wire'[e]
<1>7. BytesOf(e, A') = b \o c /\ b \in Seq(Byte) /\ c \in Seq(Byte)
  <2> HIDE DEF A, p
  <2> QED
    BY <1>5, <1>6, BytesOfAppend, BytesOfType, PartFact
<1>8. wire[e] = c \o w /\ w \in Seq(Byte)
  <2>0. wire[e] \in Seq(Byte) /\ <<>> \o wire[e] = wire[e]
    BY BooksFact, ConcatFact
  <2>1. CASE d # e
    <3>1. c = <<>> /\ w = wire[e]
      BY <1>1, <2>1 DEF Part, ReceiveInv, Inv, TypeOK
    <3> QED
      BY <2>0, <3>1
  <2>2. CASE d = e /\ n <= 0
    <3>1. c = <<>> /\ w = wire[e]
      BY <1>1, <1>3, <1>4, <2>2 DEF Part, ReceiveInv, Inv, TypeOK
    <3> QED
      BY <2>0, <3>1
  <2>3. CASE d = e /\ n > 0
    <3>1. c = FirstBytes(wire[e], n) /\ w = BytesFrom(wire[e], n)
      BY <1>1, <2>3 DEF Part, ReceiveInv, Inv, TypeOK
    <3> DEFINE v == wire[e]
    <3>2. v \in Seq(Byte) /\ n \in 0..Len(v)
      BY <1>3, <2>3
    <3> HIDE DEF v
    <3>3. FirstBytes(v, n) \o BytesFrom(v, n) = v /\ BytesFrom(v, n) \in Seq(Byte)
      BY <3>2, CutFact
    <3> QED
      BY <3>1, <3>3 DEF v
  <2> HIDE DEF c, w
  <2>4. n <= 0 \/ n > 0
    BY <1>3
  <2> QED
    BY <2>1, <2>2, <2>3, <2>4
<1>9. x \in Seq(Byte)
  BY BooksFact
<1>10. Stream(sent[e]) = x \o b \o wire[e]
  BY DEF Accounted, Taken
<1> HIDE DEF b, c, w, x, A, p
<1>11. Stream(sent[e]) = (x \o (b \o c)) \o w
  <2>0. x \in Seq(Byte) /\ b \in Seq(Byte) /\ c \in Seq(Byte) /\ w \in Seq(Byte)
    BY <1>7, <1>8, <1>9
  <2>1. (x \o b) \o (c \o w) = (x \o (b \o c)) \o w
    <3>1. Join(Join(x, b), Join(c, w)) = Join(Join(x, Join(b, c)), w)
      BY <2>0, RegroupJoin
    <3> QED
      BY <3>1 DEF Join
  <2> QED
    BY <1>8, <1>10, <2>1
<1>12. Stream(sent[e])' = (x' \o BytesOf(e, A')) \o wire'[e]
  BY <1>2, <1>7, <1>11 DEF w
<1> QED
  BY <1>12 DEF Accounted, Taken, x, A

(* A list that only other endpoints have pieces in. *)
LEMMA NoneOf ==
    ASSUME NEW e, NEW ps \in Seq(GoodPiece), \A i \in 1..Len(ps) : ps[i].endpoint # e
    PROVE  BytesOf(e, ps) = <<>>
BY BytesOfNone DEF Part

(* A call copies the saved pieces (node.h:118-127). *)
LEMMA ReceiveBooks ==
    ASSUME ReceiveInv, NEW e \in Endpoints, Accounted(e), Receive
    PROVE  Accounted(e)'
<1>1. local = <<>> /\ reading = NoEndpoint /\ un_processed \in Seq(GoodPiece)
  BY DEF Receive, ReceiveInv
<1>2. /\ local' = un_processed /\ un_processed' = <<>> /\ reading' = NoEndpoint
      /\ UNCHANGED <<sent, wire, receive_queue, received>>
  BY DEF Receive, peers
<1>3. un_processed \o <<>> = <<>> \o un_processed
  BY <1>1, ConcatEmptySeq
<1>4. e # NoEndpoint
  BY MessagesAssumption
<1> QED
  BY <1>1, <1>2, <1>3, <1>4 DEF Accounted

(* A piece that is taken was the first of those to come. *)
LEMMA TakeBytes ==
    ASSUME ReceiveInv, TakePiece, NEW e
    PROVE  /\ Part(e, Piece1) \in Seq(Byte) /\ BytesOf(e, Rest) \in Seq(Byte)
           /\ BytesOf(e, Pending) = Part(e, Piece1) \o BytesOf(e, Rest)
<1>1. Piece1 \in GoodPiece /\ Rest \in Seq(GoodPiece) /\ Pending = <<Piece1>> \o Rest
  BY TakeFact
<1>2. <<Piece1>> \in Seq(GoodPiece)
  BY <1>1
<1>3. BytesOf(e, <<Piece1>> \o Rest) = BytesOf(e, <<Piece1>>) \o BytesOf(e, Rest)
  BY <1>1, <1>2, BytesOfConcat
<1> QED
  BY <1>1, <1>3, BytesOfOne, BytesOfType, PartFact

(* A piece of another endpoint goes behind the saved ones, before all that  *)
(* is still to come (node.h:143-147).                                       *)
LEMMA SaveBooks ==
    ASSUME ReceiveInv, NEW e \in Endpoints, Accounted(e), SavePiece
    PROVE  Accounted(e)'
<1>1. /\ Piece1 \in GoodPiece /\ LocalAfterTake \in Seq(GoodPiece)
      /\ receive_queue' \in Seq(GoodPiece) /\ Rest \in Seq(GoodPiece)
      /\ Pending = <<Piece1>> \o Rest
  BY TakeFact DEF SavePiece
<1>2. /\ un_processed' = Append(un_processed, Piece1) /\ local' = LocalAfterTake
      /\ UNCHANGED <<sent, wire, received, reading, parser>>
  BY DEF SavePiece, peers
<1>3. /\ un_processed \in Seq(GoodPiece) /\ local \in Seq(GoodPiece)
      /\ receive_queue \in Seq(GoodPiece)
  BY BooksFact
<1> DEFINE u == un_processed
           s == <<Piece1>>
<1>4. s \in Seq(GoodPiece) /\ Append(u, Piece1) = u \o s
  BY <1>1, <1>3, AppendIsConcat
<1> HIDE DEF s
<1> DEFINE l == LocalAfterTake
           q == receive_queue'
<1>5. /\ u \in Seq(GoodPiece) /\ s \in Seq(GoodPiece) /\ l \in Seq(GoodPiece)
      /\ q \in Seq(GoodPiece) /\ Join(local, receive_queue) = Join(s, Join(l, q))
  BY <1>1, <1>3, <1>4 DEF Join, Rest, Pending, s
<1> HIDE DEF u, l, q
<1>6. Join(Join(u, local), receive_queue) = Join(u, Join(s, Join(l, q)))
  BY <1>3, <1>5, PiecesJoin
<1>7. Join(Join(Join(u, s), l), q) = Join(u, Join(s, Join(l, q)))
  BY <1>5, PiecesJoin
<1>8. (un_processed \o local \o receive_queue)' = un_processed \o local \o receive_queue
  BY <1>2, <1>4, <1>6, <1>7 DEF Join, u, l, q
<1> QED
  BY <1>2, <1>8 DEF Accounted

(* A piece of the endpoint goes to the parser, and none of its pieces was   *)
(* saved before (node.h:154).                                               *)
LEMMA ParseBooks ==
    ASSUME ReceiveInv, NEW e \in Endpoints, Accounted(e), ParsePiece
    PROVE  Accounted(e)'
<1> DEFINE r == Stream(received[e])
           t == Taken(e)
           m == Part(e, Piece1)
           b == BytesOf(e, Rest)
           u == BytesOf(e, un_processed)
<1>1. /\ TakePiece /\ reading' = Piece1.endpoint /\ local' = LocalAfterTake
      /\ parser' = AddNewData(parser, Piece1.message)
      /\ UNCHANGED <<sent, wire, received, un_processed>>
      /\ reading = NoEndpoint \/ reading = Piece1.endpoint
      /\ pc = "receiving"
  BY DEF ParsePiece, IsForThisCall, peers, TakePiece
<1>2. /\ Piece1 \in GoodPiece /\ LocalAfterTake \in Seq(GoodPiece)
      /\ receive_queue' \in Seq(GoodPiece) /\ Piece1.message \in Seq(Byte)
      /\ Piece1.endpoint \in Endpoints
  BY <1>1, TakeFact DEF GoodPiece, Piece
<1>3. /\ m \in Seq(Byte) /\ b \in Seq(Byte)
      /\ BytesOf(e, Pending) = m \o b
  BY <1>1, TakeBytes
<1>4. /\ r \in Seq(Byte) /\ t \in Seq(Byte) /\ r \o t \in Seq(Byte)
      /\ un_processed \in Seq(GoodPiece) /\ local \in Seq(GoodPiece)
      /\ receive_queue \in Seq(GoodPiece)
  BY BooksFact
<1>5. /\ BytesOf(e, un_processed \o local \o receive_queue) = u \o (m \o b)
      /\ u \in Seq(Byte)
  <2>1. /\ BytesOf(e, un_processed \o local \o receive_queue)
              = BytesOf(e, un_processed) \o BytesOf(e, local \o receive_queue)
        /\ BytesOf(e, un_processed) \in Seq(Byte)
    BY <1>4, BytesOfThree, ZenonT(30)
  <2> QED
    BY <1>3, <2>1 DEF Pending
<1>6. BytesOf(e, un_processed \o LocalAfterTake \o receive_queue') = u \o b
  <2> DEFINE l == LocalAfterTake
             q == receive_queue'
             v == un_processed
  <2>1. v \in Seq(GoodPiece) /\ l \in Seq(GoodPiece) /\ q \in Seq(GoodPiece)
    BY <1>2, <1>4
  <2> HIDE DEF l, q, v
  <2>2. BytesOf(e, v \o l \o q) = BytesOf(e, v) \o BytesOf(e, l \o q)
    BY <2>1, BytesOfThree, ZenonT(30)
  <2> QED
    BY <2>2 DEF Rest, l, q, v
<1>7. Taken(e)' = t \o m /\ (Piece1.endpoint = e => u = <<>>)
  <2>1. CASE Piece1.endpoint = e
    <3>1. m = Piece1.message /\ Taken(e)' = BytesIn(AddNewData(parser, Piece1.message))
      BY <1>1, <2>1 DEF Part, Taken
    <3>2. BytesIn(AddNewData(parser, Piece1.message)) = BytesIn(parser) \o Piece1.message
      BY <1>2, AddNewDataConserves DEF ReceiveInv, Inv, TypeOK
    <3>3. t = BytesIn(parser)
      <4>1. CASE reading = e
        BY <4>1 DEF Taken
      <4>2. CASE reading = NoEndpoint
        BY <4>2, NewParserFact, MessagesAssumption DEF Taken, ReceiveInv, Inv
      <4> QED
        BY <1>1, <2>1, <4>1, <4>2
    <3>4. \A i \in 1..Len(un_processed) : un_processed[i].endpoint # e
      <4>1. CASE reading = NoEndpoint
        BY <4>1, <1>1 DEF TakePiece, ReceiveInv
      <4>2. CASE reading = e
        BY <4>2 DEF ReceiveInv
      <4> QED
        BY <1>1, <2>1, <4>1, <4>2
    <3> QED
      BY <1>4, <3>1, <3>2, <3>3, <3>4, NoneOf
  <2>2. CASE Piece1.endpoint # e
    <3>1. m = <<>> /\ Taken(e)' = <<>> /\ t = <<>>
      BY <1>1, <2>2, MessagesAssumption DEF Part, Taken
    <3> QED
      BY <2>2, <3>1
  <2> QED
    BY <2>1, <2>2
<1>8. Stream(sent[e]) = ((r \o t) \o (u \o (m \o b))) \o wire[e]
  BY <1>5 DEF Accounted, Taken
<1>9. m = <<>> \/ u = <<>>
  BY <1>7 DEF Part
<1> HIDE DEF r, t, m, b, u
<1>10. (r \o t) \o (u \o (m \o b)) = (r \o (t \o m)) \o (u \o b)
  <2>1. CASE u = <<>>
    <3>1. u \o (m \o b) = m \o b /\ u \o b = b
      BY <1>3, <2>1, ConcatFact
    <3>2. (r \o t) \o (m \o b) = (r \o (t \o m)) \o b
      <4>1. r \in Seq(Byte) /\ t \in Seq(Byte) /\ m \in Seq(Byte) /\ b \in Seq(Byte)
        BY <1>3, <1>4
      <4>2. Join(Join(r, t), Join(m, b)) = Join(Join(r, Join(t, m)), b)
        BY <4>1, RegroupJoin
      <4> QED
        BY <4>2 DEF Join
    <3> QED
      BY <3>1, <3>2
  <2>2. CASE m = <<>>
    BY <1>3, <1>4, <2>2, ConcatFact
  <2> QED
    BY <1>9, <2>1, <2>2
<1>11. Stream(sent[e]) = ((r \o (t \o m)) \o (u \o b)) \o wire[e]
  BY <1>8, <1>10
<1>12. Stream(sent[e])' =
          ((Stream(received[e])' \o Taken(e)')
              \o BytesOf(e, un_processed' \o local' \o receive_queue')) \o wire'[e]
  BY <1>1, <1>6, <1>7, <1>11 DEF r
<1> QED
  BY <1>12 DEF Accounted, Taken

(* Nothing of e is in the local copy, or half read. *)
NothingAtStake(e) ==
    /\ \A i \in 1..Len(local) : local[i].endpoint # e
    /\ reading = e => HasCompleteMessage(parser)

(* A return without a message loses nothing of an endpoint that had nothing *)
(* at stake (node.h:134-152).                                               *)
LEMMA FailBooks ==
    ASSUME ReceiveInv, NEW e \in Endpoints, Accounted(e), NothingAtStake(e),
           ReceiveFails \/ ReceiveTimesOut
    PROVE  Accounted(e)'
<1> DEFINE u == BytesOf(e, un_processed)
           q == BytesOf(e, receive_queue)
<1>1. /\ local' = <<>> /\ reading' = NoEndpoint /\ UNCHANGED <<sent, wire, received, un_processed>>
      /\ ~HasCompleteMessage(parser)
  BY DEF ReceiveFails, ReceiveTimesOut, TakePiece, Return, peers
<1>2. /\ un_processed \in Seq(GoodPiece) /\ local \in Seq(GoodPiece)
      /\ receive_queue \in Seq(GoodPiece)
  BY BooksFact
<1>3. BytesOf(e, local) = <<>>
  BY <1>2, NoneOf DEF NothingAtStake
<1>4. /\ BytesOf(e, un_processed \o local \o receive_queue) = u \o q
      /\ q \in Seq(Byte)
  <2>1. /\ BytesOf(e, un_processed \o local \o receive_queue)
              = BytesOf(e, un_processed) \o BytesOf(e, local \o receive_queue)
        /\ BytesOf(e, local \o receive_queue) = BytesOf(e, local) \o BytesOf(e, receive_queue)
        /\ BytesOf(e, receive_queue) \in Seq(Byte)
    BY <1>2, BytesOfThree, ZenonT(60)
  <2> QED
    BY <1>3, <2>1, ConcatFact
<1>5. BytesOf(e, receive_queue') = q /\ receive_queue' \in Seq(GoodPiece)
  <2>1. CASE ReceiveTimesOut
    BY <1>2, <2>1 DEF ReceiveTimesOut
  <2>2. CASE ReceiveFails /\ local # <<>>
    BY <1>2, <2>2 DEF ReceiveFails, TakePiece
  <2>3. CASE ReceiveFails /\ local = <<>>
    <3>1. TakePiece /\ Piece1.status <= 0
      BY <2>3 DEF ReceiveFails
    <3>2. Piece1 \in GoodPiece /\ receive_queue' \in Seq(GoodPiece)
      BY <3>1, TakeFact
    <3>3. Part(e, Piece1) = <<>>
      BY <3>1, <3>2 DEF GoodPiece, Part
    <3>4. /\ BytesOf(e, Pending) = Part(e, Piece1) \o BytesOf(e, Rest)
          /\ BytesOf(e, Rest) \in Seq(Byte)
      BY <3>1, TakeBytes
    <3>5. Pending = receive_queue /\ Rest = receive_queue'
      BY <1>2, <2>3, <3>2, ConcatEmptySeq DEF Pending, Rest, LocalAfterTake
    <3> QED
      BY <3>2, <3>3, <3>4, <3>5, ConcatFact
  <2> QED
    BY <2>1, <2>2, <2>3
<1>6. BytesOf(e, un_processed \o <<>> \o receive_queue') = u \o q
  <2> DEFINE qq == receive_queue'
  <2> HIDE DEF qq
  <2>1. qq \in Seq(GoodPiece) /\ BytesOf(e, qq) = q
    BY <1>5 DEF qq
  <2>2. BytesOf(e, un_processed \o <<>> \o qq) = BytesOf(e, un_processed) \o BytesOf(e, qq)
    BY <1>2, <2>1, BytesOfTwo
  <2> QED
    BY <2>1, <2>2 DEF qq
<1>7. reading # e /\ e # NoEndpoint
  BY <1>1, MessagesAssumption DEF NothingAtStake
<1> HIDE DEF u, q
<1> QED
  BY <1>1, <1>4, <1>6, <1>7 DEF Accounted

(* A return with a message moves it from the parser, and saves what follows *)
(* it (node.h:157-166).                                                     *)
LEMMA ReturnBooks ==
    ASSUME ReceiveInv, NEW e \in Endpoints, Accounted(e), NothingAtStake(e), ReceiveReturns
    PROVE  Accounted(e)'
<1> DEFINE r == Stream(received[e])
           o == parser.overflow
           sm == Serialize(MessageOf(parser))
           u == BytesOf(e, un_processed)
           q == BytesOf(e, receive_queue)
           p == [message |-> o, endpoint |-> reading, status |-> Len(o)]
<1>1. /\ local' = <<>> /\ reading' = NoEndpoint /\ UNCHANGED <<sent, wire, receive_queue>>
      /\ received' = [received EXCEPT ![reading] = Append(@, MessageOf(parser))]
      /\ un_processed' = SavedWithOverflow
  BY DEF ReceiveReturns, Return, peers
<1>2. /\ reading \in Endpoints /\ MessageOf(parser) \in Sendable /\ o \in Seq(Byte)
      /\ BytesIn(parser) = sm \o o /\ sm \in Seq(Byte)
  BY ReturnFact, SendableFact
<1>3. /\ un_processed \in Seq(GoodPiece) /\ local \in Seq(GoodPiece)
      /\ receive_queue \in Seq(GoodPiece) /\ received[e] \in Seq(Sendable) /\ r \in Seq(Byte)
  BY BooksFact
<1>4. BytesOf(e, local) = <<>>
  BY <1>3, NoneOf DEF NothingAtStake
<1>5. /\ BytesOf(e, un_processed \o local \o receive_queue) = u \o q
      /\ q \in Seq(Byte) /\ u \in Seq(Byte)
  <2>1. /\ BytesOf(e, un_processed \o local \o receive_queue)
              = BytesOf(e, un_processed) \o BytesOf(e, local \o receive_queue)
        /\ BytesOf(e, local \o receive_queue) = BytesOf(e, local) \o BytesOf(e, receive_queue)
        /\ BytesOf(e, receive_queue) \in Seq(Byte) /\ BytesOf(e, un_processed) \in Seq(Byte)
    BY <1>3, BytesOfThree, ZenonT(60)
  <2> QED
    BY <1>4, <2>1, ConcatFact
<1> DEFINE x == Part(e, p)
<1>6. /\ un_processed' \in Seq(GoodPiece)
      /\ BytesOf(e, un_processed') = u \o x /\ x \in Seq(Byte)
  <2>1. CASE o = <<>>
    <3>1. un_processed' = un_processed /\ x = <<>>
      BY <1>1, <2>1 DEF SavedWithOverflow, HasOverflow, Part
    <3> QED
      BY <1>3, <1>5, <3>1, ConcatFact, SMTT(30)
  <2>2. CASE o # <<>>
    <3>1. p \in GoodPiece
      <4>1. Len(o) \in Nat \ {0}
        BY <1>2, <2>2
      <4> QED
        BY <1>2, <4>1 DEF GoodPiece, Piece
    <3>2. un_processed' = Append(un_processed, p)
      BY <1>1, <2>2 DEF SavedWithOverflow, HasOverflow
    <3> HIDE DEF p
    <3> QED
      BY <1>3, <3>1, <3>2, BytesOfAppend, PartFact
  <2> QED
    BY <2>1, <2>2
<1>7. BytesOf(e, un_processed' \o <<>> \o receive_queue) = (u \o x) \o q
  <2> DEFINE v == un_processed'
  <2> HIDE DEF v, x, u
  <2>1. v \in Seq(GoodPiece) /\ BytesOf(e, v) = u \o x
    BY <1>6 DEF v
  <2>2. BytesOf(e, v \o <<>> \o receive_queue) = BytesOf(e, v) \o BytesOf(e, receive_queue)
    BY <1>3, <2>1, BytesOfTwo
  <2> QED
    BY <2>1, <2>2 DEF v
<1>8. e # NoEndpoint
  BY MessagesAssumption
<1>9. CASE reading # e
  <2>1. received'[e] = received[e] /\ x = <<>>
    BY <1>1, <1>2, <1>9 DEF ReceiveInv, Part
  <2>2. u \o x = u
    BY <1>5, <2>1, ConcatFact
  <2> QED
    BY <1>1, <1>5, <1>7, <1>8, <1>9, <2>1, <2>2 DEF Accounted
<1>10. CASE reading = e
  <2>1. received'[e] = Append(received[e], MessageOf(parser)) /\ x = o
    BY <1>1, <1>2, <1>10 DEF ReceiveInv, Part
  <2>2. Stream(received'[e]) = r \o sm
    BY <1>2, <1>3, <2>1, StreamAppend
  <2>3. u = <<>>
    BY <1>3, <1>10, NoneOf DEF ReceiveInv
  <2>4. Stream(sent[e]) = ((r \o (sm \o o)) \o (u \o q)) \o wire[e]
    BY <1>2, <1>5, <1>10 DEF Accounted
  <2>5. /\ r \in Seq(Byte) /\ sm \in Seq(Byte) /\ o \in Seq(Byte) /\ q \in Seq(Byte)
    BY <1>2, <1>3, <1>5
  <2> HIDE DEF r, sm, o, q, u, x
  <2>6. (r \o (sm \o o)) \o (u \o q) = ((r \o sm) \o <<>>) \o ((u \o o) \o q)
    <3>1. Join(Join(r, sm), Join(o, q)) = Join(Join(r, Join(sm, o)), q)
      BY <2>5, RegroupJoin
    <3>2. u \o q = q /\ u \o o = o
      BY <2>3, <2>5, ConcatFact
    <3>3. (r \o sm) \o <<>> = r \o sm
      BY <2>5, ConcatFact
    <3> QED
      BY <3>1, <3>2, <3>3 DEF Join
  <2> QED
    BY <1>1, <1>7, <1>8, <2>1, <2>2, <2>4, <2>6 DEF Accounted
<1> QED
  BY <1>9, <1>10

(* What OnlyReturnsLose allows, as one formula. *)
MayLose(e) ==
    \/ link'[e] = "reset"
    \/ /\ pc = "receiving" /\ pc' = "idle"
       /\ \/ \E i \in DOMAIN local : local[i].endpoint = e
          \/ reading = e /\ ~HasCompleteMessage(parser)

(* What OnlyReturnsLose does not admit has nothing at stake. *)
LEMMA StakeFact ==
    ASSUME ReceiveInv, NEW e, ~MayLose(e), ReceiveFails \/ ReceiveTimesOut \/ ReceiveReturns
    PROVE  NothingAtStake(e)
<1>1. pc = "receiving" /\ pc' = "idle"
  BY DEF ReceiveFails, ReceiveTimesOut, ReceiveReturns, TakePiece, Return
<1>2. DOMAIN local = 1..Len(local)
  BY LenProperties DEF ReceiveInv
<1> QED
  BY <1>1, <1>2 DEF MayLose, NothingAtStake

(* Every step that is not admitted to lose keeps the books. *)
LEMMA BooksStep ==
    ASSUME ReceiveInv, NEW e \in Endpoints, Accounted(e), [Next]_vars, ~MayLose(e)
    PROVE  Accounted(e)'
<1>1. ASSUME NEW d \in Endpoints, NEW m \in Messages, PeerSends(d, m) PROVE Accounted(e)'
  BY <1>1, SendsBooks
<1>2. ASSUME NEW d \in Endpoints, PeerCloses(d) PROVE Accounted(e)'
  BY <1>2 DEF PeerCloses, locals, Accounted
<1>3. ASSUME NEW d \in Endpoints, PeerResets(d) PROVE Accounted(e)'
  <2>1. d # e /\ wire'[e] = wire[e]
    BY <1>3 DEF PeerResets, MayLose, ReceiveInv, Inv, TypeOK
  <2> QED
    BY <1>3, <2>1 DEF PeerResets, locals, Accounted
<1>4. ASSUME NEW d \in Endpoints, RunAtomic(d) PROVE Accounted(e)'
  BY <1>4, RunBooks
<1>5. CASE Receive
  BY <1>5, ReceiveBooks
<1>6. CASE SavePiece
  BY <1>6, SaveBooks
<1>7. CASE ParsePiece
  BY <1>7, ParseBooks
<1>8. CASE ReceiveFails \/ ReceiveTimesOut
  BY <1>8, StakeFact, FailBooks
<1>9. CASE ReceiveReturns
  BY <1>9, StakeFact, ReturnBooks
<1>10. CASE UNCHANGED vars
  BY <1>10 DEF vars, peers, locals, Accounted
<1> QED
  BY <1>1, <1>2, <1>3, <1>4, <1>5, <1>6, <1>7, <1>8, <1>9, <1>10 DEF Next

(* No step loses, repeats or moves a byte, for any endpoints, messages,     *)
(* chunk size and cutting of the streams, but for a return that leaves      *)
(* pieces of the endpoint in the local copy or a part of its message in the *)
(* parser (node.h:119-166).                                                 *)
THEOREM OnlyReturnsLoseHolds == Spec => OnlyReturnsLose
<1>1. ReceiveInv /\ [Next]_vars =>
        [\A e \in Endpoints :
          Accounted(e) /\ ~Accounted(e)' =>
              \/ link'[e] = "reset"
              \/ /\ pc = "receiving" /\ pc' = "idle"
                 /\ \/ \E i \in DOMAIN local : local[i].endpoint = e
                    \/ reading = e /\ ~HasCompleteMessage(parser)]_vars
  BY BooksStep DEF MayLose
<1> QED
  BY <1>1, ReceiveInit, ReceiveStep, PTL DEF Spec, OnlyReturnsLose
=============================================================================
