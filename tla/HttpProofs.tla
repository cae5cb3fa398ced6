----------------------------- MODULE HttpProofs -----------------------------
(***************************************************************************)
(* Proofs about modules HttpParser, Servlets and Http.  First what the     *)
(* cells of a message are and what one turn of the loop makes of them:     *)
(* Stage says how far a parser is in a message, and every turn leads to    *)
(* the next stage.  Sound carries that to a stream of messages of which    *)
(* the parser has read a part.  Turns adds, for a client that waits for    *)
(* each response, that there is never more than one message to read, and   *)
(* that only the CRLF behind a chunked one can be in front of it.          *)
(***************************************************************************)
EXTENDS Http, SeqLemmas

Whats ==
  {m.what : m \in Requests} \cup {[path |-> "/"]} \cup {[servlet |-> n] : n \in 0 .. MaxLoad}

Cell ==
  Octets \cup {Start, Header("chunked", 0), Header("bad", 0)}
    \cup {Says(x) : x \in Whats} \cup {Header("connection", b) : b \in BOOLEAN}
    \cup {Header("length", n) : n \in Nat} \cup {HexOf(n) : n \in Nat}

Parsers ==
  [state : {"PARSE_FIRST_LINE", "PARSE_HEADER", "PARSE_BODY"}, chunked : BOOLEAN,
   contentLen : Nat, chunkSize : Nat, finish : BOOLEAN, error : BOOLEAN, what : Whats,
   keep : BOOLEAN, body : Seq(Cell)]

\* A message of either side; a chunked one that is well-formed has a body.
Message(m) ==
  /\ m.what \in Whats /\ m.keep \in BOOLEAN /\ m.chunked \in BOOLEAN /\ m.bad \in BOOLEAN
  /\ m.body \in Seq(Octets)
  /\ m.chunked /\ ~m.bad => m.body # <<>>

-----------------------------------------------------------------------------
(* The cells of a message. *)

\* Every message begins with its first line and the header that says whether the
\* connection is kept.
Begins(c, m) ==
  /\ c \in Seq(Cell) /\ Len(c) >= 9
  /\ c[1] = Start /\ c[2] = Says(m.what) /\ c[3] = CR /\ c[4] = LF
  /\ c[5] = Header("connection", m.keep) /\ c[6] = CR /\ c[7] = LF

\* Behind that comes one more header and the empty line.
Frames(c, h) ==
  /\ Len(c) >= 12
  /\ c[8] = h /\ c[9] = CR /\ c[10] = LF /\ c[11] = CR /\ c[12] = LF

\* What the cells of a message are made of.
LEMMA CellsOf ==
  /\ {CR, LF, X, Start, Header("chunked", 0), Header("bad", 0)} \subseteq Cell
  /\ \A x \in Whats : Says(x) \in Cell
  /\ \A b \in BOOLEAN : Header("connection", b) \in Cell
  /\ \A n \in Nat : Header("length", n) \in Cell /\ HexOf(n) \in Cell
BY DEF Cell, Octets

\* A body is a sequence of cells.
LEMMA BodyCells ==
  ASSUME NEW m, Message(m)
  PROVE  m.body \in Seq(Cell) /\ Len(m.body) \in Nat /\ (m.body # <<>> => Len(m.body) > 0)
<1>1. Octets \subseteq Cell
  BY DEF Cell
<1> QED
  BY <1>1 DEF Message

\* The cells of a message without chunks and without a body.
LEMMA EmptyCells ==
  ASSUME NEW m, Message(m), ~m.chunked, ~m.bad, m.body = <<>>
  PROVE  Begins(Cells(m), m) /\ Len(Cells(m)) = 9 /\ Cells(m)[8] = CR /\ Cells(m)[9] = LF
<1>1. Cells(m) = Top(m) \o CRLF
  BY DEF Cells
<1>2. Says(m.what) \in Cell /\ Header("connection", m.keep) \in Cell
  BY CellsOf DEF Message
<1>3. Top(m) \o CRLF \in Seq(Cell)
  BY <1>2, CellsOf DEF Top, CRLF
<1>4. LET c == Top(m) \o CRLF IN
      /\ Len(c) = 9 /\ c[1] = Start /\ c[2] = Says(m.what) /\ c[3] = CR /\ c[4] = LF
      /\ c[5] = Header("connection", m.keep) /\ c[6] = CR /\ c[7] = LF
      /\ c[8] = CR /\ c[9] = LF
  BY DEF Top, CRLF
<1> QED
  BY <1>1, <1>3, <1>4 DEF Begins

\* The cells of a message with a header that has no value.
LEMMA BadCells ==
  ASSUME NEW m, Message(m), ~m.chunked, m.bad
  PROVE  Begins(Cells(m), m) /\ Frames(Cells(m), Header("bad", 0)) /\ Len(Cells(m)) = 12
<1> DEFINE h == Header("bad", 0)
           c == Top(m) \o <<h>> \o CRLF \o CRLF
<1>1. Cells(m) = c
  BY DEF Cells
<1>2. Says(m.what) \in Cell /\ Header("connection", m.keep) \in Cell /\ h \in Cell
  BY CellsOf DEF Message
<1> HIDE DEF h
<1>3. c \in Seq(Cell)
  BY <1>2, CellsOf DEF Top, CRLF
<1>4. /\ Len(c) = 12 /\ c[1] = Start /\ c[2] = Says(m.what) /\ c[3] = CR /\ c[4] = LF
      /\ c[5] = Header("connection", m.keep) /\ c[6] = CR /\ c[7] = LF /\ c[8] = h
      /\ c[9] = CR /\ c[10] = LF /\ c[11] = CR /\ c[12] = LF
  BY DEF Top, CRLF
<1> USE DEF h
<1> HIDE DEF c
<1> QED
  BY <1>1, <1>3, <1>4 DEF Begins, Frames

\* The cells of a message with a body of known length.
LEMMA LengthCells ==
  ASSUME NEW m, Message(m), ~m.chunked, ~m.bad, m.body # <<>>
  PROVE  /\ Begins(Cells(m), m) /\ Frames(Cells(m), Header("length", Len(m.body)))
         /\ Len(Cells(m)) = 12 + Len(m.body)
         /\ \A i \in 1 .. Len(m.body) : Cells(m)[12 + i] = m.body[i]
<1> DEFINE h == Header("length", Len(m.body))
           b == m.body
           c == Top(m) \o <<h>> \o CRLF \o CRLF \o b
<1>1. Cells(m) = c
  BY DEF Cells
<1>2. Says(m.what) \in Cell /\ Header("connection", m.keep) \in Cell /\ h \in Cell
  BY CellsOf, BodyCells DEF Message
<1>3. b \in Seq(Cell) /\ Len(b) \in Nat
  BY BodyCells
<1> HIDE DEF h, b
<1>4. c \in Seq(Cell)
  BY <1>2, <1>3, CellsOf DEF Top, CRLF
<1>5. /\ Len(c) = 12 + Len(b) /\ c[1] = Start /\ c[2] = Says(m.what) /\ c[3] = CR /\ c[4] = LF
      /\ c[5] = Header("connection", m.keep) /\ c[6] = CR /\ c[7] = LF /\ c[8] = h
      /\ c[9] = CR /\ c[10] = LF /\ c[11] = CR /\ c[12] = LF
      /\ \A i \in 1 .. Len(b) : c[12 + i] = b[i]
  BY <1>3 DEF Top, CRLF
<1> HIDE DEF c
<1>6. Begins(c, m) /\ Frames(c, h)
  BY <1>3, <1>4, <1>5 DEF Begins, Frames
<1> QED
  BY <1>1, <1>5, <1>6 DEF h, b

\* The cells of a chunked message whose chunk size is no number.
LEMMA BadChunkCells ==
  ASSUME NEW m, Message(m), m.chunked, m.bad
  PROVE  /\ Begins(Cells(m), m) /\ Frames(Cells(m), Header("chunked", 0))
         /\ Len(Cells(m)) = 20
         /\ Cells(m)[13] = Header("bad", 0) /\ Cells(m)[14] = CR /\ Cells(m)[15] = LF
<1> DEFINE h == Header("chunked", 0)
           g == Header("bad", 0)
           z == HexOf(0)
           c == Top(m) \o <<h>> \o CRLF \o CRLF \o (<<g>> \o CRLF) \o <<z>> \o CRLF \o CRLF
<1>1. Cells(m) = c
  BY DEF Cells
<1>2. /\ Says(m.what) \in Cell /\ Header("connection", m.keep) \in Cell
      /\ h \in Cell /\ g \in Cell /\ z \in Cell
  BY CellsOf DEF Message
<1> HIDE DEF h, g, z
<1>4. c \in Seq(Cell)
  BY <1>2, CellsOf DEF Top, CRLF
<1>5. /\ Len(c) = 20 /\ c[1] = Start /\ c[2] = Says(m.what) /\ c[3] = CR /\ c[4] = LF
      /\ c[5] = Header("connection", m.keep) /\ c[6] = CR /\ c[7] = LF /\ c[8] = h
      /\ c[9] = CR /\ c[10] = LF /\ c[11] = CR /\ c[12] = LF
      /\ c[13] = g /\ c[14] = CR /\ c[15] = LF
  BY DEF Top, CRLF
<1> HIDE DEF c
<1>6. Begins(c, m) /\ Frames(c, h)
  BY <1>4, <1>5 DEF Begins, Frames
<1> QED
  BY <1>1, <1>5, <1>6 DEF h, g

\* The cells of a message with one chunk.
LEMMA ChunkCells ==
  ASSUME NEW m, Message(m), m.chunked, ~m.bad
  PROVE  LET n == Len(m.body) IN
         /\ Begins(Cells(m), m) /\ Frames(Cells(m), Header("chunked", 0))
         /\ Len(Cells(m)) = 22 + n
         /\ Cells(m)[13] = HexOf(n) /\ Cells(m)[14] = CR /\ Cells(m)[15] = LF
         /\ \A i \in 1 .. n : Cells(m)[15 + i] = m.body[i]
         /\ Cells(m)[16 + n] = CR /\ Cells(m)[17 + n] = LF
         /\ Cells(m)[18 + n] = HexOf(0) /\ Cells(m)[19 + n] = CR /\ Cells(m)[20 + n] = LF
         /\ Cells(m)[21 + n] = CR /\ Cells(m)[22 + n] = LF
<1> DEFINE h == Header("chunked", 0)
           b == m.body
           g == HexOf(Len(b))
           z == HexOf(0)
           d == Top(m) \o <<h>> \o CRLF \o CRLF
           e == <<g>> \o CRLF \o b \o CRLF
           c == d \o e \o <<z>> \o CRLF \o CRLF
<1>1. Cells(m) = c
  BY DEF Cells, Chunk
<1>2. /\ Says(m.what) \in Cell /\ Header("connection", m.keep) \in Cell
      /\ h \in Cell /\ g \in Cell /\ z \in Cell
  BY CellsOf, BodyCells DEF Message
<1>3. b \in Seq(Cell) /\ Len(b) \in Nat
  BY BodyCells
<1> HIDE DEF h, g, z, b
<1>4. d \in Seq(Cell)
  BY <1>2, CellsOf DEF Top, CRLF
<1>5. /\ Len(d) = 12 /\ d[1] = Start /\ d[2] = Says(m.what) /\ d[3] = CR /\ d[4] = LF
      /\ d[5] = Header("connection", m.keep) /\ d[6] = CR /\ d[7] = LF /\ d[8] = h
      /\ d[9] = CR /\ d[10] = LF /\ d[11] = CR /\ d[12] = LF
  BY DEF Top, CRLF
<1>6. e \in Seq(Cell)
  BY <1>2, <1>3, CellsOf DEF CRLF
<1>7. /\ Len(e) = 5 + Len(b) /\ e[1] = g /\ e[2] = CR /\ e[3] = LF
      /\ \A i \in 1 .. Len(b) : e[3 + i] = b[i]
      /\ e[4 + Len(b)] = CR /\ e[5 + Len(b)] = LF
  BY <1>3 DEF CRLF
<1> HIDE DEF d, e
<1>8. c \in Seq(Cell)
  BY <1>2, <1>4, <1>6, CellsOf DEF CRLF
<1>9. /\ Len(c) = Len(d) + Len(e) + 5
      /\ \A i \in 1 .. Len(d) : c[i] = d[i]
      /\ \A i \in 1 .. Len(e) : c[Len(d) + i] = e[i]
      /\ c[Len(d) + Len(e) + 1] = z
      /\ c[Len(d) + Len(e) + 2] = CR /\ c[Len(d) + Len(e) + 3] = LF
      /\ c[Len(d) + Len(e) + 4] = CR /\ c[Len(d) + Len(e) + 5] = LF
  BY <1>4, <1>6 DEF CRLF
<1> HIDE DEF c
<1>10. Begins(c, m) /\ Frames(c, h)
  BY <1>3, <1>5, <1>7, <1>8, <1>9, SMTT(20) DEF Begins, Frames
<1>11. /\ Len(c) = 22 + Len(b) /\ c[13] = g /\ c[14] = CR /\ c[15] = LF
       /\ \A i \in 1 .. Len(b) : c[15 + i] = b[i]
       /\ c[16 + Len(b)] = CR /\ c[17 + Len(b)] = LF
       /\ c[18 + Len(b)] = z /\ c[19 + Len(b)] = CR /\ c[20 + Len(b)] = LF
       /\ c[21 + Len(b)] = CR /\ c[22 + Len(b)] = LF
  <2>1. /\ Len(c) = 22 + Len(b) /\ \A i \in 1 .. 5 + Len(b) : c[12 + i] = e[i]
        /\ c[18 + Len(b)] = z /\ c[19 + Len(b)] = CR /\ c[20 + Len(b)] = LF
        /\ c[21 + Len(b)] = CR /\ c[22 + Len(b)] = LF
    BY <1>3, <1>5, <1>7, <1>9
  <2>2. c[12 + 1] = e[1] /\ c[12 + 2] = e[2] /\ c[12 + 3] = e[3]
    BY <1>3, <2>1
  <2>3. c[12 + (4 + Len(b))] = e[4 + Len(b)] /\ c[12 + (5 + Len(b))] = e[5 + Len(b)]
    <3>1. 4 + Len(b) \in 1 .. 5 + Len(b) /\ 5 + Len(b) \in 1 .. 5 + Len(b)
      BY <1>3
    <3> QED
      BY <2>1, <3>1, Zenon
  <2>4. \A i \in 1 .. Len(b) : c[12 + (3 + i)] = e[3 + i]
    BY <1>3, <2>1
  <2>5. /\ 12 + (4 + Len(b)) = 16 + Len(b) /\ 12 + (5 + Len(b)) = 17 + Len(b)
        /\ \A i \in 1 .. Len(b) : 12 + (3 + i) = 15 + i
    BY <1>3
  <2> QED
    BY <1>7, <2>1, <2>2, <2>3, <2>4, <2>5
<1> QED
  BY <1>1, <1>10, <1>11 DEF h, g, b, z

-----------------------------------------------------------------------------
(* One turn of the loop. *)

\* The bytes b are those of c behind the first o, as far as c goes.
Slice(b, c, o) == \A i \in 1 .. Len(b) : o + i <= Len(c) => b[i] = c[o + i]

\* The text between two line ends is none of their bytes.
LEMMA Kinds ==
  /\ CR # LF /\ Start # CR /\ LF.k = "LF" /\ CR.k = "CR" /\ Start.k = "start"
  /\ \A x : Says(x) # CR /\ Says(x).k = "says" /\ Says(x).what = x
  /\ \A v : \A h \in {"connection", "chunked", "bad", "length"} :
       Header(h, v) # CR /\ Header(h, v).k = h /\ Header(h, v).v = v
  /\ \A n : HexOf(n) # CR /\ HexOf(n).k = "hex" /\ HexOf(n).n = n
BY DEF CR, LF, Start, Says, Header, HexOf

\* The first CRLF of bytes that begin with l bytes other than CR and then a CRLF.
LEMMA FirstCRLF ==
  ASSUME NEW b \in Seq(Cell), NEW l \in Nat, findCRLF(b) # {},
         \A i \in 1 .. Len(b) : /\ i <= l => b[i] # CR
                                /\ i = l + 1 => b[i] = CR
                                /\ i = l + 2 => b[i] = LF
  PROVE  l + 2 <= Len(b) /\ Min(findCRLF(b)) = l + 1
<1>1. Len(b) \in Nat
  OBVIOUS
<1>2. PICK j \in findCRLF(b) : TRUE
  OBVIOUS
<1>3. j \in 1 .. Len(b) - 1 /\ b[j] = CR /\ b[j + 1] = LF
  BY <1>2 DEF findCRLF
<1>4. j > l
  BY <1>1, <1>3
<1>5. l + 2 <= Len(b)
  BY <1>1, <1>3, <1>4
<1>6. l + 1 \in findCRLF(b)
  BY <1>1, <1>5 DEF findCRLF
<1>7. \A i \in findCRLF(b) : i \in Nat /\ l + 1 <= i
  BY <1>1 DEF findCRLF
<1>8. \A x \in findCRLF(b) : (\A y \in findCRLF(b) : x <= y) => x = l + 1
  BY <1>6, <1>7
<1>9. Min(findCRLF(b)) \in findCRLF(b) /\ \A y \in findCRLF(b) : Min(findCRLF(b)) <= y
  BY <1>6, <1>7 DEF Min
<1> QED
  BY <1>5, <1>8, <1>9

\* Behind the first o cells of c there is a line of l cells.
LineAt(c, o, l) ==
  /\ o + l + 2 <= Len(c) /\ \A i \in 1 .. l : c[o + i] # CR
  /\ c[o + l + 1] = CR /\ c[o + l + 2] = LF

\* A parser in front of a line of l cells takes that line and the CRLF behind it.
LEMMA TakesLine ==
  ASSUME NEW b \in Seq(Cell), NEW c \in Seq(Cell), NEW o \in Nat, NEW l \in Nat, Slice(b, c, o),
         LineAt(c, o, l), findCRLF(b) # {}
  PROVE  /\ l + 2 \in 0 .. Len(b)
         /\ Line(b) \in Seq(Cell) /\ Len(Line(b)) = l /\ \A i \in 1 .. l : Line(b)[i] = c[o + i]
         /\ Behind(b) = SubSeq(b, (l + 2) + 1, Len(b))
<1> USE DEF LineAt
<1>1. Len(b) \in Nat /\ Len(c) \in Nat
  OBVIOUS
<1>2. \A i \in 1 .. Len(b) : /\ i <= l => b[i] = c[o + i]
                             /\ i = l + 1 => b[i] = c[o + l + 1]
                             /\ i = l + 2 => b[i] = c[o + l + 2]
  BY <1>1, SMTT(20) DEF Slice
<1>3. l + 2 <= Len(b) /\ Min(findCRLF(b)) = l + 1
  <2>1. ASSUME NEW i \in 1 .. Len(b), i <= l PROVE b[i] # CR
    <3>1. i \in 1 .. l
      BY <1>1, <2>1
    <3>2. b[i] = c[o + i]
      BY <1>2, <2>1
    <3> QED
      BY <3>1, <3>2, Zenon
  <2>2. \A i \in 1 .. Len(b) : /\ i <= l => b[i] # CR
                               /\ i = l + 1 => b[i] = CR
                               /\ i = l + 2 => b[i] = LF
    BY <1>2, <2>1
  <2> QED
    BY <2>2, FirstCRLF
<1>4. Line(b) = SubSeq(b, 1, l) /\ Behind(b) = SubSeq(b, (l + 2) + 1, Len(b))
  BY <1>3 DEF Line, Behind
<1>5. /\ SubSeq(b, 1, l) \in Seq(Cell) /\ Len(SubSeq(b, 1, l)) = l
      /\ \A i \in 1 .. l : SubSeq(b, 1, l)[i] = b[i]
  BY <1>1, <1>3, SMTT(20)
<1>6. \A i \in 1 .. l : i \in 1 .. Len(b) /\ i <= l
  BY <1>1, <1>3
<1>7. \A i \in 1 .. l : SubSeq(b, 1, l)[i] = c[o + i]
  BY <1>2, <1>5, <1>6
<1>8. l + 2 \in 0 .. Len(b)
  BY <1>1, <1>3
<1> QED
  BY <1>4, <1>5, <1>7, <1>8

\* A turn over a line is what the member function for the state makes of it.
LEMMA LineTurn ==
  ASSUME NEW p, NEW b, InLines(p), NEW t \in Turn(p, b)
  PROVE  /\ t.s = Behind(b)
         /\ p.state = "PARSE_FIRST_LINE" => t.p \in parseFirstLine(p, Line(b))
         /\ p.state = "PARSE_HEADER" => t.p \in parseHeader(p, Line(b))
         /\ p.state = "PARSE_BODY" => t.p = HexToDec(p, Line(b))
<1> DEFINE outcomes == CASE p.state = "PARSE_FIRST_LINE" -> parseFirstLine(p, Line(b))
                         [] p.state = "PARSE_HEADER" -> parseHeader(p, Line(b))
                         [] OTHER -> {HexToDec(p, Line(b))}
<1>1. Turn(p, b) = {[p |-> q, s |-> Behind(b)] : q \in outcomes}
  BY DEF Turn
<1>2. /\ p.state = "PARSE_FIRST_LINE" => outcomes = parseFirstLine(p, Line(b))
      /\ p.state = "PARSE_HEADER" => outcomes = parseHeader(p, Line(b))
      /\ p.state = "PARSE_BODY" => outcomes = {HexToDec(p, Line(b))}
  OBVIOUS
<1> HIDE DEF outcomes
<1>3. PICK q \in outcomes : t = [p |-> q, s |-> Behind(b)]
  BY <1>1
<1>4. t.p = q /\ t.s = Behind(b)
  BY <1>3
<1> QED
  BY <1>2, <1>3, <1>4

\* A whole first line.
LEMMA ReadsFirst ==
  ASSUME NEW p, NEW line \in Seq(Cell), NEW x, Len(line) = 2, line[1] = Start, line[2] = Says(x),
         NEW q \in parseFirstLine(p, line)
  PROVE  q = [p EXCEPT !.what = x, !.state = "PARSE_HEADER"]
<1>1. line[2].k = "says" /\ line[2].what = x
  BY Kinds
<1>2. parseFirstLine(p, line) = {[p EXCEPT !.what = line[2].what, !.state = "PARSE_HEADER"]}
  BY <1>1 DEF parseFirstLine
<1> QED
  BY <1>1, <1>2

\* One header.
LEMMA ReadsHeader ==
  ASSUME NEW p, NEW line \in Seq(Cell), NEW h \in {"connection", "chunked", "bad", "length"}, NEW v,
         Len(line) = 1, line[1] = Header(h, v), NEW q \in parseHeader(p, line)
  PROVE  /\ h = "connection" => q = [p EXCEPT !.keep = v]
         /\ h = "chunked" => q = [p EXCEPT !.chunked = TRUE]
         /\ h = "bad" => q = Wrong(p)
         /\ h = "length" /\ ~p.chunked => q = [p EXCEPT !.contentLen = v]
<1>1. line # <<>> /\ Head(line) = line[1] /\ ~(Len(line) > 1) /\ line[1] # CR /\ line[1].k = h
      /\ line[1].v = v
  BY Kinds, SMTT(20)
<1> QED
  BY <1>1 DEF parseHeader

\* The empty line behind the headers.
LEMMA ReadsEmpty ==
  ASSUME NEW p, NEW line \in Seq(Cell), Len(line) = 0
  PROVE  /\ \A q \in parseHeader(p, line) : q = [p EXCEPT !.state = "PARSE_BODY"]
         /\ parseFirstLine(p, line) = {Wrong(p)}
<1>1. line = <<>>
  OBVIOUS
<1> QED
  BY <1>1 DEF parseHeader, parseFirstLine

\* A chunk size, or what should be one.
LEMMA ReadsSize ==
  ASSUME NEW p, NEW line \in Seq(Cell), Len(line) = 1
  PROVE  /\ line[1] = HexOf(0) => HexToDec(p, line) = [p EXCEPT !.finish = TRUE]
         /\ \A n \in Nat \ {0} : line[1] = HexOf(n) => HexToDec(p, line) = [p EXCEPT !.chunkSize = n]
         /\ line[1] = Header("bad", 0) => HexToDec(p, line) = Wrong(p)
<1>1. line = <<line[1]>> /\ line # <<>>
  OBVIOUS
<1>2. line[1] = HexOf(0) => line = <<HexOf(0)>>
  BY <1>1
<1>3. line[1] # HexOf(0) => line # <<HexOf(0)>>
  BY <1>1
<1>4. ASSUME NEW n \in Nat \ {0}, line[1] = HexOf(n)
      PROVE  HexToDec(p, line) = [p EXCEPT !.chunkSize = n]
  <2>1. HexOf(n) # HexOf(0) /\ line[1].k = "hex" /\ line[1].n = n
    BY <1>4, Kinds
  <2> QED
    BY <1>1, <1>3, <1>4, <2>1 DEF HexToDec
<1>5. ASSUME line[1] = Header("bad", 0) PROVE HexToDec(p, line) = Wrong(p)
  <2>1. line[1].k = "bad" /\ HexOf(0).k = "hex"
    BY <1>5, Kinds
  <2> QED
    BY <1>1, <1>3, <2>1 DEF HexToDec
<1> QED
  BY <1>1, <1>2, <1>4, <1>5 DEF HexToDec

-----------------------------------------------------------------------------
(* A parser on its way through a message. *)

\* What the parser p has of the message m, and that it has neither finished nor failed.
Looks(p, m, state, framed, size, body) ==
  /\ p \in Parsers /\ ~p.finish /\ ~p.error
  /\ p.state = state /\ p.what = m.what /\ p.chunkSize = size /\ p.body = body
  /\ p.chunked <=> framed /\ m.chunked
  /\ p.contentLen = IF framed /\ ~m.chunked THEN Len(m.body) ELSE 0

\* The parser p has used the first o cells of the message m.
Stage(m, p, o) ==
  \/ p = NewParser /\ o = 0
  \/ Looks(p, m, "PARSE_HEADER", FALSE, 0, <<>>) /\ o = 4
  \/ /\ p.keep = m.keep
     /\ \/ Looks(p, m, "PARSE_HEADER", FALSE, 0, <<>>) /\ o = 7
        \/ /\ Looks(p, m, "PARSE_HEADER", TRUE, 0, <<>>) /\ o = 10
           /\ m.chunked \/ (~m.bad /\ m.body # <<>>)
        \/ /\ Looks(p, m, "PARSE_BODY", TRUE, 0, <<>>)
           /\ o = IF ~m.chunked /\ m.body = <<>> THEN 9 ELSE 12
           /\ m.chunked \/ ~m.bad
        \/ /\ Looks(p, m, "PARSE_BODY", TRUE, Len(m.body), <<>>) /\ o = 15
           /\ m.chunked /\ ~m.bad
        \/ /\ Looks(p, m, "PARSE_BODY", TRUE, 0, Parsed(m).body) /\ o = 17 + Len(m.body)
           /\ m.chunked /\ ~m.bad
        \/ /\ p.finish /\ ~p.error /\ ~m.bad /\ p.what = m.what /\ p.body = Parsed(m).body
           /\ o = Len(Cells(m)) - (IF m.chunked THEN 2 ELSE 0)
  \/ p.error /\ ~p.finish /\ m.bad

\* A turn t of a parser that had used o cells of m and was left with the bytes b.
Advance(m, t, b, o) ==
  \E k \in 0 .. Len(b) : t.s = SubSeq(b, k + 1, Len(b)) /\ Stage(m, t.p, o + k)

\* A parser is born with no field set.
LEMMA NewParserType == NewParser \in Parsers
<1>1. NewParser.what \in Whats /\ NewParser.body \in Seq(Cell)
  BY DEF NewParser, Whats
<1> QED
  BY <1>1 DEF NewParser, Parsers

\* What every message has in common.
LEMMA CellsBegin ==
  ASSUME NEW m, Message(m)
  PROVE  /\ Begins(Cells(m), m)
         /\ m.chunked \/ m.bad \/ m.body # <<>> =>
              Frames(Cells(m), IF m.chunked THEN Header("chunked", 0)
                               ELSE IF m.bad THEN Header("bad", 0)
                               ELSE Header("length", Len(m.body)))
BY EmptyCells, BadCells, LengthCells, BadChunkCells, ChunkCells

\* A parser in front of a line of l cells: what it makes of the line decides.
LEMMA StageLine ==
  ASSUME NEW m, Message(m), NEW p, NEW o \in Nat, NEW l \in Nat, NEW b \in Seq(Cell),
         Slice(b, Cells(m), o), LineAt(Cells(m), o, l), InLines(p), ~Needs(p, b),
         NEW t \in Turn(p, b)
  PROVE  /\ Line(b) \in Seq(Cell) /\ Len(Line(b)) = l
         /\ \A i \in 1 .. l : Line(b)[i] = Cells(m)[o + i]
         /\ Stage(m, t.p, o + (l + 2)) => Advance(m, t, b, o)
<1> DEFINE c == Cells(m)
<1>1. findCRLF(b) # {}
  BY DEF Needs
<1>2. c \in Seq(Cell)
  BY CellsBegin DEF Begins
<1>3. /\ l + 2 \in 0 .. Len(b) /\ Line(b) \in Seq(Cell) /\ Len(Line(b)) = l
      /\ \A i \in 1 .. l : Line(b)[i] = c[o + i]
      /\ Behind(b) = SubSeq(b, (l + 2) + 1, Len(b))
  BY <1>1, <1>2, TakesLine, ZenonT(30)
<1>4. t.s = Behind(b)
  BY LineTurn, Zenon
<1>5. Stage(m, t.p, o + (l + 2)) => Advance(m, t, b, o)
  BY <1>3, <1>4, Zenon DEF Advance
<1> QED
  BY <1>3, <1>5

\* The first line.
LEMMA StageFirst ==
  ASSUME NEW m, Message(m), NEW b \in Seq(Cell), Slice(b, Cells(m), 0), ~Needs(NewParser, b),
         NEW t \in Turn(NewParser, b)
  PROVE  Advance(m, t, b, 0)
<1> DEFINE p == NewParser
<1>1. InLines(p) /\ p.state = "PARSE_FIRST_LINE" /\ 0 \in Nat /\ 2 \in Nat
  BY DEF InLines, NewParser
<1>2. LineAt(Cells(m), 0, 2)
  BY CellsBegin, Kinds DEF Begins, LineAt
<1>3. /\ Line(b) \in Seq(Cell) /\ Len(Line(b)) = 2
      /\ \A i \in 1 .. 2 : Line(b)[i] = Cells(m)[0 + i]
      /\ Stage(m, t.p, 0 + (2 + 2)) => Advance(m, t, b, 0)
  BY <1>1, <1>2, StageLine, Zenon
<1>4. Line(b)[1] = Start /\ Line(b)[2] = Says(m.what)
  BY <1>3, CellsBegin DEF Begins
<1>5. t.p \in parseFirstLine(p, Line(b))
  BY <1>1, LineTurn
<1>6. t.p = [p EXCEPT !.what = m.what, !.state = "PARSE_HEADER"]
  BY <1>3, <1>4, <1>5, ReadsFirst, Zenon
<1>7. /\ p.chunkSize = 0 /\ p.contentLen = 0 /\ p.body = <<>>
      /\ ~p.chunked /\ ~p.finish /\ ~p.error
  BY DEF NewParser
<1>8. p \in Parsers /\ m.what \in Whats
  BY NewParserType DEF Message
<1> HIDE DEF p
<1>9. Looks(t.p, m, "PARSE_HEADER", FALSE, 0, <<>>)
  BY <1>6, <1>7, <1>8 DEF Looks, Parsers
<1>10. 0 + (2 + 2) = 4
  OBVIOUS
<1>11. Stage(m, t.p, 0 + (2 + 2))
  BY <1>9, <1>10, Zenon DEF Stage
<1> QED
  BY <1>3, <1>11

\* The header that says whether the connection is kept.
LEMMA StageSaid ==
  ASSUME NEW m, Message(m), NEW p, Looks(p, m, "PARSE_HEADER", FALSE, 0, <<>>),
         NEW b \in Seq(Cell), Slice(b, Cells(m), 4), ~Needs(p, b), NEW t \in Turn(p, b)
  PROVE  Advance(m, t, b, 4)
<1>1. InLines(p) /\ p.state = "PARSE_HEADER" /\ 4 \in Nat /\ 1 \in Nat
  BY DEF InLines, Looks
<1>2. LineAt(Cells(m), 4, 1)
  BY CellsBegin, Kinds DEF Begins, LineAt
<1>3. /\ Line(b) \in Seq(Cell) /\ Len(Line(b)) = 1
      /\ \A i \in 1 .. 1 : Line(b)[i] = Cells(m)[4 + i]
      /\ Stage(m, t.p, 4 + (1 + 2)) => Advance(m, t, b, 4)
  BY <1>1, <1>2, StageLine, Zenon
<1>4. Line(b)[1] = Header("connection", m.keep)
  BY <1>3, CellsBegin DEF Begins
<1>5. t.p \in parseHeader(p, Line(b))
  BY <1>1, LineTurn
<1>6. t.p = [p EXCEPT !.keep = m.keep]
  BY <1>3, <1>4, <1>5, ReadsHeader
<1>7. Looks(t.p, m, "PARSE_HEADER", FALSE, 0, <<>>) /\ t.p.keep = m.keep
  BY <1>6 DEF Looks, Parsers, Message
<1>8. 4 + (1 + 2) = 7
  OBVIOUS
<1>9. Stage(m, t.p, 4 + (1 + 2))
  BY <1>7, <1>8, Zenon DEF Stage
<1> QED
  BY <1>3, <1>9

\* The header that says how the body is sent, the malformed one, or none.
LEMMA StageKept ==
  ASSUME NEW m, Message(m), NEW p, Looks(p, m, "PARSE_HEADER", FALSE, 0, <<>>), p.keep = m.keep,
         NEW b \in Seq(Cell), Slice(b, Cells(m), 7), ~Needs(p, b), NEW t \in Turn(p, b)
  PROVE  Advance(m, t, b, 7)
<1>1. /\ InLines(p) /\ p.state = "PARSE_HEADER" /\ ~p.chunked
      /\ 7 \in Nat /\ 1 \in Nat /\ 0 \in Nat
  BY DEF InLines, Looks
<1>2. t.p \in parseHeader(p, Line(b))
  BY <1>1, LineTurn
<1>3. CASE m.chunked \/ m.bad \/ m.body # <<>>
  <2> DEFINE h == IF m.chunked THEN "chunked" ELSE IF m.bad THEN "bad" ELSE "length"
             v == IF m.chunked \/ m.bad THEN 0 ELSE Len(m.body)
  <2>1. Frames(Cells(m), Header(h, v)) /\ h \in {"connection", "chunked", "bad", "length"}
    BY <1>3, CellsBegin
  <2>2. LineAt(Cells(m), 7, 1)
    BY <2>1, Kinds DEF Frames, LineAt
  <2>3. /\ Line(b) \in Seq(Cell) /\ Len(Line(b)) = 1
        /\ \A i \in 1 .. 1 : Line(b)[i] = Cells(m)[7 + i]
        /\ Stage(m, t.p, 7 + (1 + 2)) => Advance(m, t, b, 7)
    BY <1>1, <2>2, StageLine, Zenon
  <2>4. Line(b)[1] = Header(h, v)
    BY <2>1, <2>3 DEF Frames
  <2>6. 7 + (1 + 2) = 10
    OBVIOUS
  <2>7. CASE m.chunked
    <3>1. t.p = [p EXCEPT !.chunked = TRUE]
      <4>1. Line(b)[1] = Header("chunked", 0)
        BY <2>4, <2>7
      <4> QED
        BY <1>2, <2>3, <4>1, ReadsHeader, ZenonT(30)
    <3>2. Looks(t.p, m, "PARSE_HEADER", TRUE, 0, <<>>) /\ t.p.keep = m.keep
      BY <2>7, <3>1, ZenonT(30) DEF Looks, Parsers
    <3> QED
      BY <2>3, <2>6, <2>7, <3>2, Zenon DEF Stage
  <2>8. CASE ~m.chunked /\ m.bad
    <3>1. t.p = Wrong(p)
      <4>1. Line(b)[1] = Header("bad", 0)
        BY <2>4, <2>8
      <4> QED
        BY <1>2, <2>3, <4>1, ReadsHeader
    <3>2. t.p.error /\ ~t.p.finish
      BY <3>1 DEF Wrong, Looks, Parsers
    <3> QED
      BY <2>3, <2>8, <3>2, Zenon DEF Stage
  <2>9. CASE ~m.chunked /\ ~m.bad
    <3>1. t.p = [p EXCEPT !.contentLen = Len(m.body)] /\ m.body # <<>> /\ Len(m.body) \in Nat
      <4>1. Line(b)[1] = Header("length", Len(m.body))
        BY <2>4, <2>9
      <4>2. t.p = [p EXCEPT !.contentLen = Len(m.body)]
        BY <1>1, <1>2, <2>3, <4>1, ReadsHeader, SMTT(20)
      <4> QED
        BY <1>3, <2>9, <4>2, BodyCells
    <3>2. Looks(t.p, m, "PARSE_HEADER", TRUE, 0, <<>>) /\ t.p.keep = m.keep
      BY <2>9, <3>1 DEF Looks, Parsers
    <3> QED
      BY <2>3, <2>6, <2>9, <3>1, <3>2, Zenon DEF Stage
  <2> QED
    BY <2>7, <2>8, <2>9
<1>4. CASE ~m.chunked /\ ~m.bad /\ m.body = <<>>
  <2>1. LineAt(Cells(m), 7, 0)
    BY <1>4, EmptyCells DEF LineAt
  <2>2. /\ Line(b) \in Seq(Cell) /\ Len(Line(b)) = 0
        /\ \A i \in 1 .. 0 : Line(b)[i] = Cells(m)[7 + i]
        /\ Stage(m, t.p, 7 + (0 + 2)) => Advance(m, t, b, 7)
    BY <1>1, <2>1, StageLine, Zenon
  <2>3. t.p = [p EXCEPT !.state = "PARSE_BODY"]
    BY <1>2, <2>2, ReadsEmpty
  <2>4. Len(m.body) = 0 /\ 7 + (0 + 2) = 9
    BY <1>4
  <2>5. Looks(t.p, m, "PARSE_BODY", TRUE, 0, <<>>) /\ t.p.keep = m.keep
    BY <1>4, <2>3, <2>4 DEF Looks, Parsers
  <2>6. Stage(m, t.p, 7 + (0 + 2))
    <3>1. 7 + (0 + 2) = IF ~m.chunked /\ m.body = <<>> THEN 9 ELSE 12
      BY <1>4
    <3> QED
      BY <1>4, <2>5, <3>1, Zenon DEF Stage
  <2> QED
    BY <2>2, <2>6
<1> QED
  BY <1>3, <1>4 DEF Message

\* The empty line behind the headers.
LEMMA StageFramed ==
  ASSUME NEW m, Message(m), NEW p, Looks(p, m, "PARSE_HEADER", TRUE, 0, <<>>), p.keep = m.keep,
         m.chunked \/ (~m.bad /\ m.body # <<>>),
         NEW b \in Seq(Cell), Slice(b, Cells(m), 10), ~Needs(p, b), NEW t \in Turn(p, b)
  PROVE  Advance(m, t, b, 10)
<1>1. InLines(p) /\ p.state = "PARSE_HEADER" /\ 10 \in Nat /\ 0 \in Nat
  BY DEF InLines, Looks
<1>2. LineAt(Cells(m), 10, 0)
  BY CellsBegin DEF Frames, LineAt
<1>3. /\ Line(b) \in Seq(Cell) /\ Len(Line(b)) = 0
      /\ \A i \in 1 .. 0 : Line(b)[i] = Cells(m)[10 + i]
      /\ Stage(m, t.p, 10 + (0 + 2)) => Advance(m, t, b, 10)
  BY <1>1, <1>2, StageLine, Zenon
<1>4. t.p \in parseHeader(p, Line(b))
  BY <1>1, LineTurn
<1>5. t.p = [p EXCEPT !.state = "PARSE_BODY"]
  BY <1>3, <1>4, ReadsEmpty
<1>6. Looks(t.p, m, "PARSE_BODY", TRUE, 0, <<>>) /\ t.p.keep = m.keep
  BY <1>5 DEF Looks, Parsers
<1>7. 10 + (0 + 2) = IF ~m.chunked /\ m.body = <<>> THEN 9 ELSE 12
  OBVIOUS
<1>8. m.chunked \/ ~m.bad
  OBVIOUS
<1>9. Stage(m, t.p, 10 + (0 + 2))
  BY <1>6, <1>7, <1>8, Zenon DEF Stage
<1> QED
  BY <1>3, <1>9

\* The size of the chunk.
LEMMA StageSize ==
  ASSUME NEW m, Message(m), NEW p, Looks(p, m, "PARSE_BODY", TRUE, 0, <<>>), p.keep = m.keep,
         m.chunked, NEW b \in Seq(Cell), Slice(b, Cells(m), 12), ~Needs(p, b), NEW t \in Turn(p, b)
  PROVE  Advance(m, t, b, 12)
<1>1. InLines(p) /\ p.state = "PARSE_BODY" /\ 12 \in Nat /\ 1 \in Nat
  BY DEF InLines, Looks
<1>2. /\ LineAt(Cells(m), 12, 1)
      /\ Cells(m)[13] = IF m.bad THEN Header("bad", 0) ELSE HexOf(Len(m.body))
  <2>1. CASE m.bad
    BY <2>1, BadChunkCells, Kinds DEF LineAt
  <2>2. CASE ~m.bad
    BY <2>2, ChunkCells, BodyCells, Kinds, SMTT(20) DEF LineAt
  <2> QED
    BY <2>1, <2>2
<1>3. /\ Line(b) \in Seq(Cell) /\ Len(Line(b)) = 1
      /\ \A i \in 1 .. 1 : Line(b)[i] = Cells(m)[12 + i]
      /\ Stage(m, t.p, 12 + (1 + 2)) => Advance(m, t, b, 12)
  BY <1>1, <1>2, StageLine, Zenon
<1>4. t.p = HexToDec(p, Line(b))
  BY <1>1, LineTurn
<1>5. Line(b)[1] = IF m.bad THEN Header("bad", 0) ELSE HexOf(Len(m.body))
  BY <1>2, <1>3
<1>6. CASE m.bad
  <2>1. t.p = Wrong(p)
    BY <1>3, <1>4, <1>5, <1>6, ReadsSize
  <2>2. t.p.error /\ ~t.p.finish
    BY <2>1 DEF Wrong, Looks, Parsers
  <2> QED
    BY <1>3, <1>6, <2>2, Zenon DEF Stage
<1>7. CASE ~m.bad
  <2>1. Len(m.body) \in Nat \ {0}
    BY <1>7, BodyCells DEF Message
  <2>2. t.p = [p EXCEPT !.chunkSize = Len(m.body)]
    BY <1>3, <1>4, <1>5, <1>7, <2>1, ReadsSize
  <2>3. Looks(t.p, m, "PARSE_BODY", TRUE, Len(m.body), <<>>) /\ t.p.keep = m.keep
    BY <2>1, <2>2 DEF Looks, Parsers
  <2>4. 12 + (1 + 2) = 15
    OBVIOUS
  <2> QED
    BY <1>3, <1>7, <2>3, <2>4, Zenon DEF Stage
<1> QED
  BY <1>6, <1>7 DEF Message

\* The turn t takes bytes of the body.
TakesBody(p, b, t) ==
  /\ t.p = [p EXCEPT !.body = p.body \o Bytes(p, b), !.chunkSize = 0, !.finish = ~p.chunked]
  /\ t.s = SubSeq(b, Whole(p) + 1, Len(b))

\* A parser that is not in front of a line takes bytes of the body.
LEMMA BodyTurn == ASSUME NEW p, NEW b, ~InLines(p), NEW t \in Turn(p, b) PROVE TakesBody(p, b, t)
BY DEF Turn, TakesBody

\* The bytes that are taken, once they are all there.
LEMMA TakesBytes ==
  ASSUME NEW p, NEW b \in Seq(Cell), NEW w \in Seq(Cell), Whole(p) = Len(w), Len(w) <= Len(b),
         \A i \in 1 .. Len(w) : b[i] = w[i]
  PROVE  Bytes(p, b) = w /\ <<>> \o w = w
<1>1. Len(b) \in Nat /\ Len(w) \in Nat
  OBVIOUS
<1>2. Bytes(p, b) = SubSeq(b, 1, Len(w))
  BY <1>1 DEF Bytes
<1>3. /\ SubSeq(b, 1, Len(w)) \in Seq(Cell) /\ Len(SubSeq(b, 1, Len(w))) = Len(w)
      /\ \A i \in 1 .. Len(w) : SubSeq(b, 1, Len(w))[i] = b[i]
  BY <1>1
<1>4. SubSeq(b, 1, Len(w)) = w
  BY <1>1, <1>3
<1> QED
  BY <1>2, <1>4

\* A body of known length.
LEMMA StageLength ==
  ASSUME NEW m, Message(m), NEW p, Looks(p, m, "PARSE_BODY", TRUE, 0, <<>>), p.keep = m.keep,
         ~m.chunked, ~m.bad, NEW o, o = IF m.body = <<>> THEN 9 ELSE 12,
         NEW b \in Seq(Cell), Slice(b, Cells(m), o), ~Needs(p, b), NEW t \in Turn(p, b)
  PROVE  Advance(m, t, b, o)
<1> DEFINE w == m.body
<1>1. w \in Seq(Cell) /\ Len(w) \in Nat /\ Len(b) \in Nat
  BY BodyCells
<1>2. ~InLines(p) /\ Whole(p) = Len(w) /\ p.body = <<>> /\ p.chunkSize = 0 /\ ~p.chunked
  BY DEF InLines, Whole, Looks
<1>3. Len(w) <= Len(b)
  BY <1>1, <1>2 DEF Needs
<1>4. /\ o \in Nat /\ Len(Cells(m)) = o + Len(w)
      /\ \A i \in 1 .. Len(w) : Cells(m)[o + i] = w[i]
  <2>1. CASE w = <<>>
    BY <2>1, EmptyCells
  <2>2. CASE w # <<>>
    BY <2>2, LengthCells, <1>1
  <2> QED
    BY <2>1, <2>2
<1>5. \A i \in 1 .. Len(w) : b[i] = w[i]
  <2>1. \A i \in 1 .. Len(w) : i \in 1 .. Len(b) /\ o + i <= Len(Cells(m))
    BY <1>1, <1>3, <1>4
  <2> QED
    BY <1>4, <2>1 DEF Slice
<1>6. Bytes(p, b) = w /\ <<>> \o w = w
  <2> HIDE DEF w
  <2> QED
    BY <1>1, <1>2, <1>3, <1>5, TakesBytes, Zenon
<1>7. /\ t.p = [p EXCEPT !.body = w, !.chunkSize = 0, !.finish = TRUE]
      /\ t.s = SubSeq(b, Len(w) + 1, Len(b))
  <2>1. TakesBody(p, b, t)
    BY <1>2, BodyTurn, Zenon
  <2>2. p.body \o Bytes(p, b) = w /\ (~p.chunked) = TRUE
    BY <1>2, <1>6
  <2> QED
    BY <1>2, <2>1, <2>2 DEF TakesBody
<1>8. /\ t.p.finish /\ ~t.p.error /\ t.p.what = m.what /\ t.p.keep = m.keep
      /\ t.p.body = Parsed(m).body
  BY <1>7 DEF Looks, Parsers, Parsed
<1>9. o + Len(w) = Len(Cells(m)) - (IF m.chunked THEN 2 ELSE 0) /\ Len(w) \in 0 .. Len(b)
  BY <1>1, <1>3, <1>4
<1>10. Stage(m, t.p, o + Len(w))
  BY <1>8, <1>9, Zenon DEF Stage
<1> QED
  BY <1>7, <1>9, <1>10, Zenon DEF Advance

\* The chunk and the CRLF behind it.
LEMMA StageChunk ==
  ASSUME NEW m, Message(m), NEW p, Looks(p, m, "PARSE_BODY", TRUE, Len(m.body), <<>>),
         p.keep = m.keep, m.chunked, ~m.bad,
         NEW b \in Seq(Cell), Slice(b, Cells(m), 15), ~Needs(p, b), NEW t \in Turn(p, b)
  PROVE  Advance(m, t, b, 15)
<1> DEFINE n == Len(m.body)
           w == m.body \o CRLF
<1>0. m.body # <<>>
  BY DEF Message
<1>1. m.body \in Seq(Cell) /\ n \in Nat \ {0} /\ Len(b) \in Nat
  BY <1>0, BodyCells
<1>2. /\ w \in Seq(Cell) /\ Len(w) = n + 2
      /\ \A i \in 1 .. n : w[i] = m.body[i]
      /\ w[n + 1] = CR /\ w[n + 2] = LF
  BY <1>1, CellsOf DEF CRLF
<1>3. ~InLines(p) /\ Whole(p) = Len(w) /\ p.body = <<>> /\ p.chunked
  BY <1>1, <1>2 DEF InLines, Whole, Looks
<1>4. Len(w) <= Len(b)
  BY <1>1, <1>2, <1>3 DEF Needs
<1>5. /\ Len(Cells(m)) = 22 + n /\ \A i \in 1 .. n : Cells(m)[15 + i] = m.body[i]
      /\ Cells(m)[16 + n] = CR /\ Cells(m)[17 + n] = LF
  BY ChunkCells
<1>6. \A i \in 1 .. Len(w) : b[i] = w[i]
  <2>1. \A i \in 1 .. n + 2 : b[i] = Cells(m)[15 + i]
    <3>1. \A i \in 1 .. n + 2 : i \in 1 .. Len(b) /\ 15 + i <= Len(Cells(m))
      BY <1>1, <1>2, <1>4, <1>5, SMTT(20)
    <3> QED
      BY <3>1 DEF Slice
  <2>2. \A i \in 1 .. n : b[i] = w[i]
    <3>1. \A i \in 1 .. n : i \in 1 .. n + 2
      BY <1>1
    <3> QED
      BY <1>2, <1>5, <2>1, <3>1
  <2>3. b[n + 1] = w[n + 1] /\ b[n + 2] = w[n + 2]
    <3>1. n + 1 \in 1 .. n + 2 /\ n + 2 \in 1 .. n + 2 /\ 15 + (n + 1) = 16 + n /\ 15 + (n + 2) = 17 + n
      BY <1>1
    <3> QED
      BY <1>2, <1>5, <2>1, <3>1
  <2>4. \A i \in 1 .. n + 2 : i \in 1 .. n \/ i = n + 1 \/ i = n + 2
    BY <1>1
  <2> HIDE DEF w, n
  <2> QED
    BY <1>2, <2>2, <2>3, <2>4
<1>7. Bytes(p, b) = w /\ <<>> \o w = w
  <2> HIDE DEF w
  <2> QED
    BY <1>2, <1>3, <1>4, <1>6, TakesBytes, Zenon
<1>8. /\ t.p = [p EXCEPT !.body = w, !.chunkSize = 0, !.finish = FALSE]
      /\ t.s = SubSeq(b, Len(w) + 1, Len(b))
  <2>1. TakesBody(p, b, t)
    BY <1>3, BodyTurn, Zenon
  <2>2. p.body \o Bytes(p, b) = w /\ (~p.chunked) = FALSE
    BY <1>3, <1>7
  <2> HIDE DEF w
  <2> QED
    BY <1>3, <2>1, <2>2 DEF TakesBody
<1>9. Parsed(m).body = w
  BY DEF Parsed
<1> HIDE DEF w
<1>10. Looks(t.p, m, "PARSE_BODY", TRUE, 0, Parsed(m).body) /\ t.p.keep = m.keep
  BY <1>2, <1>8, <1>9 DEF Looks, Parsers
<1>11. 15 + Len(w) = 17 + Len(m.body) /\ Len(w) \in 0 .. Len(b)
  BY <1>1, <1>2, <1>4
<1>12. Stage(m, t.p, 15 + Len(w))
  BY <1>10, <1>11, Zenon DEF Stage
<1> QED
  BY <1>8, <1>11, <1>12, Zenon DEF Advance

\* The size 0, which ends the message; the CRLF behind it is left.
LEMMA StageLast ==
  ASSUME NEW m, Message(m), NEW p, Looks(p, m, "PARSE_BODY", TRUE, 0, Parsed(m).body),
         p.keep = m.keep, m.chunked, ~m.bad,
         NEW b \in Seq(Cell), Slice(b, Cells(m), 17 + Len(m.body)), ~Needs(p, b),
         NEW t \in Turn(p, b)
  PROVE  Advance(m, t, b, 17 + Len(m.body))
<1> DEFINE n == Len(m.body)
           o == 17 + n
<1>1. /\ n \in Nat /\ o \in Nat /\ 1 \in Nat /\ InLines(p) /\ p.state = "PARSE_BODY"
      /\ Slice(b, Cells(m), o)
  BY BodyCells DEF InLines, Looks
<1>2. /\ Len(Cells(m)) = 22 + n
      /\ Cells(m)[18 + n] = HexOf(0) /\ Cells(m)[19 + n] = CR /\ Cells(m)[20 + n] = LF
  BY ChunkCells
<1>3. /\ o + 1 = 18 + n /\ o + 1 + 1 = 19 + n /\ o + 1 + 2 = 20 + n
      /\ o + (1 + 2) = Len(Cells(m)) - (IF m.chunked THEN 2 ELSE 0)
  BY <1>1, <1>2
<1>4. LineAt(Cells(m), o, 1)
  <2>1. \A i \in 1 .. 1 : o + i = 18 + n
    BY <1>3
  <2>2. \A i \in 1 .. 1 : Cells(m)[o + i] # CR
    BY <1>2, <2>1, Kinds
  <2>3. o + 1 + 2 <= Len(Cells(m))
    BY <1>1, <1>2, <1>3
  <2> QED
    BY <1>2, <1>3, <2>2, <2>3 DEF LineAt
<1>5. /\ Line(b) \in Seq(Cell) /\ Len(Line(b)) = 1
      /\ \A i \in 1 .. 1 : Line(b)[i] = Cells(m)[o + i]
      /\ Stage(m, t.p, o + (1 + 2)) => Advance(m, t, b, o)
  <2> HIDE DEF o
  <2> QED
    BY <1>1, <1>4, StageLine, Zenon
<1>6. t.p = HexToDec(p, Line(b))
  BY <1>1, LineTurn
<1>7. Line(b)[1] = HexOf(0)
  BY <1>2, <1>3, <1>5
<1>8. t.p = [p EXCEPT !.finish = TRUE]
  BY <1>5, <1>6, <1>7, ReadsSize
<1>9. /\ t.p.finish /\ ~t.p.error /\ t.p.what = m.what /\ t.p.keep = m.keep
      /\ t.p.body = Parsed(m).body
  BY <1>8 DEF Looks, Parsers
<1>10. Stage(m, t.p, o + (1 + 2))
  BY <1>3, <1>9, Zenon DEF Stage
<1> QED
  BY <1>5, <1>10

\* Every turn brings a parser that is on its way through a message further.
LEMMA StageStep ==
  ASSUME NEW m, Message(m), NEW p, NEW o, Stage(m, p, o), ~p.finish, ~p.error,
         NEW b \in Seq(Cell), Slice(b, Cells(m), o), ~Needs(p, b), NEW t \in Turn(p, b)
  PROVE  Advance(m, t, b, o)
<1>1. CASE p = NewParser /\ o = 0
  BY <1>1, StageFirst
<1>2. CASE Looks(p, m, "PARSE_HEADER", FALSE, 0, <<>>) /\ o = 4
  BY <1>2, StageSaid
<1>3. CASE p.keep = m.keep /\ Looks(p, m, "PARSE_HEADER", FALSE, 0, <<>>) /\ o = 7
  BY <1>3, StageKept
<1>4. CASE /\ p.keep = m.keep /\ Looks(p, m, "PARSE_HEADER", TRUE, 0, <<>>) /\ o = 10
           /\ m.chunked \/ (~m.bad /\ m.body # <<>>)
  BY <1>4, StageFramed
<1>5. CASE /\ p.keep = m.keep /\ Looks(p, m, "PARSE_BODY", TRUE, 0, <<>>)
           /\ o = IF ~m.chunked /\ m.body = <<>> THEN 9 ELSE 12
           /\ m.chunked \/ ~m.bad
  <2>1. CASE m.chunked
    BY <1>5, <2>1, StageSize
  <2>2. CASE ~m.chunked
    <3>1. o = IF m.body = <<>> THEN 9 ELSE 12
      BY <1>5, <2>2
    <3> QED
      BY <1>5, <2>2, <3>1, StageLength
  <2> QED
    BY <2>1, <2>2
<1>6. CASE /\ p.keep = m.keep /\ Looks(p, m, "PARSE_BODY", TRUE, Len(m.body), <<>>) /\ o = 15
           /\ m.chunked /\ ~m.bad
  BY <1>6, StageChunk
<1>7. CASE /\ p.keep = m.keep /\ Looks(p, m, "PARSE_BODY", TRUE, 0, Parsed(m).body)
           /\ o = 17 + Len(m.body) /\ m.chunked /\ ~m.bad
  BY <1>7, StageLast
<1> QED
  BY <1>1, <1>2, <1>3, <1>4, <1>5, <1>6, <1>7, Zenon DEF Stage

-----------------------------------------------------------------------------
(* The CRLF a chunked message leaves in front of the next parser. *)

\* All of it: an empty line, which is no first line.
LEMMA LeftCRLF ==
  ASSUME NEW b \in Seq(Cell), Slice(b, CRLF, 0), ~Needs(NewParser, b), NEW t \in Turn(NewParser, b)
  PROVE  t.p = Wrong(NewParser)
<1>1. InLines(NewParser) /\ NewParser.state = "PARSE_FIRST_LINE" /\ 0 \in Nat
  BY DEF InLines, NewParser
<1>2. CRLF \in Seq(Cell) /\ LineAt(CRLF, 0, 0)
  BY CellsOf DEF CRLF, LineAt
<1>3. findCRLF(b) # {}
  BY <1>1 DEF Needs
<1>4. Line(b) \in Seq(Cell) /\ Len(Line(b)) = 0
  BY <1>1, <1>2, <1>3, TakesLine
<1>5. t.p \in parseFirstLine(NewParser, Line(b))
  BY <1>1, LineTurn
<1> QED
  BY <1>4, <1>5, ReadsEmpty

\* Only one byte of it, and nothing behind it yet.
LEMMA LeftByte ==
  ASSUME NEW b \in Seq(Cell), Len(b) <= 1
  PROVE  Needs(NewParser, b)
<1>1. InLines(NewParser)
  BY DEF InLines, NewParser
<1>2. findCRLF(b) = {}
  BY DEF findCRLF
<1> QED
  BY <1>1, <1>2 DEF Needs

\* Its LF in front of a message: the first line may or may not be found.
LEMMA LeftLF ==
  ASSUME NEW m, Message(m), NEW b \in Seq(Cell), Slice(b, <<LF>> \o Cells(m), 0),
         ~Needs(NewParser, b), NEW t \in Turn(NewParser, b)
  PROVE  \/ t.p = Wrong(NewParser)
         \/ 5 \in 0 .. Len(b) /\ t.s = SubSeq(b, 5 + 1, Len(b)) /\ Stage(m, t.p, 4)
<1> DEFINE c == <<LF>> \o Cells(m)
           p == NewParser
<1>1. InLines(p) /\ p.state = "PARSE_FIRST_LINE" /\ 0 \in Nat /\ 3 \in Nat
  BY DEF InLines, NewParser
<1>2. Begins(Cells(m), m) /\ Cells(m) \in Seq(Cell) /\ LF \in Cell
  BY CellsBegin, CellsOf DEF Begins
<1>3. /\ c \in Seq(Cell) /\ Len(c) = 1 + Len(Cells(m)) /\ c[1] = LF
      /\ \A i \in 1 .. Len(Cells(m)) : c[1 + i] = Cells(m)[i]
  BY <1>2
<1>4. c[1] = LF /\ c[2] = Start /\ c[3] = Says(m.what) /\ c[4] = CR /\ c[5] = LF /\ Len(c) >= 5
  <2>1. c[1 + 1] = Cells(m)[1] /\ c[1 + 2] = Cells(m)[2] /\ c[1 + 3] = Cells(m)[3]
        /\ c[1 + 4] = Cells(m)[4]
    BY <1>2, <1>3 DEF Begins
  <2> QED
    BY <1>2, <1>3, <2>1 DEF Begins
<1>5. Slice(b, c, 0) /\ findCRLF(b) # {}
  BY <1>1 DEF Needs
<1> HIDE DEF c
<1>6. LineAt(c, 0, 3)
  BY <1>4, Kinds DEF LineAt
<1>7. /\ 3 + 2 \in 0 .. Len(b) /\ Line(b) \in Seq(Cell) /\ Len(Line(b)) = 3
      /\ \A i \in 1 .. 3 : Line(b)[i] = c[0 + i]
      /\ Behind(b) = SubSeq(b, (3 + 2) + 1, Len(b))
  <2>1. c \in Seq(Cell) /\ 0 \in Nat /\ 3 \in Nat
    BY <1>3
  <2> QED
    BY <1>5, <1>6, <2>1, TakesLine, ZenonT(30)
<1>8. Line(b)[3] = Says(m.what) /\ Line(b)[3].k = "says" /\ Line(b)[3].what = m.what
  <2>1. Line(b)[3] = c[0 + 3] /\ 0 + 3 = 3
    BY <1>7
  <2>2. Line(b)[3] = Says(m.what)
    BY <1>4, <2>1
  <2> QED
    BY <2>2, Kinds
<1>9. t.p \in parseFirstLine(p, Line(b)) /\ t.s = Behind(b)
  BY <1>1, LineTurn
<1>10. t.p = Wrong(p) \/ t.p = [p EXCEPT !.what = m.what, !.state = "PARSE_HEADER"]
  <2>1. parseFirstLine(p, Line(b)) =
          {Wrong(p), [p EXCEPT !.what = Line(b)[3].what, !.state = "PARSE_HEADER"]}
    <3> DEFINE line == Line(b)
    <3>0. line \in Seq(Cell) /\ Len(line) = 3 /\ line[3].k = "says"
      BY <1>7, <1>8, Zenon
    <3> HIDE DEF line, p
    <3>1. /\ line # <<>> /\ Len(line) # 2 /\ line[Len(line)] = line[3]
          /\ line[Len(line)].k = "says"
      <4>1. Len(<<>>) = 0 /\ 0 # 3
        OBVIOUS
      <4>2. line # <<>>
        BY <3>0, <4>1, Zenon
      <4> QED
        BY <3>0, <4>2
    <3>2. parseFirstLine(p, line) =
            {Wrong(p), [p EXCEPT !.what = line[Len(line)].what, !.state = "PARSE_HEADER"]}
      BY <3>1 DEF parseFirstLine
    <3> QED
      BY <3>1, <3>2 DEF line
  <2> QED
    BY <1>8, <1>9, <2>1
<1>11. CASE t.p = [p EXCEPT !.what = m.what, !.state = "PARSE_HEADER"]
  <2>1. /\ p.chunkSize = 0 /\ p.contentLen = 0 /\ p.body = <<>>
        /\ ~p.chunked /\ ~p.finish /\ ~p.error
    BY DEF NewParser
  <2>2. p \in Parsers /\ m.what \in Whats
    BY NewParserType DEF Message
  <2> HIDE DEF p
  <2>3. Looks(t.p, m, "PARSE_HEADER", FALSE, 0, <<>>)
    BY <1>11, <2>1, <2>2 DEF Looks, Parsers
  <2>4. Stage(m, t.p, 4)
    BY <2>3, Zenon DEF Stage
  <2> QED
    BY <1>7, <1>9, <2>4
<1> QED
  BY <1>10, <1>11

-----------------------------------------------------------------------------
(* What holds for every parser, wherever it began. *)

\* The text a parser looks into is of the kind it takes it for.
LEMMA CellFields ==
  ASSUME NEW c \in Cell
  PROVE  /\ c.k = "says" => c.what \in Whats
         /\ c.k = "length" => c.v \in Nat
         /\ c.k = "connection" => c.v \in BOOLEAN
         /\ c.k = "hex" => c.n \in Nat
<1>1. CASE c \in Octets \cup {Start, Header("chunked", 0), Header("bad", 0)}
  BY <1>1 DEF Octets, CR, LF, X, Start, Header
<1>2. CASE \E x \in Whats : c = Says(x)
  BY <1>2, Kinds
<1>3. CASE \E v \in BOOLEAN : c = Header("connection", v)
  <2>1. PICK v \in BOOLEAN : c = Header("connection", v)
    BY <1>3
  <2>2. c.k = "connection" /\ c.v = v
    BY <2>1, Kinds
  <2> QED
    BY <2>2
<1>4. CASE \E n \in Nat : c = Header("length", n)
  <2>1. PICK n \in Nat : c = Header("length", n)
    BY <1>4
  <2>2. c.k = "length" /\ c.v = n
    BY <2>1, Kinds
  <2> QED
    BY <2>2
<1>5. CASE \E n \in Nat : c = HexOf(n)
  <2>1. PICK n \in Nat : c = HexOf(n)
    BY <1>5
  <2>2. c.k = "hex" /\ c.n = n
    BY <2>1, Kinds
  <2> QED
    BY <2>2
<1> QED
  BY <1>1, <1>2, <1>3, <1>4, <1>5, Zenon DEF Cell

\* A parser that fails is a parser.
LEMMA WrongType == ASSUME NEW p \in Parsers PROVE Wrong(p) \in Parsers
BY DEF Wrong, Parsers

\* The first line leaves a parser.
LEMMA FirstLineType ==
  ASSUME NEW p \in Parsers, NEW line \in Seq(Cell), NEW q \in parseFirstLine(p, line)
  PROVE  q \in Parsers
<1>1. \A i \in 1 .. Len(line) : line[i] \in Cell /\ (line[i].k = "says" => line[i].what \in Whats)
  BY CellFields
<1>2. ASSUME NEW x \in Whats
      PROVE  [p EXCEPT !.what = x, !.state = "PARSE_HEADER"] \in Parsers
  BY DEF Parsers
<1>3. CASE q = Wrong(p)
  BY <1>3, WrongType
<1>4. CASE \E i \in 1 .. Len(line) :
             /\ line[i].k = "says"
             /\ q = [p EXCEPT !.what = line[i].what, !.state = "PARSE_HEADER"]
  BY <1>1, <1>2, <1>4, ZenonT(30)
<1>5. q = Wrong(p) \/ \E i \in 1 .. Len(line) :
             /\ line[i].k = "says"
             /\ q = [p EXCEPT !.what = line[i].what, !.state = "PARSE_HEADER"]
  <2>1. CASE Len(line) = 2 /\ line[1] = Start /\ line[2].k = "says"
    <3>1. q = [p EXCEPT !.what = line[2].what, !.state = "PARSE_HEADER"]
      BY <2>1 DEF parseFirstLine
    <3> QED
      BY <2>1, <3>1
  <2>2. CASE ~(Len(line) = 2 /\ line[1] = Start /\ line[2].k = "says") /\ line # <<>>
             /\ line[Len(line)].k = "says"
    <3>1. q = Wrong(p) \/ q = [p EXCEPT !.what = line[Len(line)].what, !.state = "PARSE_HEADER"]
      BY <2>2 DEF parseFirstLine
    <3>2. Len(line) \in 1 .. Len(line)
      BY <2>2
    <3> QED
      BY <2>2, <3>1, <3>2, Zenon
  <2>3. CASE ~(Len(line) = 2 /\ line[1] = Start /\ line[2].k = "says")
             /\ ~(line # <<>> /\ line[Len(line)].k = "says")
    BY <2>3 DEF parseFirstLine
  <2> QED
    BY <2>1, <2>2, <2>3
<1> QED
  BY <1>3, <1>4, <1>5, Zenon

\* So does a header.
LEMMA HeaderType ==
  ASSUME NEW p \in Parsers, NEW line \in Seq(Cell), NEW q \in parseHeader(p, line)
  PROVE  q \in Parsers
<1>1. CASE line = <<>> \/ Head(line) = CR
  BY <1>1 DEF parseHeader, Parsers
<1>2. CASE ~(line = <<>> \/ Head(line) = CR) /\ Len(line) > 1
  BY <1>2, WrongType DEF parseHeader
<1>3. CASE ~(line = <<>> \/ Head(line) = CR) /\ ~(Len(line) > 1)
  <2>1. /\ line[1] \in Cell /\ (line[1].k = "length" => line[1].v \in Nat)
        /\ line[1].k = "connection" => line[1].v \in BOOLEAN
    BY <1>3, CellFields
  <2>2. CASE line[1].k = "chunked"
    BY <1>3, <2>2 DEF parseHeader, Parsers
  <2>3. CASE line[1].k = "length"
    BY <1>3, <2>1, <2>3 DEF parseHeader, Parsers
  <2>4. CASE line[1].k = "connection"
    BY <1>3, <2>1, <2>4 DEF parseHeader, Parsers
  <2>5. CASE line[1].k \notin {"chunked", "length", "connection"}
    BY <1>3, <2>5, WrongType DEF parseHeader
  <2> QED
    BY <2>2, <2>3, <2>4, <2>5
<1> QED
  BY <1>1, <1>2, <1>3

\* And a chunk size.
LEMMA SizeType ==
  ASSUME NEW p \in Parsers, NEW line \in Seq(Cell)
  PROVE  HexToDec(p, line) \in Parsers
<1>1. CASE line = <<>> \/ line = <<HexOf(0)>>
  BY <1>1 DEF HexToDec, Parsers
<1>2. CASE ~(line = <<>> \/ line = <<HexOf(0)>>) /\ Len(line) = 1 /\ line[1].k = "hex"
  <2>1. line[1].n \in Nat
    BY <1>2, CellFields
  <2> QED
    BY <1>2, <2>1 DEF HexToDec, Parsers
<1>3. CASE ~(line = <<>> \/ line = <<HexOf(0)>>) /\ ~(Len(line) = 1 /\ line[1].k = "hex")
  BY <1>3, WrongType DEF HexToDec
<1> QED
  BY <1>1, <1>2, <1>3

\* A turn leaves a parser and the end of the bytes.
LEMMA TurnType ==
  ASSUME NEW p \in Parsers, NEW b \in Seq(Cell), ~Needs(p, b), NEW t \in Turn(p, b)
  PROVE  t.p \in Parsers /\ \E k \in 0 .. Len(b) : t.s = SubSeq(b, k + 1, Len(b))
<1>1. Len(b) \in Nat /\ Whole(p) \in Nat
  BY DEF Whole, Parsers
<1>2. CASE InLines(p)
  <2>1. findCRLF(b) # {} /\ findCRLF(b) \subseteq 1 .. Len(b) - 1
    BY <1>2 DEF Needs, findCRLF
  <2>2. findCRLF(b) \subseteq Nat
    BY <1>1, <2>1
  <2>3. \E x \in findCRLF(b) : \A y \in findCRLF(b) : x <= y
    BY <2>1, <2>2, LeastNatural
  <2>4. Min(findCRLF(b)) \in findCRLF(b)
    BY <2>3, Zenon DEF Min
  <2> DEFINE i == Min(findCRLF(b))
  <2>5. i \in 1 .. Len(b) - 1
    BY <2>1, <2>4
  <2>6. Line(b) = SubSeq(b, 1, i - 1) /\ Behind(b) = SubSeq(b, (i + 1) + 1, Len(b))
    BY <1>1, <2>5, SMTT(20) DEF Line, Behind
  <2> HIDE DEF i
  <2>7. Line(b) \in Seq(Cell) /\ i + 1 \in 0 .. Len(b)
    BY <1>1, <2>5, <2>6
  <2>8. t.p \in Parsers
    <3>1. p.state \in {"PARSE_FIRST_LINE", "PARSE_HEADER", "PARSE_BODY"}
      BY DEF Parsers
    <3> QED
      BY <1>2, <2>7, <3>1, LineTurn, FirstLineType, HeaderType, SizeType
  <2>9. t.s = SubSeq(b, (i + 1) + 1, Len(b))
    BY <1>2, <2>6, LineTurn
  <2> QED
    BY <2>7, <2>8, <2>9
<1>3. CASE ~InLines(p)
  <2>1. TakesBody(p, b, t)
    BY <1>3, BodyTurn
  <2>2. Whole(p) \in 0 .. Len(b)
    BY <1>1, <1>3 DEF Needs
  <2>3. Bytes(p, b) \in Seq(Cell) /\ p.body \in Seq(Cell)
    <3>1. Bytes(p, b) = SubSeq(b, 1, Whole(p))
      BY <1>1, <2>2 DEF Bytes
    <3>2. \A i \in 1 .. Whole(p) : b[i] \in Cell
      BY <1>1, <2>2
    <3>3. SubSeq(b, 1, Whole(p)) \in Seq(Cell)
      BY <1>1, <3>2, SubSeqProperties
    <3> QED
      BY <3>1, <3>3 DEF Parsers
  <2>4. p.body \o Bytes(p, b) \in Seq(Cell)
    BY <2>3, ConcatProperties
  <2>5. t.p \in Parsers
    <3>1. ASSUME NEW w \in Seq(Cell), NEW f \in BOOLEAN
          PROVE  [p EXCEPT !.body = w, !.chunkSize = 0, !.finish = f] \in Parsers
      BY DEF Parsers
    <3>2. (~p.chunked) \in BOOLEAN
      BY Zenon
    <3> QED
      BY <2>1, <2>4, <3>1, <3>2 DEF TakesBody
  <2> QED
    BY <2>1, <2>2, <2>5 DEF TakesBody
<1> QED
  BY <1>2, <1>3

-----------------------------------------------------------------------------
(* The servlets. *)

ServletsType ==
  /\ calls \in Nat /\ crashed \in BOOLEAN
  /\ servlets \in [Uris -> 0 .. calls]
  /\ globals \in Seq([uri : Patterns, servlet : 0 .. calls])
  /\ latest \in [Patterns -> 0 .. calls]

ServletsInv == ServletsType /\ GlobalsCurrent

\* What a removal leaves stands where it stood or one place further back.
LEMMA RemoveAtIs ==
  ASSUME NEW S, NEW q \in Seq(S), NEW k \in 1 .. Len(q)
  PROVE  /\ RemoveAt(q, k) \in Seq(S) /\ Len(RemoveAt(q, k)) = Len(q) - 1
         /\ \A i \in 1 .. Len(q) - 1 : RemoveAt(q, k)[i] = IF i < k THEN q[i] ELSE q[i + 1]
<1> DEFINE a == SubSeq(q, 1, k - 1)
           b == SubSeq(q, k + 1, Len(q))
<1>1. Len(q) \in Nat /\ k \in Nat /\ k >= 1 /\ k <= Len(q)
  OBVIOUS
<1>2. a \in Seq(S) /\ Len(a) = k - 1 /\ \A i \in 1 .. k - 1 : a[i] = q[i]
  BY <1>1
<1>3. b \in Seq(S) /\ Len(b) = Len(q) - k /\ \A i \in 1 .. Len(q) - k : b[i] = q[k + i]
  BY <1>1
<1>4. RemoveAt(q, k) = a \o b
  BY DEF RemoveAt
<1> HIDE DEF a, b
<1>5. a \o b \in Seq(S) /\ Len(a \o b) = Len(q) - 1
  <2>1. a \o b \in Seq(S) /\ Len(a \o b) = Len(a) + Len(b)
    BY <1>2, <1>3, ConcatProperties
  <2> QED
    BY <1>1, <1>2, <1>3, <2>1
<1>6. ASSUME NEW i \in 1 .. Len(q) - 1
      PROVE  (a \o b)[i] = IF i < k THEN q[i] ELSE q[i + 1]
  <2>1. CASE i < k
    BY <1>1, <1>2, <1>3, <2>1
  <2>2. CASE ~(i < k)
    <3>1. (a \o b)[i] = b[i - (k - 1)] /\ i - (k - 1) \in 1 .. Len(q) - k
      BY <1>1, <1>2, <1>3, <2>2
    <3>2. k + (i - (k - 1)) = i + 1
      BY <1>1
    <3> QED
      BY <1>3, <2>2, <3>1, <3>2
  <2> QED
    BY <2>1, <2>2
<1> QED
  BY <1>4, <1>5, <1>6

\* The first place of a pattern is one of its places.
LEMMA MinOfPlaces ==
  ASSUME NEW q, Len(q) \in Nat, NEW P, P \subseteq 1 .. Len(q), P # {}
  PROVE  Min(P) \in P
<1>1. P \subseteq Nat
  OBVIOUS
<1>2. \E x \in P : \A y \in P : x <= y
  BY <1>1, LeastNatural
<1> QED
  BY <1>2, Zenon DEF Min

\* Without the entry of a pattern globals_ holds that pattern no more, and every
\* other pattern at most once.
LEMMA ErasedIs ==
  ASSUME ServletsInv, ~crashed, NEW g \in Patterns
  PROVE  /\ Erased(g) \in Seq([uri : Patterns, servlet : 0 .. calls])
         /\ \A i \in 1 .. Len(Erased(g)) :
              /\ Erased(g)[i].uri # g
              /\ Erased(g)[i].servlet = latest[Erased(g)[i].uri]
         /\ \A i, j \in 1 .. Len(Erased(g)) : Erased(g)[i].uri = Erased(g)[j].uri => i = j
<1> DEFINE S == [uri : Patterns, servlet : 0 .. calls]
           q == globals
<1>1. q \in Seq(S) /\ Len(q) \in Nat /\ DOMAIN q = 1 .. Len(q)
  BY DEF ServletsInv, ServletsType
<1>2. /\ \A i \in 1 .. Len(q) : q[i].servlet = latest[q[i].uri]
      /\ \A i, j \in 1 .. Len(q) : q[i].uri = q[j].uri => i = j
  BY <1>1 DEF ServletsInv, GlobalsCurrent
<1>3. At(g) = {i \in 1 .. Len(q) : q[i].uri = g}
  BY <1>1 DEF At
<1>4. CASE At(g) = {}
  BY <1>1, <1>2, <1>3, <1>4 DEF Erased
<1>5. CASE At(g) # {}
  <2> DEFINE k == Min(At(g))
             r == RemoveAt(q, k)
  <2>1. Erased(g) = r
    BY <1>5 DEF Erased
  <2>2. k \in At(g)
    BY <1>1, <1>3, <1>5, MinOfPlaces
  <2>3. k \in 1 .. Len(q) /\ q[k].uri = g
    BY <1>3, <2>2
  <2> HIDE DEF k
  <2>4. /\ r \in Seq(S) /\ Len(r) = Len(q) - 1
        /\ \A i \in 1 .. Len(q) - 1 : r[i] = IF i < k THEN q[i] ELSE q[i + 1]
    BY <1>1, <2>3, RemoveAtIs
  <2> HIDE DEF r, q, S
  <2>5. ASSUME NEW i \in 1 .. Len(r)
        PROVE  \E n \in 1 .. Len(q) : r[i] = q[n] /\ n # k /\ n = IF i < k THEN i ELSE i + 1
    BY <1>1, <2>3, <2>4
  <2>6. \A i \in 1 .. Len(r) : r[i].uri # g /\ r[i].servlet = latest[r[i].uri]
    <3> TAKE i \in 1 .. Len(r)
    <3>1. PICK n \in 1 .. Len(q) : r[i] = q[n] /\ n # k
      BY <2>5
    <3>2. q[n].uri # g
      BY <1>2, <2>3, <3>1
    <3> QED
      BY <1>2, <3>1, <3>2
  <2>7. \A i, j \in 1 .. Len(r) : r[i].uri = r[j].uri => i = j
    <3> TAKE i, j \in 1 .. Len(r)
    <3> HAVE r[i].uri = r[j].uri
    <3>1. PICK n \in 1 .. Len(q) : r[i] = q[n] /\ n = IF i < k THEN i ELSE i + 1
      BY <2>5
    <3>2. PICK o \in 1 .. Len(q) : r[j] = q[o] /\ o = IF j < k THEN j ELSE j + 1
      BY <2>5
    <3>3. n = o
      BY <1>2, <3>1, <3>2
    <3> QED
      BY <1>1, <2>3, <2>4, <3>1, <3>2, <3>3
  <2> QED
    BY <2>1, <2>4, <2>6, <2>7 DEF S
<1> QED
  BY <1>4, <1>5

\* The servlet of a path is one that some call has registered, or the default one.
LEMMA MatchType ==
  ASSUME ServletsType, NEW u
  PROVE  getMatchServlet(u) \in 0 .. calls
<1> DEFINE M == {i \in DOMAIN globals : u \in Matches[globals[i].uri]}
<1>1. globals \in Seq([uri : Patterns, servlet : 0 .. calls]) /\ Len(globals) \in Nat
      /\ DOMAIN globals = 1 .. Len(globals) /\ calls \in Nat
  BY DEF ServletsType
<1>2. M \subseteq 1 .. Len(globals)
  BY <1>1
<1>3. M # {} => globals[Min(M)].servlet \in 0 .. calls
  <2> HIDE DEF M
  <2>1. M # {} => Min(M) \in 1 .. Len(globals)
    BY <1>1, <1>2, MinOfPlaces
  <2>2. \A i \in 1 .. Len(globals) : globals[i].servlet \in 0 .. calls
    <3> DEFINE N == 0 .. calls
               S == [uri : Patterns, servlet : N]
    <3>1. \A x \in S : x.servlet \in N
      <4> HIDE DEF N
      <4> QED
        OBVIOUS
    <3>2. globals \in Seq(S)
      BY <1>1
    <3> HIDE DEF S
    <3>3. \A i \in 1 .. Len(globals) : globals[i] \in S
      BY <3>2
    <3> QED
      BY <3>1, <3>3
  <2> QED
    BY <2>1, <2>2
<1>4. u \in Uris => servlets[u] \in 0 .. calls
  BY DEF ServletsType
<1> HIDE DEF M
<1>5. getMatchServlet(u) = IF u \in Uris /\ servlets[u] # 0 THEN servlets[u]
                           ELSE IF M # {} THEN globals[Min(M)].servlet ELSE 0
  BY DEF getMatchServlet, M
<1> QED
  BY <1>1, <1>3, <1>4, <1>5

\* Calls that change the servlets keep globals_ current: an entry is erased before
\* its pattern is added anew.
LEMMA AdminInv ==
  ASSUME ServletsInv, AdminStep
  PROVE  ServletsInv'
<1> DEFINE N == 0 .. calls
           M == 0 .. calls + 1
           S == [uri : Patterns, servlet : N]
           T == [uri : Patterns, servlet : M]
<1>1. /\ ~crashed /\ calls' = calls + 1 /\ calls \in Nat
      /\ N \subseteq M /\ calls + 1 \in M /\ 0 \in M
  <2>1. Admin
    BY Zenon DEF AdminStep, addServlet, delServlet, addGlobalServlet, delGlobalServlet
  <2>2. calls \in Nat
    BY DEF ServletsInv, ServletsType
  <2> QED
    BY <2>1, <2>2 DEF Admin
<1>2. /\ servlets \in [Uris -> N] /\ latest \in [Patterns -> N] /\ globals \in Seq(S)
      /\ crashed \in BOOLEAN
  BY DEF ServletsInv, ServletsType
<1>3. S \subseteq T /\ \A x \in S : x.uri \in Patterns /\ x.servlet \in N
  <2> HIDE DEF N, M
  <2> QED
    BY <1>1
<1>4. Seq(S) \subseteq Seq(T)
  <2> HIDE DEF S, T
  <2> QED
    BY <1>3
<1>5. /\ \A i \in DOMAIN globals : globals[i].servlet = latest[globals[i].uri]
      /\ \A i, j \in DOMAIN globals : globals[i].uri = globals[j].uri => i = j
  BY <1>1 DEF ServletsInv, GlobalsCurrent
<1>6. SUFFICES /\ crashed' \in BOOLEAN /\ servlets' \in [Uris -> M] /\ globals' \in Seq(T)
               /\ latest' \in [Patterns -> M] /\ GlobalsCurrent'
  BY <1>1 DEF ServletsInv, ServletsType
<1> HIDE DEF N, M, S, T
<1>7. CASE \E u \in Uris : addServlet(u) \/ delServlet(u)
  <2>1. PICK u \in Uris : addServlet(u) \/ delServlet(u)
    BY <1>7
  <2>2. globals' = globals /\ latest' = latest /\ crashed' = crashed
    BY <2>1 DEF addServlet, delServlet
  <2>3. \E n \in M : servlets' = [servlets EXCEPT ![u] = n]
    BY <1>1, <2>1 DEF addServlet, delServlet
  <2>4. servlets' \in [Uris -> M] /\ latest \in [Patterns -> M]
    BY <1>1, <1>2, <2>3
  <2> QED
    BY <1>2, <1>4, <1>5, <2>2, <2>4 DEF GlobalsCurrent
<1>8. CASE \E g \in Patterns : addGlobalServlet(g) \/ delGlobalServlet(g)
  <2>1. PICK g \in Patterns : addGlobalServlet(g) \/ delGlobalServlet(g)
    BY <1>8
  <2> DEFINE e == Erased(g)
             n == calls + 1
             x == [uri |-> g, servlet |-> n]
  <2>2. /\ e \in Seq(S)
        /\ \A i \in 1 .. Len(e) : e[i].uri # g /\ e[i].servlet = latest[e[i].uri]
        /\ \A i, j \in 1 .. Len(e) : e[i].uri = e[j].uri => i = j
    BY <1>1, ErasedIs DEF S, N
  <2>3. servlets' \in [Uris -> M]
    <3>1. servlets' = servlets
      BY <2>1 DEF addGlobalServlet, delGlobalServlet
    <3> QED
      BY <1>1, <1>2, <3>1
  <2>4. e \in Seq(T) /\ x \in T /\ latest \in [Patterns -> M]
    BY <1>1, <1>2, <1>4, <2>2 DEF T
  <2>5. CASE delGlobalServlet(g)
    <3>1. globals' = e /\ latest' = latest /\ crashed' = crashed
      BY <2>5 DEF delGlobalServlet
    <3>2. DOMAIN e = 1 .. Len(e)
      BY <2>2
    <3> HIDE DEF e
    <3> QED
      BY <1>2, <2>2, <2>3, <2>4, <3>1, <3>2 DEF GlobalsCurrent
  <2>6. CASE addGlobalServlet(g)
    <3>1. /\ globals' = Append(e, x) /\ latest' = [latest EXCEPT ![g] = n]
          /\ crashed' = (Len(globals) \in At(g))
      BY <2>6 DEF addGlobalServlet
    <3>2. x.uri = g /\ x.servlet = n /\ n \in M
      BY <1>1
    <3> HIDE DEF e, x, n
    <3>3. /\ Append(e, x) \in Seq(T) /\ Len(e) \in Nat
          /\ DOMAIN Append(e, x) = 1 .. Len(e) + 1
          /\ \A i \in 1 .. Len(e) : Append(e, x)[i] = e[i]
          /\ Append(e, x)[Len(e) + 1] = x
      BY <2>4
    <3>4. latest' \in [Patterns -> M] /\ crashed' \in BOOLEAN
      BY <2>4, <3>1, <3>2
    <3>5. /\ latest'[g] = n /\ \A h \in Patterns : h # g => latest'[h] = latest[h]
      BY <2>4, <3>1
    <3>6. \A i \in 1 .. Len(e) : e[i].uri \in Patterns
      BY <1>3, <2>2
    <3>7. \A i \in 1 .. Len(e) + 1 : i = Len(e) + 1 \/ i \in 1 .. Len(e)
      BY <3>3
    <3>8. \A i \in DOMAIN globals' : globals'[i].servlet = latest'[globals'[i].uri]
      BY <2>2, <3>1, <3>2, <3>3, <3>5, <3>6, <3>7
    <3>9. \A i, j \in DOMAIN globals' : globals'[i].uri = globals'[j].uri => i = j
      BY <2>2, <3>1, <3>2, <3>3, <3>7
    <3> QED
      BY <2>3, <3>1, <3>3, <3>4, <3>8, <3>9 DEF GlobalsCurrent
  <2> QED
    BY <2>1, <2>5, <2>6
<1> QED
  BY <1>7, <1>8 DEF AdminStep

\* Nothing else changes them.
LEMMA ServletsUnchanged ==
  ASSUME ServletsInv, UNCHANGED dispatchVars
  PROVE  ServletsInv'
BY DEF ServletsInv, ServletsType, GlobalsCurrent, dispatchVars

\* Every step keeps the servlets typed and globals_ current.
LEMMA ServletsStep ==
  ASSUME ServletsInv, [Next]_vars
  PROVE  ServletsInv'
<1>1. AdminStep \/ UNCHANGED dispatchVars
  BY DEF Next, vars, ServerStep, ClientStep, Dispatch, Respond, Close, Timeout, Fail, Receive,
         Parse, Request, TakeResponse
<1> QED
  BY <1>1, AdminInv, ServletsUnchanged

\* Initially there is no servlet but the default one.
LEMMA ServletsInit ==
  ASSUME Init
  PROVE  ServletsInv
<1>1. /\ servlets = [u \in Uris |-> 0] /\ globals = <<>> /\ calls = 0
      /\ latest = [g \in Patterns |-> 0] /\ crashed = FALSE
  BY DEF Init, InitServlets
<1>2. 0 \in 0 .. 0
  OBVIOUS
<1>3. ServletsType
  <2> DEFINE N == 0 .. calls
  <2>1. 0 \in N /\ calls \in Nat
    BY <1>1, <1>2
  <2> HIDE DEF N
  <2>2. /\ [u \in Uris |-> 0] \in [Uris -> N] /\ [g \in Patterns |-> 0] \in [Patterns -> N]
        /\ <<>> \in Seq([uri : Patterns, servlet : N])
    BY <2>1
  <2> QED
    BY <1>1, <2>1, <2>2 DEF ServletsType, N
<1> QED
  BY <1>1, <1>3 DEF ServletsInv, GlobalsCurrent

\* Whatever calls register and remove patterns while requests are dispatched,
\* globals_ holds a pattern at most once, with the servlet registered last
\* (ServletDispatch::addGlobalServlet and delGlobalServlet).
THEOREM GlobalsStayCurrent == Spec => []GlobalsCurrent
<1>1. Init => ServletsInv
  BY ServletsInit
<1>2. ServletsInv /\ [Next]_vars => ServletsInv'
  BY ServletsStep
<1>3. ServletsInv => GlobalsCurrent
  BY DEF ServletsInv
<1> QED
  BY <1>1, <1>2, <1>3, PTL DEF Spec

-----------------------------------------------------------------------------
(* One side of the connection: the cells c sent to it, the messages l they are, *)
(* and a parser p that began at a, has read up to t and not used b.             *)

\* The message of the entry e is in the cells c.
Placed(c, e) ==
  /\ e.at \in Nat /\ Message(e.msg) /\ e.at + Len(Cells(e.msg)) <= Len(c)
  /\ \A j \in 1 .. Len(Cells(e.msg)) : c[e.at + j] = Cells(e.msg)[j]

\* The parser has read what was sent from where it began; when a message begins
\* there, it is on its way through it.
Sound(c, l, p, b, t, a) ==
  /\ c \in Seq(Cell) /\ b \in Seq(Cell) /\ p \in Parsers /\ t \in Nat /\ a \in Nat
  /\ a + Len(b) <= t /\ t <= Len(c)
  /\ \A i \in 1 .. Len(b) : b[i] = c[t - Len(b) + i]
  /\ a = t => p = NewParser
  /\ \A i \in 1 .. Len(l) :
       /\ Placed(c, l[i])
       /\ l[i].at = a => Stage(l[i].msg, p, t - Len(b) - l[i].at)
       /\ i = Len(l) => l[i].at + Len(Cells(l[i].msg)) = Len(c)

\* Where the members of two sequences stand behind one another.
LEMMA ConcatAt ==
  ASSUME NEW S, NEW q \in Seq(S), NEW r \in Seq(S)
  PROVE  /\ q \o r \in Seq(S) /\ Len(q \o r) = Len(q) + Len(r)
         /\ \A i \in 1 .. Len(q) : (q \o r)[i] = q[i]
         /\ \A i \in 1 .. Len(r) : (q \o r)[Len(q) + i] = r[i]
<1>1. Len(q) \in Nat /\ Len(r) \in Nat
  OBVIOUS
<1>2. /\ q \o r \in Seq(S) /\ Len(q \o r) = Len(q) + Len(r)
      /\ \A i \in 1 .. Len(q) + Len(r) : (q \o r)[i] = IF i <= Len(q) THEN q[i] ELSE r[i - Len(q)]
  BY ConcatProperties
<1>3. ASSUME NEW i \in 1 .. Len(q) PROVE (q \o r)[i] = q[i]
  <2>1. i \in 1 .. Len(q) + Len(r) /\ i <= Len(q)
    BY <1>1
  <2> QED
    BY <1>2, <2>1
<1>4. ASSUME NEW i \in 1 .. Len(r) PROVE (q \o r)[Len(q) + i] = r[i]
  <2>1. /\ Len(q) + i \in 1 .. Len(q) + Len(r) /\ ~(Len(q) + i <= Len(q))
        /\ (Len(q) + i) - Len(q) = i
    BY <1>1
  <2> QED
    BY <1>2, <2>1
<1> QED
  BY <1>2, <1>3, <1>4

\* The bytes of a parser inside a message are those of the message.
LEMMA SliceOf ==
  ASSUME NEW c \in Seq(Cell), NEW b \in Seq(Cell), NEW u \in Nat, NEW e, Placed(c, e),
         e.at <= u, \A i \in 1 .. Len(b) : b[i] = c[u + i]
  PROVE  Slice(b, Cells(e.msg), u - e.at)
<1>1. e.at \in Nat /\ Cells(e.msg) \in Seq(Cell) /\ Len(Cells(e.msg)) \in Nat /\ Len(b) \in Nat
  BY CellsBegin, SMTT(20) DEF Begins, Placed
<1> DEFINE o == u - e.at
<1>2. o \in Nat /\ u = e.at + o
  BY <1>1
<1> HIDE DEF o
<1>3. ASSUME NEW i \in 1 .. Len(b), o + i <= Len(Cells(e.msg))
      PROVE  b[i] = Cells(e.msg)[o + i]
  <2>1. o + i \in 1 .. Len(Cells(e.msg)) /\ e.at + (o + i) = u + i
    BY <1>1, <1>2, <1>3, SMTT(20)
  <2>2. c[e.at + (o + i)] = Cells(e.msg)[o + i]
    BY <2>1 DEF Placed
  <2> QED
    BY <2>1, <2>2
<1> QED
  BY <1>3 DEF Slice, o

\* A turn inside a message leads on through that message.
LEMMA FollowTurn ==
  ASSUME NEW c \in Seq(Cell), NEW b \in Seq(Cell), NEW t \in Nat, Len(b) <= t, NEW e, Placed(c, e),
         e.at <= t - Len(b), \A i \in 1 .. Len(b) : b[i] = c[t - Len(b) + i],
         NEW p, Stage(e.msg, p, t - Len(b) - e.at), ~p.finish, ~p.error, ~Needs(p, b),
         NEW r \in Turn(p, b)
  PROVE  Stage(e.msg, r.p, t - Len(r.s) - e.at)
<1> DEFINE u == t - Len(b)
           o == u - e.at
<1>1. e.at \in Nat /\ u \in Nat /\ o \in Nat /\ Len(b) \in Nat /\ Message(e.msg)
  BY DEF Placed
<1>2. Stage(e.msg, p, o)
  OBVIOUS
<1>3. Slice(b, Cells(e.msg), o)
  <2> HIDE DEF u
  <2> SUFFICES Slice(b, Cells(e.msg), u - e.at)
    OBVIOUS
  <2> QED
    BY <1>1, SliceOf DEF u
<1>4. Advance(e.msg, r, b, o)
  <2> HIDE DEF o
  <2> QED
    BY <1>1, <1>2, <1>3, StageStep, Zenon
<1>5. PICK k \in 0 .. Len(b) : r.s = SubSeq(b, k + 1, Len(b)) /\ Stage(e.msg, r.p, o + k)
  BY <1>4, Zenon DEF Advance
<1>6. Len(r.s) = Len(b) - k
  BY <1>1, <1>5, SMTT(20)
<1>7. t - Len(r.s) - e.at = o + k
  BY <1>1, <1>6
<1> QED
  BY <1>5, <1>7

\* Nothing has been used of what a parser has not begun with.
LEMMA SoundAnew ==
  ASSUME NEW c, NEW l, NEW p, NEW b, NEW t, NEW a, Sound(c, l, p, b, t, a)
  PROVE  Sound(c, l, NewParser, <<>>, t, t)
<1>1. t \in Nat /\ Len(<<>>) = 0
  BY DEF Sound
<1>2. \A i \in 1 .. Len(l) : l[i].at = t => Stage(l[i].msg, NewParser, t - Len(<<>>) - l[i].at)
  <2>1. ASSUME NEW i \in 1 .. Len(l), l[i].at = t
        PROVE  Stage(l[i].msg, NewParser, t - Len(<<>>) - l[i].at)
    <3>1. t - Len(<<>>) - l[i].at = 0
      BY <1>1, <2>1
    <3> QED
      BY <3>1, Zenon DEF Stage
  <2> QED
    BY <2>1
<1>3. \A i \in 1 .. Len(l) :
        Placed(c, l[i]) /\ (i = Len(l) => l[i].at + Len(Cells(l[i].msg)) = Len(c))
  BY DEF Sound
<1>4. <<>> \in Seq(Cell) /\ t + 0 <= t
  BY <1>1
<1>5. c \in Seq(Cell) /\ t <= Len(c)
  BY DEF Sound
<1>6. \A i \in 1 .. Len(<<>>) : <<>>[i] = c[t - Len(<<>>) + i]
  BY <1>1
<1> QED
  BY <1>1, <1>2, <1>3, <1>4, <1>5, <1>6, NewParserType, Zenon DEF Sound

\* The parser reads n more cells.
LEMMA SoundRead ==
  ASSUME NEW c, NEW l, NEW p, NEW b, NEW t, NEW a, Sound(c, l, p, b, t, a),
         NEW n \in 1 .. Len(c) - t
  PROVE  Sound(c, l, p, b \o SubSeq(c, t + 1, t + n), t + n, a)
<1> DEFINE w == SubSeq(c, t + 1, t + n)
           d == b \o w
<1>1. /\ c \in Seq(Cell) /\ b \in Seq(Cell) /\ p \in Parsers /\ t \in Nat /\ a \in Nat
      /\ Len(c) \in Nat /\ Len(b) \in Nat /\ n \in Nat /\ n >= 1 /\ t + n <= Len(c)
      /\ a + Len(b) <= t /\ t <= Len(c)
  BY DEF Sound
<1>2. w \in Seq(Cell) /\ Len(w) = n /\ \A i \in 1 .. n : w[i] = c[t + i]
  BY <1>1
<1> HIDE DEF w
<1>3. /\ d \in Seq(Cell) /\ Len(d) = Len(b) + n
      /\ \A i \in 1 .. Len(b) : d[i] = b[i]
      /\ \A i \in 1 .. n : d[Len(b) + i] = w[i]
  <2>1. /\ d \in Seq(Cell) /\ Len(d) = Len(b) + Len(w)
        /\ \A i \in 1 .. Len(b) : d[i] = b[i]
        /\ \A i \in 1 .. Len(w) : d[Len(b) + i] = w[i]
    <3>1. b \in Seq(Cell) /\ w \in Seq(Cell)
      BY <1>1, <1>2
    <3> QED
      BY <3>1, ConcatAt
  <2> HIDE DEF d
  <2> QED
    BY <1>2, <2>1
<1> HIDE DEF d
<1>4. (t + n) - Len(d) = t - Len(b) /\ a + Len(d) <= t + n /\ a # t + n /\ t + n \in Nat
  BY <1>1, <1>3
<1>5. ASSUME NEW i \in 1 .. Len(d)
      PROVE  d[i] = c[t - Len(b) + i]
  <2>1. CASE i <= Len(b)
    <3>1. i \in 1 .. Len(b)
      BY <1>1, <2>1
    <3> QED
      BY <1>3, <3>1 DEF Sound
  <2>2. CASE ~(i <= Len(b))
    <3> DEFINE j == i - Len(b)
    <3>1. j \in 1 .. n /\ i = Len(b) + j /\ t - Len(b) + i = t + j
      BY <1>1, <1>3, <2>2
    <3> HIDE DEF j
    <3> QED
      BY <1>2, <1>3, <3>1
  <2> QED
    BY <2>1, <2>2
<1>6. \A i \in 1 .. Len(d) : d[i] = c[(t + n) - Len(d) + i]
  BY <1>4, <1>5
<1>7. \A i \in 1 .. Len(l) :
        /\ Placed(c, l[i])
        /\ l[i].at = a => Stage(l[i].msg, p, (t + n) - Len(d) - l[i].at)
        /\ i = Len(l) => l[i].at + Len(Cells(l[i].msg)) = Len(c)
  BY <1>4, Zenon DEF Sound
<1>8. Sound(c, l, p, d, t + n, a)
  BY <1>1, <1>3, <1>4, <1>6, <1>7, Zenon DEF Sound
<1> QED
  BY <1>8 DEF d, w

\* The parser takes a turn.
LEMMA SoundTurn ==
  ASSUME NEW c, NEW l, NEW p, NEW b, NEW t, NEW a, Sound(c, l, p, b, t, a),
         ~p.finish, ~p.error, ~Needs(p, b), NEW r \in Turn(p, b)
  PROVE  Sound(c, l, r.p, r.s, t, a) /\ t - Len(b) <= t - Len(r.s)
<1>1. /\ c \in Seq(Cell) /\ b \in Seq(Cell) /\ p \in Parsers /\ t \in Nat /\ a \in Nat
      /\ Len(c) \in Nat /\ Len(b) \in Nat
      /\ a + Len(b) <= t /\ t <= Len(c)
      /\ \A i \in 1 .. Len(b) : b[i] = c[t - Len(b) + i]
  BY DEF Sound
<1>2. /\ r.p \in Parsers
      /\ \E k \in 0 .. Len(b) : r.s = SubSeq(b, k + 1, Len(b))
  BY <1>1, TurnType
<1>3. PICK k \in 0 .. Len(b) : r.s = SubSeq(b, k + 1, Len(b))
  BY <1>2
<1>4. r.s \in Seq(Cell) /\ Len(r.s) = Len(b) - k /\ \A i \in 1 .. Len(b) - k : r.s[i] = b[k + i]
  BY <1>1, <1>3, SMTT(20)
<1>5. \A i \in 1 .. Len(r.s) : r.s[i] = c[t - Len(r.s) + i]
  <2> TAKE i \in 1 .. Len(r.s)
  <2>1. k + i \in 1 .. Len(b) /\ t - Len(b) + (k + i) = t - Len(r.s) + i /\ i \in 1 .. Len(b) - k
    BY <1>1, <1>4
  <2> QED
    BY <1>1, <1>4, <2>1
<1>6. a # t
  <2>1. SUFFICES ASSUME a = t PROVE FALSE
    OBVIOUS
  <2>2. p = NewParser /\ Len(b) <= 1
    BY <1>1, <2>1 DEF Sound
  <2> QED
    BY <1>1, <2>2, LeftByte
<1>7. \A i \in 1 .. Len(l) :
        /\ Placed(c, l[i])
        /\ l[i].at = a => Stage(l[i].msg, r.p, t - Len(r.s) - l[i].at)
        /\ i = Len(l) => l[i].at + Len(Cells(l[i].msg)) = Len(c)
  <2>1. ASSUME NEW i \in 1 .. Len(l), l[i].at = a
        PROVE  Stage(l[i].msg, r.p, t - Len(r.s) - l[i].at)
    <3>1. Placed(c, l[i]) /\ Stage(l[i].msg, p, t - Len(b) - l[i].at)
      BY <2>1 DEF Sound
    <3>2. Len(b) <= t /\ l[i].at <= t - Len(b)
      BY <1>1, <2>1
    <3> QED
      BY <1>1, <3>1, <3>2, FollowTurn, Zenon
  <2> QED
    BY <2>1, Zenon DEF Sound
<1>8. a + Len(r.s) <= t /\ t - Len(b) <= t - Len(r.s)
  BY <1>1, <1>4
<1> QED
  BY <1>1, <1>2, <1>4, <1>5, <1>6, <1>7, <1>8, Zenon DEF Sound

\* A message that is in the cells stays there when more is sent.
LEMMA PlacedMore ==
  ASSUME NEW c \in Seq(Cell), NEW d \in Seq(Cell), NEW e, Placed(c, e)
  PROVE  Placed(c \o d, e)
<1>1. /\ e.at \in Nat /\ Message(e.msg) /\ Len(Cells(e.msg)) \in Nat
      /\ Len(c) \in Nat /\ Len(d) \in Nat /\ e.at + Len(Cells(e.msg)) <= Len(c)
  BY CellsBegin, SMTT(20) DEF Begins, Placed
<1>2. /\ Len(c \o d) = Len(c) + Len(d)
      /\ \A i \in 1 .. Len(c) : (c \o d)[i] = c[i]
  BY ConcatAt
<1>3. e.at + Len(Cells(e.msg)) <= Len(c \o d)
  BY <1>1, <1>2
<1>4. ASSUME NEW j \in 1 .. Len(Cells(e.msg))
      PROVE  (c \o d)[e.at + j] = Cells(e.msg)[j]
  <2>1. e.at + j \in 1 .. Len(c)
    BY <1>1
  <2>2. c[e.at + j] = Cells(e.msg)[j]
    BY DEF Placed
  <2> QED
    BY <1>2, <2>1, <2>2
<1> QED
  BY <1>1, <1>3, <1>4 DEF Placed

\* A message is sent behind what was sent before.
LEMMA PlacedNew ==
  ASSUME NEW c \in Seq(Cell), NEW m, Message(m), NEW e, e.at = Len(c), e.msg = m
  PROVE  /\ Placed(c \o Cells(m), e) /\ c \o Cells(m) \in Seq(Cell)
         /\ e.at + Len(Cells(m)) = Len(c \o Cells(m))
<1>1. Cells(m) \in Seq(Cell) /\ Len(Cells(m)) \in Nat /\ Len(c) \in Nat
  BY CellsBegin DEF Begins
<1> DEFINE d == Cells(m)
<1> HIDE DEF d
<1>2. /\ c \o d \in Seq(Cell) /\ Len(c \o d) = Len(c) + Len(d)
      /\ \A i \in 1 .. Len(d) : (c \o d)[Len(c) + i] = d[i]
  BY <1>1, ConcatAt DEF d
<1> QED
  BY <1>1, <1>2 DEF Placed, d

\* A message is sent to this side: a parser at the end of what there was is new and
\* in front of it.
LEMMA SoundPut ==
  ASSUME NEW c, NEW E, NEW l \in Seq(E), NEW p, NEW b, NEW t, NEW a, Sound(c, l, p, b, t, a),
         NEW m, Message(m), NEW e \in E, e.at = Len(c), e.msg = m
  PROVE  Sound(c \o Cells(m), Append(l, e), p, b, t, a)
<1> DEFINE d == c \o Cells(m)
           k == Append(l, e)
<1>1. /\ c \in Seq(Cell) /\ b \in Seq(Cell) /\ p \in Parsers /\ t \in Nat /\ a \in Nat
      /\ Len(c) \in Nat /\ Len(b) \in Nat
      /\ a + Len(b) <= t /\ t <= Len(c) /\ (a = t => p = NewParser)
      /\ \A i \in 1 .. Len(b) : b[i] = c[t - Len(b) + i]
  BY DEF Sound
<1>2. Cells(m) \in Seq(Cell) /\ Len(Cells(m)) \in Nat
  BY CellsBegin DEF Begins
<1>3. /\ d \in Seq(Cell) /\ Len(d) = Len(c) + Len(Cells(m))
      /\ \A i \in 1 .. Len(c) : d[i] = c[i]
  BY <1>1, <1>2, ConcatAt
<1>4. Placed(d, e) /\ e.at + Len(Cells(e.msg)) = Len(d)
  BY <1>1, PlacedNew
<1>5. \A i \in 1 .. Len(l) : Placed(d, l[i])
  BY <1>1, <1>2, PlacedMore DEF Sound
<1>6. /\ Len(k) = Len(l) + 1 /\ Len(l) \in Nat
      /\ \A i \in 1 .. Len(l) : k[i] = l[i]
      /\ k[Len(l) + 1] = e
  OBVIOUS
<1> HIDE DEF d, k
<1>7. \A i \in 1 .. Len(b) : b[i] = d[t - Len(b) + i]
  <2> TAKE i \in 1 .. Len(b)
  <2>1. t - Len(b) + i \in 1 .. Len(c)
    BY <1>1
  <2> QED
    BY <1>1, <1>3, <2>1
<1>8. e.at = a => Stage(e.msg, p, t - Len(b) - e.at)
  <2>1. SUFFICES ASSUME e.at = a PROVE Stage(e.msg, p, t - Len(b) - e.at)
    OBVIOUS
  <2>2. a = t /\ Len(b) = 0
    BY <1>1, <2>1
  <2>3. p = NewParser /\ t - Len(b) - e.at = 0
    BY <1>1, <2>1, <2>2
  <2> QED
    BY <2>3, Zenon DEF Stage
<1>9. ASSUME NEW i \in 1 .. Len(k)
      PROVE  /\ Placed(d, k[i])
             /\ k[i].at = a => Stage(k[i].msg, p, t - Len(b) - k[i].at)
             /\ i = Len(k) => k[i].at + Len(Cells(k[i].msg)) = Len(d)
  <2>1. CASE i = Len(l) + 1
    <3>1. k[i] = e
      BY <1>6, <2>1
    <3> QED
      BY <1>4, <1>8, <3>1
  <2>2. CASE i \in 1 .. Len(l)
    <3>1. k[i] = l[i] /\ i # Len(k)
      BY <1>6, <2>2
    <3>2. Placed(d, l[i]) /\ (l[i].at = a => Stage(l[i].msg, p, t - Len(b) - l[i].at))
      BY <1>5, <2>2 DEF Sound
    <3> QED
      BY <3>1, <3>2
  <2> QED
    BY <1>6, <2>1, <2>2
<1>10. t <= Len(d)
  BY <1>1, <1>2, <1>3
<1>11. Sound(d, k, p, b, t, a)
  BY <1>1, <1>3, <1>7, <1>9, <1>10, Zenon DEF Sound
<1> QED
  BY <1>11 DEF d, k

-----------------------------------------------------------------------------
(* The connection. *)

Responses ==
  [what : {[servlet |-> n] : n \in 0 .. MaxLoad}, keep : BOOLEAN, body : Seq(Octets),
   chunked : {FALSE}, bad : {FALSE}]

Entries == [at : Nat, msg : Requests \cup Responses]

\* Where a side is when it reads no more.
Over == {"cancelled", "astray", "close", "closed"}
Places == {"recv", "send"} \cup Over

HttpType ==
  /\ keepAlive \in BOOLEAN /\ waited \in BOOLEAN
  /\ pc \in [Sides -> Places]
  /\ stream \in [Sides -> Seq(Cell)] /\ ba \in [Sides -> Seq(Cell)]
  /\ parser \in [Sides -> Parsers] /\ taken \in [Sides -> Nat] /\ start \in [Sides -> Nat]
  /\ log \in [Sides -> Seq(Entries)] /\ response \in Responses
  /\ \A i \in 1 .. Len(log["client"]) : Proper(log["client"][i].msg)
  /\ Load <= MaxLoad

SideInv(s) == Sound(stream[s], log[s], parser[s], ba[s], taken[s], start[s])

HttpInv == ServletsInv /\ HttpType /\ \A s \in Sides : SideInv(s)

\* Requests and responses are messages.
LEMMA SentMessage ==
  ASSUME NEW m \in Requests \cup Responses
  PROVE  Message(m)
<1>1. CASE m \in Requests
  BY <1>1, HttpAssumption DEF Message, Whats
<1>2. CASE m \in Responses
  BY <1>2 DEF Message, Whats, Responses
<1> QED
  BY <1>1, <1>2

\* A read adds to what the parser has, and its place stays.
LEMMA ReceiveInv ==
  ASSUME HttpType, \A s \in Sides : SideInv(s), NEW s \in Sides, Receive(s)
  PROVE  HttpType' /\ (\A r \in Sides : SideInv(r)') /\ taken'[s] - Len(ba'[s]) = taken[s] - Len(ba[s])
<1>1. PICK n \in 1 .. Len(stream[s]) - taken[s] :
        /\ taken' = [taken EXCEPT ![s] = @ + n]
        /\ ba' = [ba EXCEPT ![s] = @ \o SubSeq(stream[s], taken[s] + 1, taken[s] + n)]
  BY DEF Receive
<1> DEFINE d == ba[s] \o SubSeq(stream[s], taken[s] + 1, taken[s] + n)
<1>2. /\ Sound(stream[s], log[s], parser[s], d, taken[s] + n, start[s])
      /\ (taken[s] + n) - Len(d) = taken[s] - Len(ba[s])
  <2> DEFINE c == stream[s]
             l == log[s]
             p == parser[s]
             b == ba[s]
             t == taken[s]
             a == start[s]
  <2>1. Sound(c, l, p, b, t, a) /\ n \in 1 .. Len(c) - t
    BY DEF SideInv
  <2> HIDE DEF c, l, p, b, t, a
  <2>2. Sound(c, l, p, b \o SubSeq(c, t + 1, t + n), t + n, a)
    BY <2>1, SoundRead, Zenon
  <2>3. /\ c \in Seq(Cell) /\ b \in Seq(Cell) /\ t \in Nat /\ Len(b) \in Nat
        /\ Len(c) \in Nat /\ t <= Len(c)
    BY <2>1 DEF Sound
  <2> DEFINE w == SubSeq(c, t + 1, t + n)
  <2>4. w \in Seq(Cell) /\ Len(w) = n
    BY <2>1, <2>3
  <2>5. Len(b \o w) = Len(b) + Len(w)
    <3> HIDE DEF w
    <3> QED
      BY <2>3, <2>4, ConcatAt
  <2>6. (t + n) - Len(b \o w) = t - Len(b)
    <3> HIDE DEF w
    <3> QED
      BY <2>1, <2>3, <2>4, <2>5
  <2> QED
    BY <2>2, <2>6 DEF c, l, p, b, t, a
<1>3. d \in Seq(Cell) /\ taken[s] + n \in Nat
  BY <1>2 DEF Sound
<1>4. /\ UNCHANGED <<keepAlive, pc, stream, parser, start, log, response, waited>>
      /\ calls' = calls
  BY DEF Receive, dispatchVars
<1> HIDE DEF d
<1>5. /\ taken' = [taken EXCEPT ![s] = taken[s] + n] /\ ba' = [ba EXCEPT ![s] = d]
      /\ taken \in [Sides -> Nat] /\ ba \in [Sides -> Seq(Cell)]
  BY <1>1 DEF HttpType, d
<1>6. /\ taken' \in [Sides -> Nat] /\ ba' \in [Sides -> Seq(Cell)]
      /\ taken'[s] = taken[s] + n /\ ba'[s] = d
      /\ \A r \in Sides : r # s => taken'[r] = taken[r] /\ ba'[r] = ba[r]
  BY <1>3, <1>5
<1>7. HttpType'
  BY <1>4, <1>6 DEF HttpType, Load
<1>8. ASSUME NEW r \in Sides PROVE SideInv(r)'
  BY <1>2, <1>4, <1>6 DEF SideInv
<1> QED
  BY <1>2, <1>6, <1>7, <1>8

\* A turn brings the parser of its side further.
LEMMA ParseInv ==
  ASSUME HttpType, \A s \in Sides : SideInv(s), NEW s \in Sides, Parse(s)
  PROVE  HttpType' /\ \A r \in Sides : SideInv(r)'
<1>1. PICK t \in Turn(parser[s], ba[s]) :
        parser' = [parser EXCEPT ![s] = t.p] /\ ba' = [ba EXCEPT ![s] = t.s]
  BY DEF Parse
<1>2. ~parser[s].finish /\ ~parser[s].error /\ ~Needs(parser[s], ba[s])
  BY DEF Parse, Busy
<1>3. Sound(stream[s], log[s], t.p, t.s, taken[s], start[s])
  BY <1>2, SoundTurn DEF SideInv
<1>4. /\ UNCHANGED <<keepAlive, pc, stream, taken, start, log, response, waited>>
      /\ calls' = calls
  BY DEF Parse, dispatchVars
<1>5. parser \in [Sides -> Parsers] /\ ba \in [Sides -> Seq(Cell)] /\ t.p \in Parsers
      /\ t.s \in Seq(Cell)
  BY <1>3 DEF HttpType, Sound
<1>6. /\ parser' \in [Sides -> Parsers] /\ ba' \in [Sides -> Seq(Cell)]
      /\ parser'[s] = t.p /\ ba'[s] = t.s
      /\ \A r \in Sides : r # s => parser'[r] = parser[r] /\ ba'[r] = ba[r]
  BY <1>1, <1>5
<1>7. HttpType'
  BY <1>4, <1>6 DEF HttpType, Load
<1>8. ASSUME NEW r \in Sides PROVE SideInv(r)'
  BY <1>3, <1>4, <1>6 DEF SideInv
<1> QED
  BY <1>7, <1>8

\* A new parser begins where the old one has read to.
LEMMA AnewSide ==
  ASSUME HttpType, \A s \in Sides : SideInv(s), NEW s \in Sides, Anew(s), UNCHANGED taken
  PROVE  /\ parser' \in [Sides -> Parsers] /\ ba' \in [Sides -> Seq(Cell)] /\ start' \in [Sides -> Nat]
         /\ parser'[s] = NewParser /\ ba'[s] = <<>> /\ start'[s] = taken[s]
         /\ \A r \in Sides : r # s => parser'[r] = parser[r] /\ ba'[r] = ba[r] /\ start'[r] = start[r]
         /\ Sound(stream[s], log[s], NewParser, <<>>, taken[s], taken[s])
<1>1. /\ parser \in [Sides -> Parsers] /\ ba \in [Sides -> Seq(Cell)] /\ start \in [Sides -> Nat]
      /\ taken[s] \in Nat /\ NewParser \in Parsers /\ <<>> \in Seq(Cell)
  BY NewParserType DEF HttpType
<1>2. /\ parser' = [parser EXCEPT ![s] = NewParser] /\ ba' = [ba EXCEPT ![s] = <<>>]
      /\ start' = [start EXCEPT ![s] = taken[s]]
  BY DEF Anew
<1>3. Sound(stream[s], log[s], NewParser, <<>>, taken[s], taken[s])
  BY SoundAnew, Zenon DEF SideInv
<1> HIDE DEF NewParser
<1> QED
  BY <1>1, <1>2, <1>3

\* A message goes to one side.
LEMMA PutSide ==
  ASSUME HttpType, NEW s \in Sides, NEW m \in Requests \cup Responses, Put(s, m),
         NEW p, NEW b, NEW t, NEW a, Sound(stream[s], log[s], p, b, t, a)
  PROVE  /\ stream' \in [Sides -> Seq(Cell)] /\ log' \in [Sides -> Seq(Entries)]
         /\ stream'[s] = stream[s] \o Cells(m)
         /\ log'[s] = Append(log[s], [at |-> Len(stream[s]), msg |-> m])
         /\ \A r \in Sides : r # s => stream'[r] = stream[r] /\ log'[r] = log[r]
         /\ Sound(stream'[s], log'[s], p, b, t, a)
<1> DEFINE c == stream[s] \o Cells(m)
           e == [at |-> Len(stream[s]), msg |-> m]
           l == Append(log[s], e)
<1>1. /\ stream \in [Sides -> Seq(Cell)] /\ log \in [Sides -> Seq(Entries)]
      /\ stream[s] \in Seq(Cell) /\ log[s] \in Seq(Entries) /\ Len(stream[s]) \in Nat
  BY DEF HttpType
<1>2. e \in Entries /\ e.at = Len(stream[s]) /\ e.msg = m /\ Message(m)
  BY <1>1, SentMessage DEF Entries
<1>3. stream' = [stream EXCEPT ![s] = c] /\ log' = [log EXCEPT ![s] = l]
  BY <1>1 DEF Put
<1> HIDE DEF e
<1>4. Sound(c, l, p, b, t, a)
  BY <1>1, <1>2, SoundPut, Zenon
<1>5. c \in Seq(Cell) /\ l \in Seq(Entries)
  BY <1>1, <1>2, <1>4 DEF Sound
<1> HIDE DEF c, l
<1>6. /\ stream' \in [Sides -> Seq(Cell)] /\ log' \in [Sides -> Seq(Entries)]
      /\ stream'[s] = c /\ log'[s] = l
      /\ \A r \in Sides : r # s => stream'[r] = stream[r] /\ log'[r] = log[r]
  BY <1>1, <1>3, <1>5
<1> QED
  BY <1>4, <1>6 DEF c, l, e

\* A response is well-formed and not chunked.
LEMMA ResponsesProper == \A m \in Responses : Proper(m) /\ m.keep \in BOOLEAN
BY DEF Responses, Proper

\* The response of a servlet is one.
LEMMA DispatchInv ==
  ASSUME HttpInv, Dispatch
  PROVE  HttpType' /\ \A r \in Sides : SideInv(r)'
<1> DEFINE n == getMatchServlet(parser["server"].what.path)
           k == keepAlive /\ parser["server"].keep
<1>1. /\ UNCHANGED <<keepAlive, stream, taken, parser, ba, start, log, waited>> /\ calls' = calls
      /\ pc' = [pc EXCEPT !["server"] = "send"]
      /\ response' = [NoResponse EXCEPT !.what = [servlet |-> n], !.body = BodyOf[n], !.keep = k]
  BY DEF Dispatch, Goto, parse, dispatchVars
<1>2. n \in 0 .. MaxLoad
  <2>1. n \in 0 .. calls
    BY MatchType DEF HttpInv, ServletsInv
  <2>2. calls \in Nat /\ calls <= MaxLoad
    <3>1. log["server"] \in Seq(Entries) /\ Len(log["server"]) \in Nat
      BY DEF HttpInv, HttpType, Sides
    <3> QED
      BY <3>1, HttpAssumption DEF HttpInv, HttpType, ServletsInv, ServletsType, Load
  <2> HIDE DEF n
  <2> QED
    BY <2>1, <2>2, HttpAssumption
<1>3. k \in BOOLEAN
  BY Zenon
<1> HIDE DEF n, k
<1>4. BodyOf[n] \in Seq(Octets)
  BY <1>2, HttpAssumption
<1>5. response' = [what |-> [servlet |-> n], keep |-> k, body |-> BodyOf[n], chunked |-> FALSE,
                   bad |-> FALSE]
  BY <1>1 DEF NoResponse
<1>6. response' \in Responses
  <2>1. [servlet |-> n] \in {[servlet |-> i] : i \in 0 .. MaxLoad}
    BY <1>2
  <2> QED
    BY <1>3, <1>4, <1>5, <2>1 DEF Responses
<1>7. pc' \in [Sides -> Places]
  BY <1>1 DEF HttpInv, HttpType, Places
<1>8. HttpType'
  BY <1>1, <1>6, <1>7 DEF HttpInv, HttpType, Load
<1>9. ASSUME NEW r \in Sides PROVE SideInv(r)'
  BY <1>1 DEF HttpInv, SideInv
<1> QED
  BY <1>8, <1>9

\* The client takes a response.
LEMMA TakeInv ==
  ASSUME HttpInv, TakeResponse
  PROVE  HttpType' /\ \A r \in Sides : SideInv(r)'
<1>1. /\ UNCHANGED <<keepAlive, pc, stream, taken, log, response, waited>> /\ calls' = calls
      /\ Anew("client") /\ "client" \in Sides
  BY DEF TakeResponse, dispatchVars, Sides
<1>2. HttpType /\ \A r \in Sides : SideInv(r)
  BY DEF HttpInv
<1>3. /\ parser' \in [Sides -> Parsers] /\ ba' \in [Sides -> Seq(Cell)] /\ start' \in [Sides -> Nat]
      /\ parser'["client"] = NewParser /\ ba'["client"] = <<>> /\ start'["client"] = taken["client"]
      /\ \A r \in Sides : r # "client" =>
           parser'[r] = parser[r] /\ ba'[r] = ba[r] /\ start'[r] = start[r]
      /\ Sound(stream["client"], log["client"], NewParser, <<>>, taken["client"], taken["client"])
  BY <1>1, <1>2, AnewSide, Zenon
<1>4. HttpType'
  BY <1>1, <1>2, <1>3 DEF HttpType, Load
<1>5. ASSUME NEW r \in Sides PROVE SideInv(r)'
  <2>1. CASE r = "client"
    BY <1>1, <1>3, <2>1, Zenon DEF SideInv
  <2>2. CASE r # "client"
    BY <1>1, <1>2, <1>3, <2>2 DEF SideInv
  <2> QED
    BY <2>1, <2>2
<1> QED
  BY <1>4, <1>5

\* A request is sent.
LEMMA RequestInv ==
  ASSUME HttpInv, NEW m \in Requests, Request(m), Load' <= MaxLoad
  PROVE  HttpType' /\ \A r \in Sides : SideInv(r)'
<1>1. /\ UNCHANGED <<keepAlive, pc, taken, parser, ba, start, response>>
      /\ Put("server", m) /\ "server" \in Sides /\ "client" \in Sides
      /\ waited' = (waited /\ Idle)
  BY DEF Request, parse, Sides
<1>2. HttpType /\ \A r \in Sides : SideInv(r)
  BY DEF HttpInv
<1>3. /\ stream' \in [Sides -> Seq(Cell)] /\ log' \in [Sides -> Seq(Entries)]
      /\ \A r \in Sides : r # "server" => stream'[r] = stream[r] /\ log'[r] = log[r]
      /\ Sound(stream'["server"], log'["server"], parser["server"], ba["server"], taken["server"],
               start["server"])
  <2>1. Sound(stream["server"], log["server"], parser["server"], ba["server"], taken["server"],
              start["server"])
    BY <1>1, <1>2 DEF SideInv
  <2>2. m \in Requests \cup Responses
    OBVIOUS
  <2> QED
    BY <1>1, <1>2, <2>1, <2>2, PutSide, Zenon
<1>4. waited' \in BOOLEAN
  BY <1>1
<1>5. HttpType'
  BY <1>1, <1>2, <1>3, <1>4 DEF HttpType
<1>6. ASSUME NEW r \in Sides PROVE SideInv(r)'
  <2>1. CASE r = "server"
    BY <1>1, <1>3, <2>1, Zenon DEF SideInv
  <2>2. CASE r # "server"
    BY <1>1, <1>2, <1>3, <2>2 DEF SideInv
  <2> QED
    BY <2>1, <2>2
<1> QED
  BY <1>5, <1>6

\* A response is sent, and the server starts anew or closes.
LEMMA RespondInv ==
  ASSUME HttpInv, Respond
  PROVE  HttpType' /\ \A r \in Sides : SideInv(r)'
<1>1. /\ UNCHANGED <<keepAlive, taken, response, waited>> /\ calls' = calls
      /\ Put("client", response) /\ Anew("server") /\ "server" \in Sides /\ "client" \in Sides
      /\ pc' = [pc EXCEPT !["server"] = IF response.keep THEN "recv" ELSE "close"]
  BY DEF Respond, Goto, dispatchVars, Sides
<1>2. HttpType /\ (\A r \in Sides : SideInv(r)) /\ response \in Requests \cup Responses
      /\ UNCHANGED taken
  BY <1>1 DEF HttpInv, HttpType
<1>3. /\ parser' \in [Sides -> Parsers] /\ ba' \in [Sides -> Seq(Cell)] /\ start' \in [Sides -> Nat]
      /\ parser'["server"] = NewParser /\ ba'["server"] = <<>> /\ start'["server"] = taken["server"]
      /\ \A r \in Sides : r # "server" =>
           parser'[r] = parser[r] /\ ba'[r] = ba[r] /\ start'[r] = start[r]
      /\ Sound(stream["server"], log["server"], NewParser, <<>>, taken["server"], taken["server"])
  BY <1>1, <1>2, AnewSide, Zenon
<1>4. /\ stream' \in [Sides -> Seq(Cell)] /\ log' \in [Sides -> Seq(Entries)]
      /\ log'["client"] = Append(log["client"], [at |-> Len(stream["client"]), msg |-> response])
      /\ \A r \in Sides : r # "client" => stream'[r] = stream[r] /\ log'[r] = log[r]
      /\ Sound(stream'["client"], log'["client"], parser["client"], ba["client"], taken["client"],
               start["client"])
  <2>1. Sound(stream["client"], log["client"], parser["client"], ba["client"], taken["client"],
              start["client"])
    BY <1>1, <1>2 DEF SideInv
  <2> QED
    BY <1>1, <1>2, <2>1, PutSide, Zenon
<1>5. \A i \in 1 .. Len(log'["client"]) : Proper(log'["client"][i].msg)
  <2> DEFINE l == log["client"]
             e == [at |-> Len(stream["client"]), msg |-> response]
  <2>1. /\ l \in Seq(Entries) /\ Proper(response) /\ e \in Entries /\ e.msg = response
        /\ \A i \in 1 .. Len(l) : Proper(l[i].msg)
    <3>1. l \in Seq(Entries) /\ response \in Responses /\ Len(stream["client"]) \in Nat
          /\ \A i \in 1 .. Len(l) : Proper(l[i].msg)
      BY <1>1, <1>2 DEF HttpType
    <3>2. Proper(response)
      BY <3>1, ResponsesProper
    <3> QED
      BY <3>1, <3>2 DEF Entries
  <2> HIDE DEF l, e
  <2>2. /\ Len(Append(l, e)) = Len(l) + 1 /\ Len(l) \in Nat
        /\ \A i \in 1 .. Len(l) : Append(l, e)[i] = l[i]
        /\ Append(l, e)[Len(l) + 1] = e
    BY <2>1
  <2>3. \A i \in 1 .. Len(l) + 1 : i = Len(l) + 1 \/ i \in 1 .. Len(l)
    BY <2>2
  <2>4. log'["client"] = Append(l, e)
    BY <1>4 DEF l, e
  <2> QED
    BY <2>1, <2>2, <2>3, <2>4
<1>6. pc' \in [Sides -> Places]
  BY <1>1, <1>2 DEF HttpType, Places, Over
<1>7. log'["server"] = log["server"]
  BY <1>1, <1>4
<1>8. HttpType'
  BY <1>1, <1>2, <1>3, <1>4, <1>5, <1>6, <1>7 DEF HttpType, Load
<1>9. SideInv("server")'
  <2>1. stream'["server"] = stream["server"] /\ taken'["server"] = taken["server"]
    BY <1>1, <1>4
  <2> QED
    BY <1>3, <1>7, <2>1, Zenon DEF SideInv
<1>10. SideInv("client")'
  <2>1. /\ parser'["client"] = parser["client"] /\ ba'["client"] = ba["client"]
        /\ start'["client"] = start["client"] /\ taken'["client"] = taken["client"]
    BY <1>1, <1>3
  <2> QED
    BY <1>4, <2>1, Zenon DEF SideInv
<1> QED
  BY <1>8, <1>9, <1>10 DEF Sides

\* Receiving fails, the server's timeout runs out, or the server closes.
Leaves == (\E s \in Sides : Fail(s)) \/ Timeout \/ Close

\* Such a step only ends the reading of a side.
LEMMA LeavesIs ==
  ASSUME Leaves
  PROVE  /\ UNCHANGED <<keepAlive, stream, taken, parser, ba, start, log, response, waited>>
         /\ calls' = calls
         /\ \E s \in Sides, at \in Over : pc' = [pc EXCEPT ![s] = at]
<1>1. CASE \E s \in Sides : Fail(s)
  BY <1>1 DEF Fail, Goto, parse, dispatchVars, Over
<1>2. CASE Timeout
  BY <1>2 DEF Timeout, Goto, parse, dispatchVars, Over, Sides
<1>3. CASE Close
  BY <1>3 DEF Close, Goto, parse, dispatchVars, Over, Sides
<1> QED
  BY <1>1, <1>2, <1>3 DEF Leaves

\* It disturbs neither side's stream or parser.
LEMMA LeavesInv ==
  ASSUME HttpInv, Leaves
  PROVE  HttpType' /\ \A r \in Sides : SideInv(r)'
<1>1. /\ UNCHANGED <<keepAlive, stream, taken, parser, ba, start, log, response, waited>>
      /\ calls' = calls
  BY LeavesIs
<1>2. pc' \in [Sides -> Places]
  BY LeavesIs DEF HttpInv, HttpType, Places
<1>3. HttpType'
  BY <1>1, <1>2 DEF HttpInv, HttpType, Load
<1>4. ASSUME NEW r \in Sides PROVE SideInv(r)'
  BY <1>1 DEF HttpInv, SideInv
<1> QED
  BY <1>3, <1>4

\* The calls that change servlets, and steps that change nothing, leave the
\* connection alone.
LEMMA AloneInv ==
  ASSUME HttpInv, UNCHANGED <<keepAlive, pc, stream, parse, log, response, waited>>,
         Load' <= MaxLoad
  PROVE  HttpType' /\ \A r \in Sides : SideInv(r)'
<1>1. UNCHANGED <<keepAlive, pc, stream, taken, parser, ba, start, log, response, waited>>
  BY DEF parse
<1>2. HttpType'
  BY <1>1 DEF HttpInv, HttpType
<1>3. ASSUME NEW r \in Sides PROVE SideInv(r)'
  BY <1>1 DEF HttpInv, SideInv
<1> QED
  BY <1>2, <1>3

\* Nothing has been sent at first.
LEMMA HttpInit ==
  ASSUME Init
  PROVE  HttpInv
<1>1. /\ keepAlive \in BOOLEAN /\ pc = [s \in Sides |-> "recv"] /\ stream = [s \in Sides |-> <<>>]
      /\ taken = [s \in Sides |-> 0] /\ parser = [s \in Sides |-> NewParser]
      /\ ba = [s \in Sides |-> <<>>] /\ start = [s \in Sides |-> 0] /\ log = [s \in Sides |-> <<>>]
      /\ response = NoResponse /\ waited = TRUE /\ calls = 0
  BY DEF Init, InitServlets
<1>2. "client" \in Sides /\ "server" \in Sides
  BY DEF Sides
<1>3. NoResponse \in Responses
  <2>1. 0 \in 0 .. MaxLoad
    BY HttpAssumption
  <2>2. [servlet |-> 0] \in {[servlet |-> n] : n \in 0 .. MaxLoad}
    BY <2>1
  <2> QED
    BY <2>2 DEF NoResponse, Responses
<1>4. Len(log["client"]) = 0 /\ Load = 0
  BY <1>1, <1>2 DEF Load
<1>5. HttpType
  <2>1. \A i \in 1 .. Len(log["client"]) : Proper(log["client"][i].msg)
    BY <1>4
  <2>2. /\ pc \in [Sides -> Places]
        /\ stream \in [Sides -> Seq(Cell)] /\ ba \in [Sides -> Seq(Cell)]
        /\ taken \in [Sides -> Nat] /\ start \in [Sides -> Nat]
        /\ log \in [Sides -> Seq(Entries)]
    BY <1>1 DEF Places
  <2>3. parser \in [Sides -> Parsers]
    BY <1>1, NewParserType
  <2>4. Load <= MaxLoad
    BY <1>4, HttpAssumption
  <2> QED
    BY <1>1, <1>3, <2>1, <2>2, <2>3, <2>4 DEF HttpType
<1>6. ASSUME NEW s \in Sides PROVE SideInv(s)
  <2>1. /\ stream[s] = <<>> /\ log[s] = <<>> /\ parser[s] = NewParser /\ ba[s] = <<>>
        /\ taken[s] = 0 /\ start[s] = 0
    BY <1>1
  <2>2. Sound(<<>>, <<>>, NewParser, <<>>, 0, 0)
    <3>1. /\ <<>> \in Seq(Cell) /\ Len(<<>>) = 0 /\ 0 + Len(<<>>) <= 0 /\ 0 <= Len(<<>>)
          /\ 1 .. Len(<<>>) = {} /\ 0 \in Nat
      OBVIOUS
    <3> QED
      BY <3>1, NewParserType, Zenon DEF Sound
  <2> QED
    BY <2>1, <2>2 DEF SideInv
<1> QED
  BY <1>5, <1>6, ServletsInit DEF HttpInv

\* Every step keeps the connection sound.
LEMMA HttpStep ==
  ASSUME HttpInv, [Next]_vars
  PROVE  HttpInv'
<1>1. ServletsInv'
  BY ServletsStep DEF HttpInv
<1>2. HttpType /\ (\A s \in Sides : SideInv(s)) /\ "client" \in Sides /\ "server" \in Sides
  BY DEF HttpInv, Sides
<1> SUFFICES HttpType' /\ \A r \in Sides : SideInv(r)'
  BY <1>1 DEF HttpInv
<1>3. CASE ServerStep
  <2>1. CASE Dispatch
    BY <2>1, DispatchInv
  <2>2. CASE Respond
    BY <2>2, RespondInv
  <2>3. CASE Close \/ Timeout \/ Fail("server")
    BY <1>2, <2>3, LeavesInv DEF Leaves
  <2>4. CASE Receive("server")
    BY <1>2, <2>4, ReceiveInv
  <2>5. CASE Parse("server")
    BY <1>2, <2>5, ParseInv
  <2> QED
    BY <1>3, <2>1, <2>2, <2>3, <2>4, <2>5 DEF ServerStep
<1>4. CASE ClientStep
  <2>1. CASE TakeResponse
    BY <2>1, TakeInv
  <2>2. CASE Fail("client")
    BY <1>2, <2>2, LeavesInv DEF Leaves
  <2>3. CASE Receive("client")
    BY <1>2, <2>3, ReceiveInv
  <2>4. CASE Parse("client")
    BY <1>2, <2>4, ParseInv
  <2> QED
    BY <1>4, <2>1, <2>2, <2>3, <2>4 DEF ClientStep
<1>5. CASE \E m \in Requests : Request(m) /\ Load' <= MaxLoad
  BY <1>5, RequestInv
<1>6. CASE /\ AdminStep /\ UNCHANGED <<keepAlive, pc, stream, parse, log, response, waited>>
           /\ Load' <= MaxLoad
  BY <1>6, AloneInv
<1>7. CASE UNCHANGED vars
  <2>1. UNCHANGED <<keepAlive, pc, stream, parse, log, response, waited>> /\ calls' = calls
    BY <1>7 DEF vars, dispatchVars
  <2>2. Load' <= MaxLoad
    BY <1>2, <2>1 DEF HttpType, Load
  <2> QED
    BY <2>1, <2>2, AloneInv
<1> QED
  BY <1>3, <1>4, <1>5, <1>6, <1>7 DEF Next

\* A parser on its way through a message has, once finished, what was sent, and
\* fails only for a malformed one.
LEMMA StageEnds ==
  ASSUME NEW m, NEW p, NEW o, Stage(m, p, o)
  PROVE  /\ p.error => m.bad
         /\ p.finish => ~m.bad /\ [what |-> p.what, keep |-> p.keep, body |-> p.body] = Parsed(m)
<1>1. CASE p = NewParser /\ o = 0
  BY <1>1 DEF NewParser
<1>2. CASE ~p.finish /\ ~p.error
  BY <1>2
<1>3. CASE /\ p.finish /\ ~p.error /\ ~m.bad /\ p.what = m.what /\ p.keep = m.keep
           /\ p.body = Parsed(m).body
  BY <1>3 DEF Parsed
<1>4. CASE p.error /\ ~p.finish /\ m.bad
  BY <1>4
<1> QED
  BY <1>1, <1>2, <1>3, <1>4 DEF Stage, Looks

\* A parser that begins where a message begins gets exactly that message, for every
\* cut of the stream, every body and whatever follows; it fails only for a
\* malformed one (HttpRequestParser::parseRequest, HttpResponseParser::parseResponse).
THEOREM ParsedAsSent == Spec => []ParsedIsSent
<1>1. Init => HttpInv
  BY HttpInit
<1>2. HttpInv /\ [Next]_vars => HttpInv'
  BY HttpStep
<1>3. HttpInv => ParsedIsSent
  <2> SUFFICES ASSUME HttpInv, NEW s \in Sides, NEW i \in DOMAIN log[s], log[s][i].at = start[s]
               PROVE  /\ parser[s].error => log[s][i].msg.bad
                      /\ parser[s].finish =>
                           /\ ~log[s][i].msg.bad
                           /\ [what |-> parser[s].what, keep |-> parser[s].keep, body |-> parser[s].body]
                                = Parsed(log[s][i].msg)
    BY DEF ParsedIsSent
  <2>1. i \in 1 .. Len(log[s])
    BY DEF HttpInv, HttpType
  <2>2. Stage(log[s][i].msg, parser[s], taken[s] - Len(ba[s]) - log[s][i].at)
    BY <2>1, Zenon DEF HttpInv, SideInv, Sound
  <2> QED
    BY <2>2, StageEnds
<1> QED
  BY <1>1, <1>2, <1>3, PTL DEF Spec

-----------------------------------------------------------------------------
(* A client that waits for each response. *)

\* The place a is inside the CRLF that a chunked message leaves in front of `at'.
Left(l, at, a) ==
  /\ a = at - 2 \/ a = at - 1
  /\ \E i \in 1 .. Len(l) :
       l[i].msg.chunked /\ ~l[i].msg.bad /\ l[i].at + Len(Cells(l[i].msg)) = at

Failed(p) == p.error /\ ~p.finish

\* A parser with nothing to read but such a CRLF.
Rests(c, l, p, b, t, a) ==
  /\ a = Len(c) \/ Left(l, Len(c), a)
  /\ Failed(p) \/ (p = NewParser /\ a + Len(b) = t)

\* A parser with one message to read, the last one.
Reads(l, p, b, t, a) ==
  \/ Failed(p)
  \/ p = NewParser /\ a + Len(b) = t /\ Left(l, l[Len(l)].at, a)
  \/ l[Len(l)].at <= t - Len(b) /\ Stage(l[Len(l)].msg, p, t - Len(b) - l[Len(l)].at)

\* Where a parser may begin.
Clean(c, l, a) ==
  \/ a = Len(c)
  \/ \E i \in 1 .. Len(l) :
       l[i].at = a \/ (l[i].msg.chunked /\ (l[i].at + Len(Cells(l[i].msg))) - a \in 0 .. 2)

\* A chunked message ends with a CRLF.
LEMMA ChunkedEnd ==
  ASSUME NEW m, Message(m), m.chunked, ~m.bad
  PROVE  LET n == Len(Cells(m)) IN n \in Nat /\ n > 2 /\ Cells(m)[n - 1] = CR /\ Cells(m)[n] = LF
<1> DEFINE k == Len(m.body)
<1>1. k \in Nat
  BY BodyCells
<1>2. Len(Cells(m)) = 22 + k /\ Cells(m)[21 + k] = CR /\ Cells(m)[22 + k] = LF
  BY ChunkCells
<1> HIDE DEF k
<1>3. Len(Cells(m)) - 1 = 21 + k
  BY <1>1, <1>2
<1> QED
  BY <1>1, <1>2, <1>3

\* The two cells in front of that place.
LEMMA LeftCells ==
  ASSUME NEW c, NEW l, NEW p, NEW b, NEW t, NEW a, Sound(c, l, p, b, t, a), NEW at, Left(l, at, a)
  PROVE  at \in Nat /\ at > 2 /\ at <= Len(c) /\ c[at - 1] = CR /\ c[at] = LF
<1>1. PICK i \in 1 .. Len(l) :
        l[i].msg.chunked /\ ~l[i].msg.bad /\ l[i].at + Len(Cells(l[i].msg)) = at
  BY DEF Left
<1> DEFINE m == l[i].msg
           o == l[i].at
           n == Len(Cells(m))
<1>2. Placed(c, l[i])
  BY DEF Sound
<1>3. /\ o \in Nat /\ Message(m) /\ o + n <= Len(c)
      /\ \A j \in 1 .. n : c[o + j] = Cells(m)[j]
  BY <1>2 DEF Placed
<1>4. n \in Nat /\ n > 2 /\ Cells(m)[n - 1] = CR /\ Cells(m)[n] = LF
  BY <1>1, <1>3, ChunkedEnd
<1>5. o + n = at /\ m.chunked
  BY <1>1
<1> HIDE DEF m, o, n
<1>6. n \in 1 .. n /\ n - 1 \in 1 .. n /\ o + (n - 1) = at - 1
  BY <1>3, <1>4, <1>5
<1>7. c[o + n] = Cells(m)[n] /\ c[o + (n - 1)] = Cells(m)[n - 1]
  BY <1>3, <1>6
<1> QED
  BY <1>3, <1>4, <1>5, <1>6, <1>7, SMTT(20)

\* A new parser that begins with the whole CRLF fails.
LEMMA LeftBoth ==
  ASSUME NEW c, NEW l, NEW b, NEW t, NEW a, Sound(c, l, NewParser, b, t, a), NEW at,
         Left(l, at, a), a + Len(b) = t, a = at - 2, ~Needs(NewParser, b), NEW r \in Turn(NewParser, b)
  PROVE  Failed(r.p)
<1>1. at \in Nat /\ at > 2 /\ at <= Len(c) /\ c[at - 1] = CR /\ c[at] = LF
  BY LeftCells
<1>2. /\ b \in Seq(Cell) /\ Len(b) \in Nat /\ t \in Nat /\ a \in Nat
      /\ \A i \in 1 .. Len(b) : b[i] = c[t - Len(b) + i]
  BY DEF Sound
<1>3. \A i \in 1 .. Len(b) : /\ i = 1 => t - Len(b) + i = at - 1
                             /\ i = 2 => t - Len(b) + i = at
  BY <1>1, <1>2
<1>4. \A i \in 1 .. Len(b) : (i = 1 => b[i] = CR) /\ (i = 2 => b[i] = LF)
  BY <1>1, <1>2, <1>3
<1>5. Len(CRLF) = 2 /\ CRLF[1] = CR /\ CRLF[2] = LF
  BY DEF CRLF
<1>6. Slice(b, CRLF, 0)
  <2> SUFFICES ASSUME NEW i \in 1 .. Len(b), 0 + i <= Len(CRLF)
               PROVE  b[i] = CRLF[0 + i]
    BY DEF Slice
  <2>1. 0 + i = i /\ (i = 1 \/ i = 2)
    BY <1>2, <1>5
  <2> QED
    BY <1>4, <1>5, <2>1
<1>7. r.p = Wrong(NewParser)
  BY <1>2, <1>6, LeftCRLF
<1> QED
  BY <1>7 DEF Failed, Wrong, NewParser

\* Nothing comes of the CRLF alone.
LEMMA RestsTurn ==
  ASSUME NEW c, NEW l, NEW p, NEW b, NEW t, NEW a, Sound(c, l, p, b, t, a), Rests(c, l, p, b, t, a),
         ~p.error, ~Needs(p, b), NEW r \in Turn(p, b)
  PROVE  Rests(c, l, r.p, r.s, t, a)
<1>1. p = NewParser /\ a + Len(b) = t /\ (a = Len(c) \/ Left(l, Len(c), a))
  BY DEF Rests, Failed
<1>2. /\ c \in Seq(Cell) /\ b \in Seq(Cell) /\ Len(b) \in Nat /\ Len(c) \in Nat
      /\ t \in Nat /\ a \in Nat /\ t <= Len(c)
  BY DEF Sound
<1>3. ~(Len(b) <= 1)
  BY <1>1, <1>2, LeftByte
<1>4. Left(l, Len(c), a) /\ a = Len(c) - 2
  BY <1>1, <1>2, <1>3 DEF Left
<1>5. Failed(r.p)
  BY <1>1, <1>4, LeftBoth
<1> QED
  BY <1>4, <1>5 DEF Rests

\* A new parser that begins with the LF alone fails or is behind the first line of
\* the message.
LEMMA LeftOne ==
  ASSUME NEW c, NEW l, NEW b, NEW t, NEW a, Sound(c, l, NewParser, b, t, a), NEW e, Placed(c, e),
         Left(l, e.at, a), a + Len(b) = t, a = e.at - 1, ~Needs(NewParser, b),
         NEW r \in Turn(NewParser, b)
  PROVE  \/ Failed(r.p)
         \/ e.at <= t - Len(r.s) /\ Stage(e.msg, r.p, t - Len(r.s) - e.at)
<1> DEFINE d == Cells(e.msg)
           f == <<LF>> \o d
<1>1. e.at \in Nat /\ e.at > 2 /\ c[e.at] = LF
  BY LeftCells
<1>2. /\ b \in Seq(Cell) /\ Len(b) \in Nat /\ t \in Nat /\ a \in Nat
      /\ \A i \in 1 .. Len(b) : b[i] = c[t - Len(b) + i]
  BY DEF Sound
<1>3. /\ Message(e.msg) /\ d \in Seq(Cell) /\ Len(d) \in Nat
      /\ \A j \in 1 .. Len(d) : c[e.at + j] = d[j]
  BY CellsBegin DEF Placed, Begins
<1> HIDE DEF d
<1>4. Len(f) = 1 + Len(d) /\ f[1] = LF /\ \A j \in 1 .. Len(d) : f[1 + j] = d[j]
  <2>1. <<LF>> \in Seq(Cell) /\ Len(<<LF>>) = 1 /\ <<LF>>[1] = LF
    BY CellsOf
  <2>2. /\ Len(<<LF>> \o d) = 1 + Len(d) /\ (<<LF>> \o d)[1] = LF
        /\ \A j \in 1 .. Len(d) : (<<LF>> \o d)[1 + j] = d[j]
    BY <1>3, <2>1
  <2> QED
    BY <2>2
<1>5. Slice(b, f, 0)
  <2> HIDE DEF f
  <2> SUFFICES ASSUME NEW i \in 1 .. Len(b), 0 + i <= Len(f)
               PROVE  b[i] = f[0 + i]
    BY DEF Slice
  <2>1. 0 + i = i /\ t - Len(b) + i = e.at + (i - 1)
    BY <1>1, <1>2, SMTT(20)
  <2>2. b[i] = c[e.at + (i - 1)]
    BY <1>2, <2>1
  <2>3. CASE i = 1
    <3>1. e.at + (i - 1) = e.at
      BY <1>1, <2>3
    <3> QED
      BY <1>1, <1>4, <2>1, <2>2, <2>3, <3>1
  <2>4. CASE i # 1
    <3>1. i - 1 \in 1 .. Len(d) /\ 1 + (i - 1) = i
      BY <1>2, <1>3, <1>4, <2>1, <2>4
    <3>2. c[e.at + (i - 1)] = d[i - 1] /\ f[1 + (i - 1)] = d[i - 1]
      BY <1>3, <1>4, <3>1
    <3> QED
      BY <2>1, <2>2, <3>1, <3>2
  <2> QED
    BY <2>3, <2>4
<1>6. Slice(b, <<LF>> \o Cells(e.msg), 0)
  BY <1>5 DEF d
<1>7. \/ r.p = Wrong(NewParser)
      \/ 5 \in 0 .. Len(b) /\ r.s = SubSeq(b, 5 + 1, Len(b)) /\ Stage(e.msg, r.p, 4)
  BY <1>2, <1>3, <1>6, LeftLF, Zenon
<1>8. CASE r.p = Wrong(NewParser)
  BY <1>8 DEF Failed, Wrong, NewParser
<1>9. CASE 5 \in 0 .. Len(b) /\ r.s = SubSeq(b, 5 + 1, Len(b)) /\ Stage(e.msg, r.p, 4)
  <2>1. Len(r.s) = Len(b) - 5
    <3>1. \A k \in 0 .. Len(b) : Len(SubSeq(b, k + 1, Len(b))) = Len(b) - k
      BY <1>2
    <3>2. Len(SubSeq(b, 5 + 1, Len(b))) = Len(b) - 5
      BY <1>9, <3>1, Zenon
    <3> QED
      BY <1>9, <3>2, Zenon
  <2>2. t - Len(r.s) - e.at = 4 /\ e.at <= t - Len(r.s)
    <3> DEFINE n == Len(b)
               k == Len(r.s)
               h == e.at
    <3>1. n \in Nat /\ k = n - 5 /\ h \in Nat /\ a = h - 1 /\ a + n = t /\ t \in Nat
      BY <1>1, <1>2, <2>1, Zenon
    <3> HIDE DEF n, k, h
    <3>2. t - k - h = 4 /\ h <= t - k
      BY <3>1, SMTT(20)
    <3> QED
      BY <3>2, Zenon DEF n, k, h
  <2> QED
    BY <1>9, <2>2
<1> QED
  BY <1>7, <1>8, <1>9

\* A turn towards the one message there is to read.
LEMMA ReadsTurn ==
  ASSUME NEW c, NEW l, NEW p, NEW b, NEW t, NEW a, Sound(c, l, p, b, t, a), Len(l) \in Nat \ {0},
         Reads(l, p, b, t, a), ~p.finish, ~p.error, ~Needs(p, b), NEW r \in Turn(p, b)
  PROVE  Reads(l, r.p, r.s, t, a)
<1> DEFINE e == l[Len(l)]
<1>1. Len(l) \in 1 .. Len(l)
  OBVIOUS
<1>2. Placed(c, e)
  BY <1>1 DEF Sound
<1>3. CASE p = NewParser /\ a + Len(b) = t /\ Left(l, e.at, a)
  <2>1. CASE a = e.at - 2
    <3>1. Failed(r.p)
      BY <1>3, <2>1, LeftBoth
    <3> QED
      BY <3>1 DEF Reads
  <2>2. CASE a = e.at - 1
    <3>1. \/ Failed(r.p)
          \/ e.at <= t - Len(r.s) /\ Stage(e.msg, r.p, t - Len(r.s) - e.at)
      <4> HIDE DEF e
      <4> QED
        BY <1>2, <1>3, <2>2, LeftOne
    <3> QED
      BY <3>1 DEF Reads
  <2> QED
    BY <1>3, <2>1, <2>2 DEF Left
<1>4. CASE e.at <= t - Len(b) /\ Stage(e.msg, p, t - Len(b) - e.at)
  <2>1. /\ c \in Seq(Cell) /\ b \in Seq(Cell) /\ Len(b) \in Nat /\ t \in Nat /\ a \in Nat
        /\ a + Len(b) <= t /\ \A i \in 1 .. Len(b) : b[i] = c[t - Len(b) + i]
    BY DEF Sound
  <2>2. Len(b) <= t
    BY <2>1
  <2> HIDE DEF e
  <2>3. Stage(e.msg, r.p, t - Len(r.s) - e.at)
    BY <1>2, <1>4, <2>1, <2>2, FollowTurn, Zenon
  <2>4. t - Len(b) <= t - Len(r.s)
    BY SoundTurn
  <2>5. e.at <= t - Len(r.s)
    <3>1. e.at \in Nat /\ Len(r.s) \in Nat
      <4>1. Sound(c, l, r.p, r.s, t, a)
        BY SoundTurn
      <4> QED
        BY <1>2, <4>1 DEF Placed, Sound
    <3> QED
      BY <1>4, <2>1, <2>4, <3>1
  <2> QED
    BY <2>3, <2>5 DEF Reads, e
<1> QED
  BY <1>3, <1>4 DEF Reads, Failed

\* A parser that has a message has used it, but for the CRLF of a chunked one.
LEMMA StageDone ==
  ASSUME NEW m, NEW p, NEW o, Stage(m, p, o), p.finish
  PROVE  ~m.bad /\ o = Len(Cells(m)) - (IF m.chunked THEN 2 ELSE 0)
<1>1. ~NewParser.finish
  BY DEF NewParser
<1> QED
  BY <1>1, Zenon DEF Stage, Looks

\* When the message is there the next parser has nothing to read but its CRLF.
LEMMA ReadsDone ==
  ASSUME NEW c, NEW l, NEW p, NEW b, NEW t, NEW a, Sound(c, l, p, b, t, a), Len(l) \in Nat \ {0},
         Reads(l, p, b, t, a), p.finish
  PROVE  Rests(c, l, NewParser, <<>>, t, t) /\ Clean(c, l, t)
<1> DEFINE e == l[Len(l)]
           n == Len(Cells(e.msg))
           u == t - Len(b)
<1>1. Len(l) \in 1 .. Len(l)
  OBVIOUS
<1>2. Placed(c, e) /\ e.at + n = Len(c)
  BY <1>1 DEF Sound
<1>3. /\ c \in Seq(Cell) /\ b \in Seq(Cell) /\ Len(b) \in Nat /\ Len(c) \in Nat /\ t \in Nat
      /\ t <= Len(c)
  BY DEF Sound
<1>4. e.at \in Nat /\ n \in Nat /\ Message(e.msg)
  BY <1>2, CellsBegin DEF Placed, Begins
<1>5. Stage(e.msg, p, u - e.at)
  <2>1. ~NewParser.finish
    BY DEF NewParser
  <2> QED
    BY <2>1, Zenon DEF Reads, Failed
<1>6. ~e.msg.bad /\ u - e.at = n - (IF e.msg.chunked THEN 2 ELSE 0)
  BY <1>5, StageDone, Zenon
<1> HIDE DEF e, n
<1>7. t = Len(c) \/ (e.msg.chunked /\ (t = Len(c) - 2 \/ t = Len(c) - 1))
  BY <1>2, <1>3, <1>4, <1>6, SMTT(20)
<1>8. e.msg.chunked => (e.at + n) - t \in 0 .. 2
  BY <1>2, <1>3, <1>7
<1>9. Left(l, Len(c), t) \/ t = Len(c)
  <2>1. CASE t = Len(c)
    BY <2>1
  <2>2. CASE e.msg.chunked /\ (t = Len(c) - 2 \/ t = Len(c) - 1)
    <3>1. \E i \in 1 .. Len(l) :
            l[i].msg.chunked /\ ~l[i].msg.bad /\ l[i].at + Len(Cells(l[i].msg)) = Len(c)
      BY <1>1, <1>2, <1>6, <2>2, Zenon DEF e, n
    <3> QED
      BY <2>2, <3>1, Zenon DEF Left
  <2> QED
    BY <1>7, <2>1, <2>2
<1>10. Rests(c, l, NewParser, <<>>, t, t)
  <2>1. t + Len(<<>>) = t
    BY <1>3
  <2> QED
    BY <1>9, <2>1, Zenon DEF Rests
<1>11. Clean(c, l, t)
  BY <1>1, <1>7, <1>8, Zenon DEF Clean, e, n
<1> QED
  BY <1>10, <1>11

\* Reading does not change the parser's place.
LEMMA PlaceStays ==
  ASSUME NEW c, NEW l, NEW p, NEW a \in Nat, NEW b, NEW t \in Nat, Len(b) \in Nat,
         NEW d, NEW u \in Nat, Len(d) \in Nat, u - Len(d) = t - Len(b)
  PROVE  /\ Rests(c, l, p, b, t, a) => Rests(c, l, p, d, u, a)
         /\ Reads(l, p, b, t, a) => Reads(l, p, d, u, a)
<1>1. a + Len(b) = t <=> a + Len(d) = u
  OBVIOUS
<1>2. Rests(c, l, p, b, t, a) => Rests(c, l, p, d, u, a)
  BY <1>1, Zenon DEF Rests
<1>3. Reads(l, p, b, t, a) => Reads(l, p, d, u, a)
  BY <1>1, Zenon DEF Reads
<1> QED
  BY <1>2, <1>3

\* What is known of the messages stays known of them when one is added.
LEMMA AppendKeeps ==
  ASSUME NEW E, NEW l \in Seq(E), NEW e \in E
  PROVE  /\ Append(l, e)[Len(Append(l, e))] = e /\ Len(Append(l, e)) = Len(l) + 1
         /\ \A i \in 1 .. Len(l) : i \in 1 .. Len(Append(l, e)) /\ Append(l, e)[i] = l[i]
         /\ \A at, a : Left(l, at, a) => Left(Append(l, e), at, a)
<1> DEFINE k == Append(l, e)
<1>1. k[Len(k)] = e /\ Len(k) = Len(l) + 1 /\ Len(l) \in Nat /\ \A i \in 1 .. Len(l) : k[i] = l[i]
  OBVIOUS
<1> HIDE DEF k
<1>2. \A i \in 1 .. Len(l) : i \in 1 .. Len(k)
  BY <1>1
<1>3. ASSUME NEW at, NEW a, Left(l, at, a) PROVE Left(k, at, a)
  <2>1. PICK i \in 1 .. Len(l) :
          l[i].msg.chunked /\ ~l[i].msg.bad /\ l[i].at + Len(Cells(l[i].msg)) = at
    BY <1>3 DEF Left
  <2>2. i \in 1 .. Len(k) /\ k[i] = l[i]
    BY <1>1, <1>2
  <2>3. \E j \in 1 .. Len(k) :
          k[j].msg.chunked /\ ~k[j].msg.bad /\ k[j].at + Len(Cells(k[j].msg)) = at
    BY <2>1, <2>2, Zenon
  <2> QED
    BY <1>3, <2>3, Zenon DEF Left
<1> QED
  BY <1>1, <1>2, <1>3 DEF k

\* A parser with nothing to read gets a message.
LEMMA RestsPut ==
  ASSUME NEW c, NEW E, NEW l \in Seq(E), NEW p, NEW b, NEW t, NEW a, Sound(c, l, p, b, t, a),
         Rests(c, l, p, b, t, a), NEW e \in E, e.at = Len(c)
  PROVE  Reads(Append(l, e), p, b, t, a)
<1> DEFINE k == Append(l, e)
<1>1. k[Len(k)] = e /\ \A at, x : Left(l, at, x) => Left(k, at, x)
  BY AppendKeeps
<1> HIDE DEF k
<1>2. CASE Failed(p)
  BY <1>2, Zenon DEF Reads, k
<1>3. CASE p = NewParser /\ a + Len(b) = t /\ a = Len(c)
  <2>1. t \in Nat /\ Len(b) \in Nat /\ a \in Nat
    BY DEF Sound
  <2>2. t - Len(b) - k[Len(k)].at = 0 /\ k[Len(k)].at <= t - Len(b)
    BY <1>1, <1>3, <2>1
  <2>3. Stage(k[Len(k)].msg, p, t - Len(b) - k[Len(k)].at)
    BY <1>3, <2>2, Zenon DEF Stage
  <2> QED
    BY <2>2, <2>3, Zenon DEF Reads, k
<1>4. CASE p = NewParser /\ a + Len(b) = t /\ Left(l, Len(c), a)
  <2>1. Left(k, k[Len(k)].at, a)
    BY <1>1, <1>4, Zenon
  <2> QED
    BY <1>4, <2>1, Zenon DEF Reads, k
<1> QED
  BY <1>2, <1>3, <1>4, Zenon DEF Rests

\* A parser that begins at the end begins where the next message begins.
LEMMA CleanPut ==
  ASSUME NEW c, NEW d, NEW E, NEW l \in Seq(E), NEW a, Clean(c, l, a), NEW e \in E, e.at = Len(c)
  PROVE  Clean(d, Append(l, e), a)
<1> DEFINE k == Append(l, e)
<1>1. /\ k[Len(k)] = e /\ Len(k) = Len(l) + 1
      /\ \A i \in 1 .. Len(l) : i \in 1 .. Len(k) /\ k[i] = l[i]
  BY AppendKeeps
<1>2. Len(l) \in Nat
  OBVIOUS
<1> HIDE DEF k
<1>3. Len(k) \in 1 .. Len(k)
  BY <1>1, <1>2
<1>4. CASE a = Len(c)
  BY <1>1, <1>3, <1>4, Zenon DEF Clean, k
<1>5. CASE \E i \in 1 .. Len(l) :
             l[i].at = a \/ (l[i].msg.chunked /\ (l[i].at + Len(Cells(l[i].msg))) - a \in 0 .. 2)
  BY <1>1, <1>5, Zenon DEF Clean, k
<1> QED
  BY <1>4, <1>5 DEF Clean

Asks    == Len(log["server"])
Answers == Len(log["client"])

ServerRests ==
  Rests(stream["server"], log["server"], parser["server"], ba["server"], taken["server"],
        start["server"])

ServerReads == Reads(log["server"], parser["server"], ba["server"], taken["server"], start["server"])

\* With a client that waits the server has nothing to read or one request, and the
\* client one response at most.
Turns ==
  /\ Asks = Answers \/ Asks = Answers + 1
  /\ pc["server"] \notin Over =>
       /\ Asks = Answers => pc["server"] = "recv" /\ ServerRests
       /\ Asks # Answers => ServerReads
       /\ pc["server"] = "send" => parser["server"].finish
  /\ \/ start["client"] = Len(stream["client"])
     \/ Asks = Answers /\ Asks > 0 /\ start["client"] = log["client"][Answers].at

WaitInv == waited => Turns /\ \A s \in Sides : Clean(stream[s], log[s], start[s])

FullInv == HttpInv /\ WaitInv

\* The sides, their types and what holds of them.
LEMMA SidesAre ==
  ASSUME HttpInv
  PROVE  /\ Sides = {"client", "server"}
         /\ \A s \in Sides :
              /\ stream[s] \in Seq(Cell) /\ log[s] \in Seq(Entries) /\ parser[s] \in Parsers
              /\ ba[s] \in Seq(Cell) /\ taken[s] \in Nat /\ start[s] \in Nat
              /\ Len(stream[s]) \in Nat /\ Len(log[s]) \in Nat /\ Len(ba[s]) \in Nat
              /\ Sound(stream[s], log[s], parser[s], ba[s], taken[s], start[s])
<1>1. \A s \in Sides :
        /\ stream[s] \in Seq(Cell) /\ log[s] \in Seq(Entries) /\ parser[s] \in Parsers
        /\ ba[s] \in Seq(Cell) /\ taken[s] \in Nat /\ start[s] \in Nat
  BY DEF HttpInv, HttpType
<1>2. \A s \in Sides :
        /\ Len(stream[s]) \in Nat /\ Len(log[s]) \in Nat /\ Len(ba[s]) \in Nat
  BY <1>1
<1>3. \A s \in Sides : Sound(stream[s], log[s], parser[s], ba[s], taken[s], start[s])
  BY Zenon DEF HttpInv, SideInv
<1>4. Sides = {"client", "server"}
  BY DEF Sides
<1> QED
  BY <1>1, <1>2, <1>3, <1>4, Zenon

\* A step that leaves both sides and the server's state alone keeps the turns.
LEMMA WaitStays ==
  ASSUME FullInv, UNCHANGED <<stream, log, parser, ba, taken, start, waited>>,
         pc'["server"] \in Over \/ pc'["server"] = pc["server"]
  PROVE  WaitInv'
BY DEF FullInv, WaitInv, Turns, Asks, Answers, ServerRests, ServerReads

\* A read of either side.
LEMMA WaitReceive ==
  ASSUME FullInv, NEW s \in Sides, Receive(s)
  PROVE  WaitInv'
<1>1. UNCHANGED <<pc, stream, log, parser, start, waited>>
  BY DEF Receive
<1>2. HttpInv /\ HttpType /\ \A r \in Sides : SideInv(r)
  BY DEF FullInv, HttpInv
<1>3. HttpType' /\ taken'[s] - Len(ba'[s]) = taken[s] - Len(ba[s])
  BY <1>2, ReceiveInv
<1>4. "server" \in Sides /\ "client" \in Sides
  BY DEF Sides
<1>5. (ServerRests => ServerRests') /\ (ServerReads => ServerReads')
  <2>1. taken'["server"] - Len(ba'["server"]) = taken["server"] - Len(ba["server"])
    <3>1. CASE s = "server"
      BY <1>3, <3>1
    <3>2. CASE s # "server"
      BY <1>2, <1>4, <3>2 DEF Receive, HttpType
    <3> QED
      BY <3>1, <3>2
  <2>2. taken'["server"] \in Nat /\ ba'["server"] \in Seq(Cell) /\ Len(ba'["server"]) \in Nat
    BY <1>3, <1>4 DEF HttpType
  <2> QED
    BY <1>1, <1>2, <1>4, <2>1, <2>2, SidesAre, PlaceStays, ZenonT(30) DEF ServerRests, ServerReads
<1> QED
  BY <1>1, <1>5 DEF FullInv, WaitInv, Turns, Asks, Answers

\* A turn of the parser of either side.
LEMMA WaitParse ==
  ASSUME FullInv, NEW s \in Sides, Parse(s)
  PROVE  WaitInv'
<1>1. UNCHANGED <<pc, stream, log, taken, start, waited>>
  BY DEF Parse
<1>2. HttpInv /\ "server" \in Sides /\ parser \in [Sides -> Parsers] /\ ba \in [Sides -> Seq(Cell)]
  BY DEF FullInv, HttpInv, HttpType, Sides
<1>3. PICK r \in Turn(parser[s], ba[s]) :
        parser' = [parser EXCEPT ![s] = r.p] /\ ba' = [ba EXCEPT ![s] = r.s]
  BY DEF Parse
<1>4. ~parser[s].finish /\ ~parser[s].error /\ ~Needs(parser[s], ba[s]) /\ pc[s] = "recv"
  BY DEF Parse, Busy
<1>5. CASE s = "server"
  <2>1. parser'["server"] = r.p /\ ba'["server"] = r.s
    BY <1>2, <1>3, <1>5
  <2>2. Sound(stream["server"], log["server"], parser["server"], ba["server"], taken["server"],
              start["server"])
    BY <1>2, SidesAre
  <2>3. ServerRests => ServerRests'
    <3>1. ASSUME ServerRests
          PROVE  Rests(stream["server"], log["server"], r.p, r.s, taken["server"], start["server"])
      BY <1>3, <1>4, <1>5, <2>2, <3>1, RestsTurn DEF ServerRests
    <3> QED
      BY <1>1, <2>1, <3>1 DEF ServerRests
  <2>4. Asks # 0 /\ ServerReads => ServerReads'
    <3>1. ASSUME Asks # 0, ServerReads
          PROVE  Reads(log["server"], r.p, r.s, taken["server"], start["server"])
      <4>1. Len(log["server"]) \in Nat \ {0}
        BY <1>2, <3>1, SidesAre DEF Asks
      <4> QED
        BY <1>3, <1>4, <1>5, <2>2, <3>1, <4>1, ReadsTurn DEF ServerReads
    <3> QED
      BY <1>1, <2>1, <3>1 DEF ServerReads
  <2>5. Asks' = Asks /\ Answers' = Answers /\ Asks \in Nat /\ Answers \in Nat
    BY <1>1, <1>2, SidesAre DEF Asks, Answers
  <2>6. pc'["server"] = "recv" /\ pc["server"] = "recv"
    BY <1>1, <1>4, <1>5
  <2> QED
    BY <1>1, <2>3, <2>4, <2>5, <2>6 DEF FullInv, WaitInv, Turns
<1>6. CASE s # "server"
  <2>1. parser'["server"] = parser["server"] /\ ba'["server"] = ba["server"]
    BY <1>2, <1>3, <1>6
  <2> QED
    BY <1>1, <2>1 DEF FullInv, WaitInv, Turns, Asks, Answers, ServerRests, ServerReads
<1> QED
  BY <1>5, <1>6

\* The server has a request, and it is the client's last one.
LEMMA WaitDispatch ==
  ASSUME FullInv, Dispatch
  PROVE  WaitInv'
<1>1. /\ UNCHANGED <<stream, log, parser, ba, taken, start, waited>>
      /\ pc["server"] = "recv" /\ parser["server"].finish /\ pc'["server"] = "send"
  BY DEF Dispatch, Goto, parse, FullInv, HttpInv, HttpType, Sides
<1>2. ~ServerRests
  <2>1. ~NewParser.finish
    BY DEF NewParser
  <2> QED
    BY <1>1, <2>1, Zenon DEF ServerRests, Rests, Failed
<1> QED
  BY <1>1, <1>2 DEF FullInv, WaitInv, Turns, Over, Asks, Answers, ServerReads

\* The client's parser begins behind the response it has.
LEMMA WaitTake ==
  ASSUME FullInv, TakeResponse
  PROVE  WaitInv'
<1>1. /\ UNCHANGED <<pc, stream, taken, log, waited>> /\ Anew("client")
      /\ parser["client"].finish
  BY DEF TakeResponse
<1>2. /\ HttpInv /\ HttpType /\ (\A r \in Sides : SideInv(r)) /\ UNCHANGED taken
      /\ "server" \in Sides /\ "client" \in Sides
  BY <1>1 DEF FullInv, HttpInv, Sides
<1>3. /\ start'["client"] = taken["client"] /\ parser'["server"] = parser["server"]
      /\ ba'["server"] = ba["server"] /\ start'["server"] = start["server"]
  BY <1>1, <1>2, AnewSide
<1>4. ASSUME waited
      PROVE  taken["client"] = Len(stream["client"])
  <2> DEFINE c == stream["client"]
             l == log["client"]
             p == parser["client"]
             b == ba["client"]
             t == taken["client"]
             a == start["client"]
             e == l[Len(l)]
             n == Len(Cells(e.msg))
  <2>1. /\ Sound(c, l, p, b, t, a) /\ Len(l) \in Nat /\ Len(b) \in Nat /\ Len(c) \in Nat
        /\ t \in Nat /\ a \in Nat
    BY <1>2, SidesAre
  <2>2. t <= Len(c)
    BY <2>1 DEF Sound
  <2>3. CASE a = Len(c)
    <3>1. a + Len(b) <= t
      BY <2>1 DEF Sound
    <3> HIDE DEF c, l, p, b, t, a
    <3>2. t = Len(c)
      BY <2>1, <2>2, <2>3, <3>1
    <3> QED
      BY <3>2 DEF t, c
  <2>4. CASE Asks = Answers /\ Asks > 0 /\ a = log["client"][Answers].at
    <3>1. Len(l) \in 1 .. Len(l) /\ e.at = a
      BY <2>1, <2>4 DEF Asks, Answers
    <3>2. Proper(e.msg)
      BY <1>2, <3>1 DEF HttpType
    <3>3. Placed(c, e) /\ Stage(e.msg, p, t - Len(b) - e.at) /\ e.at + n = Len(c)
      BY <2>1, <3>1, Zenon DEF Sound
    <3>4. t - Len(b) - e.at = n - (IF e.msg.chunked THEN 2 ELSE 0)
      BY <1>1, <3>3, StageDone, Zenon
    <3>5. n \in Nat /\ e.at \in Nat
      BY <3>3, CellsBegin DEF Placed, Begins
    <3> HIDE DEF c, l, p, b, t, a, e, n
    <3>6. t - Len(b) - e.at = n
      BY <3>2, <3>4, <3>5 DEF Proper
    <3>7. t = Len(c)
      BY <2>1, <2>2, <3>3, <3>5, <3>6
    <3> QED
      BY <3>7 DEF t, c
  <2> QED
    BY <1>4, <2>3, <2>4 DEF FullInv, WaitInv, Turns
<1>5. ServerRests' = ServerRests /\ ServerReads' = ServerReads /\ Asks' = Asks /\ Answers' = Answers
  BY <1>1, <1>3 DEF ServerRests, ServerReads, Asks, Answers
<1>6. \A s \in Sides : waited /\ Clean(stream[s], log[s], start[s]) => Clean(stream[s], log[s], start'[s])
  <2>1. waited => Clean(stream["client"], log["client"], start'["client"])
    BY <1>3, <1>4 DEF Clean
  <2> QED
    BY <1>3, <2>1 DEF Sides
<1> QED
  BY <1>1, <1>3, <1>4, <1>5, <1>6 DEF FullInv, WaitInv, Turns

\* The client had every response before it sent this request.
LEMMA WaitRequest ==
  ASSUME FullInv, NEW m \in Requests, Request(m)
  PROVE  WaitInv'
<1>1. /\ UNCHANGED <<pc, taken, parser, ba, start>> /\ Put("server", m)
      /\ waited' = (waited /\ Idle)
  BY DEF Request, parse
<1>2. HttpInv /\ HttpType /\ "server" \in Sides /\ "client" \in Sides
  BY DEF FullInv, HttpInv, Sides
<1>3. SUFFICES ASSUME waited'
               PROVE  Turns' /\ \A s \in Sides : Clean(stream'[s], log'[s], start'[s])
  BY DEF WaitInv
<1>4. waited /\ Asks = Answers /\ start["client"] = Len(stream["client"])
  BY <1>1, <1>3 DEF Idle, Asks, Answers
<1>5. Turns /\ \A s \in Sides : Clean(stream[s], log[s], start[s])
  BY <1>4 DEF FullInv, WaitInv
<1> DEFINE c == stream["server"]
           l == log["server"]
           p == parser["server"]
           b == ba["server"]
           t == taken["server"]
           a == start["server"]
           e == [at |-> Len(c), msg |-> m]
<1>6. /\ c \in Seq(Cell) /\ l \in Seq(Entries) /\ Sound(c, l, p, b, t, a) /\ Len(c) \in Nat
      /\ Len(l) \in Nat /\ Len(log["client"]) \in Nat
  BY <1>2, SidesAre
<1>7. e \in Entries /\ e.at = Len(c)
  BY <1>6 DEF Entries
<1>8. /\ log'["server"] = Append(l, e)
      /\ stream'["client"] = stream["client"] /\ log'["client"] = log["client"]
  <2>1. m \in Requests \cup Responses
    OBVIOUS
  <2> QED
    BY <1>1, <1>2, <1>6, <2>1, PutSide
<1>9. Asks' = Asks + 1 /\ Answers' = Answers
  <2> HIDE DEF e, l
  <2>1. Len(Append(l, e)) = Len(l) + 1
    BY <1>6, <1>7
  <2> QED
    BY <1>8, <2>1 DEF Asks, Answers, l
<1>10. Asks' # Answers' /\ Asks' = Answers' + 1
  BY <1>4, <1>6, <1>9 DEF Asks, Answers
<1>11. pc["server"] \notin Over => pc["server"] = "recv" /\ ServerReads'
  <2>1. SUFFICES ASSUME pc["server"] \notin Over
                 PROVE  pc["server"] = "recv" /\ ServerReads'
    OBVIOUS
  <2>2. pc["server"] = "recv" /\ Rests(c, l, p, b, t, a)
    BY <1>4, <1>5, <2>1 DEF Turns, ServerRests
  <2> HIDE DEF e, c, l, p, b, t, a
  <2>3. Reads(Append(l, e), p, b, t, a)
    BY <1>6, <1>7, <2>2, RestsPut, Zenon
  <2> QED
    BY <1>1, <1>8, <2>2, <2>3 DEF ServerReads, p, b, t, a
<1>12. Clean(stream'["server"], log'["server"], start'["server"])
  <2>1. Clean(c, l, a)
    BY <1>2, <1>5
  <2> HIDE DEF e, c, l, p, b, t, a
  <2>2. Clean(stream'["server"], Append(l, e), a)
    BY <1>6, <1>7, <2>1, CleanPut, Zenon
  <2> QED
    BY <1>1, <1>8, <2>2 DEF a
<1>13. Clean(stream'["client"], log'["client"], start'["client"])
  BY <1>1, <1>2, <1>5, <1>8
<1>14. Turns'
  <2>1. pc'["server"] = "send" => pc'["server"] \in Over
    BY <1>1, <1>11
  <2> QED
    BY <1>1, <1>4, <1>8, <1>10, <1>11, <2>1 DEF Turns, Over
<1> QED
  BY <1>12, <1>13, <1>14 DEF Sides

\* The server has used the request but for the CRLF of a chunked one.
LEMMA WaitRespond ==
  ASSUME FullInv, Respond
  PROVE  WaitInv'
<1>1. /\ UNCHANGED <<taken, waited>> /\ Put("client", response) /\ Anew("server")
      /\ pc["server"] = "send"
      /\ pc' = [pc EXCEPT !["server"] = IF response.keep THEN "recv" ELSE "close"]
  BY DEF Respond, Goto
<1>2. /\ HttpInv /\ HttpType /\ (\A r \in Sides : SideInv(r)) /\ UNCHANGED taken
      /\ "server" \in Sides /\ "client" \in Sides /\ response \in Requests \cup Responses
  BY <1>1 DEF FullInv, HttpInv, HttpType, Sides
<1>3. SUFFICES ASSUME waited
               PROVE  Turns' /\ \A s \in Sides : Clean(stream'[s], log'[s], start'[s])
  BY <1>1 DEF WaitInv
<1>4. Turns /\ \A s \in Sides : Clean(stream[s], log[s], start[s])
  BY <1>3 DEF FullInv, WaitInv
<1> DEFINE c == stream["client"]
           l == log["client"]
           e == [at |-> Len(c), msg |-> response]
<1>5. /\ c \in Seq(Cell) /\ l \in Seq(Entries) /\ Len(c) \in Nat /\ Len(l) \in Nat
      /\ Len(log["server"]) \in Nat
  BY <1>2, SidesAre
<1>6. e \in Entries /\ e.at = Len(c)
  BY <1>2, <1>5 DEF Entries
<1>7. Asks # Answers /\ Asks = Answers + 1 /\ ServerReads /\ parser["server"].finish
      /\ start["client"] = Len(c)
  BY <1>1, <1>4, <1>5 DEF Turns, Over, Asks, Answers
<1>8. /\ parser'["server"] = NewParser /\ ba'["server"] = <<>> /\ start'["server"] = taken["server"]
      /\ start'["client"] = start["client"]
  BY <1>1, <1>2, AnewSide
<1>9. /\ log'["client"] = Append(l, e)
      /\ stream'["server"] = stream["server"] /\ log'["server"] = log["server"]
  <2>1. Sound(c, l, parser["client"], ba["client"], taken["client"], start["client"])
    BY <1>2, SidesAre
  <2> QED
    BY <1>1, <1>2, <2>1, PutSide, ZenonT(30)
<1>10. /\ Rests(stream["server"], log["server"], NewParser, <<>>, taken["server"], taken["server"])
       /\ Clean(stream["server"], log["server"], taken["server"])
  <2>1. /\ Sound(stream["server"], log["server"], parser["server"], ba["server"],
                 taken["server"], start["server"])
        /\ Len(log["server"]) \in Nat \ {0}
    BY <1>2, <1>5, <1>7, SidesAre DEF Asks, Answers
  <2> QED
    BY <1>7, <2>1, ReadsDone, Zenon DEF ServerReads
<1>11. ServerRests'
  BY <1>1, <1>8, <1>9, <1>10 DEF ServerRests
<1>12. /\ Append(l, e)[Len(Append(l, e))] = e /\ Len(Append(l, e)) = Len(l) + 1
  <2> HIDE DEF e, l
  <2> QED
    BY <1>5, <1>6, AppendKeeps
<1>13. Asks' = Answers' /\ Asks' > 0 /\ log'["client"][Answers'].at = start'["client"]
  <2>1. Asks' = Asks /\ Answers' = Len(Append(l, e))
    BY <1>9 DEF Asks, Answers
  <2>2. Answers = Len(l)
    BY DEF Answers
  <2> HIDE DEF e, l
  <2>3. log'["client"][Answers'] = e
    BY <1>9, <1>12, <2>1
  <2>4. Asks' = Answers' /\ Asks' > 0
    BY <1>5, <1>7, <1>12, <2>1, <2>2
  <2> QED
    BY <1>6, <1>7, <1>8, <2>3, <2>4
<1>14. pc'["server"] = "recv" \/ pc'["server"] \in Over
  BY <1>1, <1>2 DEF HttpType, Over
<1>15. Clean(stream'["client"], log'["client"], start'["client"])
  <2>1. Clean(c, l, start["client"])
    BY <1>2, <1>4
  <2> HIDE DEF e, c, l
  <2>2. Clean(stream'["client"], Append(l, e), start["client"])
    BY <1>5, <1>6, <2>1, CleanPut, Zenon
  <2> QED
    BY <1>8, <1>9, <2>2
<1>16. Clean(stream'["server"], log'["server"], start'["server"])
  BY <1>8, <1>9, <1>10
<1>17. Turns'
  BY <1>11, <1>13, <1>14 DEF Turns
<1> QED
  BY <1>15, <1>16, <1>17 DEF Sides

\* At first there is nothing to read.
LEMMA FullInit ==
  ASSUME Init
  PROVE  FullInv
<1>1. HttpInv
  BY HttpInit
<1>2. /\ pc["server"] = "recv" /\ parser["server"] = NewParser
      /\ \A s \in Sides : /\ stream[s] = <<>> /\ log[s] = <<>> /\ ba[s] = <<>>
                          /\ taken[s] = 0 /\ start[s] = 0
      /\ "server" \in Sides /\ "client" \in Sides
  BY DEF Init, Sides
<1>3. Len(<<>>) = 0 /\ 0 + 0 = 0
  OBVIOUS
<1>4. ServerRests
  BY <1>2, <1>3, Zenon DEF ServerRests, Rests
<1>5. Asks = 0 /\ Answers = 0
  BY <1>2, <1>3 DEF Asks, Answers
<1>6. \A s \in Sides : Clean(stream[s], log[s], start[s])
  BY <1>2, <1>3, Zenon DEF Clean
<1>7. Turns
  BY <1>2, <1>3, <1>4, <1>5 DEF Turns
<1> QED
  BY <1>1, <1>6, <1>7 DEF FullInv, WaitInv

\* Every step keeps the turns of a client that waits.
LEMMA FullStep ==
  ASSUME FullInv, [Next]_vars
  PROVE  FullInv'
<1>1. HttpInv'
  BY HttpStep DEF FullInv
<1>2. "client" \in Sides /\ "server" \in Sides /\ pc \in [Sides -> Places]
  BY DEF Sides, FullInv, HttpInv, HttpType
<1> SUFFICES WaitInv'
  BY <1>1 DEF FullInv
<1>3. ASSUME Leaves PROVE WaitInv'
  <2>1. PICK s \in Sides, at \in Over : pc' = [pc EXCEPT ![s] = at]
    BY <1>3, LeavesIs
  <2>2. pc'["server"] \in Over \/ pc'["server"] = pc["server"]
    BY <1>2, <2>1
  <2>3. UNCHANGED <<stream, log, parser, ba, taken, start, waited>>
    BY <1>3, LeavesIs
  <2> QED
    BY <2>2, <2>3, WaitStays
<1>4. CASE ServerStep
  BY <1>2, <1>3, <1>4, WaitDispatch, WaitRespond, WaitReceive, WaitParse, Zenon
  DEF ServerStep, Leaves
<1>5. CASE ClientStep
  BY <1>2, <1>3, <1>5, WaitTake, WaitReceive, WaitParse, Zenon DEF ClientStep, Leaves
<1>6. CASE \E m \in Requests : Request(m) /\ Load' <= MaxLoad
  BY <1>6, WaitRequest
<1>7. CASE UNCHANGED <<keepAlive, pc, stream, parse, log, response, waited>>
  BY <1>7, WaitStays DEF parse
<1> QED
  BY <1>4, <1>5, <1>6, <1>7 DEF Next, vars

\* When the client waits for each response every parser of the server and of the
\* client begins where a message begins, but for the CRLF that the parser leaves
\* behind a chunked message (HttpSession::recvRequest, HttpServer::handleClient).
THEOREM CleanlyStarted == Spec => []CleanStart
<1>1. Init => FullInv
  BY FullInit
<1>2. FullInv /\ [Next]_vars => FullInv'
  BY FullStep
<1>3. FullInv => CleanStart
  <2> SUFFICES ASSUME FullInv, waited, NEW s \in Sides
               PROVE  \/ start[s] = Len(stream[s])
                      \/ \E i \in DOMAIN log[s] : log[s][i].at = start[s]
                      \/ \E i \in DOMAIN log[s] :
                           log[s][i].msg.chunked /\ EndOf(s, i) - start[s] \in 0 .. 2
    BY DEF CleanStart
  <2>1. Clean(stream[s], log[s], start[s])
    BY DEF FullInv, WaitInv
  <2>2. DOMAIN log[s] = 1 .. Len(log[s])
    BY DEF FullInv, HttpInv, HttpType
  <2> QED
    BY <2>1, <2>2, Zenon DEF Clean, EndOf
<1> QED
  BY <1>1, <1>2, <1>3, PTL DEF Spec

=============================================================================
