----------------------------- MODULE HttpParser -----------------------------
(***************************************************************************)
(* HttpRequestParser and HttpResponseParser (http/http_parser.cc) over a   *)
(* stream of cells, and what HttpRequest::dump and HttpResponse::dump put  *)
(* there.  A cell is one byte where the parser looks at bytes (CR, LF,     *)
(* bodies) and a piece of text where it looks at text (the two halves of a *)
(* first line, a header, a chunk size).  The two parsers differ only in    *)
(* the first line.                                                         *)
(*                                                                         *)
(* A parser is a record; each member function gives the set of parsers it  *)
(* may leave: text that is not a whole line of the right kind may or may   *)
(* not happen to look like one.                                            *)
(***************************************************************************)
EXTENDS Integers, Sequences, FiniteSetsExt

CR   == [k |-> "CR"]
LF   == [k |-> "LF"]
CRLF == <<CR, LF>>

\* A body is made of bytes; beside CR and LF they are all alike.
X      == [k |-> "x"]
Octets == {CR, LF, X}

\* Text of a first line: method or version, then the rest with what it says.
Start     == [k |-> "start"]
Says(x)   == [k |-> "says", what |-> x]
Header(h, v) == [k |-> h, v |-> v]
HexOf(n)  == [k |-> "hex", n |-> n]

\* std::search for CRLF: where its first byte is.
findCRLF(s) == {i \in 1 .. Len(s) - 1 : s[i] = CR /\ s[i + 1] = LF}

\* The line up to the first CRLF, and what comes behind it.
Line(s)   == SubSeq(s, 1, Min(findCRLF(s)) - 1)
Behind(s) == SubSeq(s, Min(findCRLF(s)) + 2, Len(s))

-----------------------------------------------------------------------------
(* Messages: what the first line says, whether the connection is kept, how *)
(* the body is sent (in chunks or not) and the body.                       *)

Chunk(bytes) == <<HexOf(Len(bytes))>> \o CRLF \o bytes \o CRLF

Top(m) ==
  <<Start, Says(m.what)>> \o CRLF \o <<Header("connection", m.keep)>> \o CRLF

\* HttpRequest::dump and HttpResponse::dump; chunked bodies, and messages with a
\* header without a value or a chunk size that is no number, come from other
\* programs.
Cells(m) ==
  IF m.chunked
    THEN Top(m) \o <<Header("chunked", 0)>> \o CRLF \o CRLF
         \o (IF m.bad THEN <<Header("bad", 0)>> \o CRLF ELSE Chunk(m.body))
         \o <<HexOf(0)>> \o CRLF \o CRLF
  ELSE IF m.bad THEN Top(m) \o <<Header("bad", 0)>> \o CRLF \o CRLF
  ELSE IF m.body = <<>> THEN Top(m) \o CRLF
  ELSE Top(m) \o <<Header("length", Len(m.body))>> \o CRLF \o CRLF \o m.body

-----------------------------------------------------------------------------
(* The parser *)

NewParser ==
  [state |-> "PARSE_FIRST_LINE", chunked |-> FALSE, contentLen |-> 0, chunkSize |-> 0,
   finish |-> FALSE, error |-> FALSE, what |-> [path |-> "/"], keep |-> FALSE, body |-> <<>>]

Wrong(p) == [p EXCEPT !.error = TRUE]

\* The first line; half of one may still have two spaces and a version.
parseFirstLine(p, line) ==
  LET said(x) == [p EXCEPT !.what = x, !.state = "PARSE_HEADER"] IN
  IF Len(line) = 2 /\ line[1] = Start /\ line[2].k = "says" THEN {said(line[2].what)}
  ELSE IF line # <<>> /\ line[Len(line)].k = "says"
    THEN {Wrong(p), said(line[Len(line)].what)}
  ELSE {Wrong(p)}

\* One header, or the empty line behind the headers, which the code tells from its
\* first byte, a CR.
parseHeader(p, line) ==
  IF line = <<>> \/ Head(line) = CR THEN {[p EXCEPT !.state = "PARSE_BODY"]}
  ELSE IF Len(line) > 1 THEN {Wrong(p), p}
  ELSE CASE line[1].k = "chunked" -> {[p EXCEPT !.chunked = TRUE]}
         [] line[1].k = "length" ->
              {IF p.chunked THEN p ELSE [p EXCEPT !.contentLen = line[1].v]}
         [] line[1].k = "connection" -> {[p EXCEPT !.keep = line[1].v]}
         [] OTHER -> {Wrong(p)}

\* A chunk size.  An empty line is the number 0.
HexToDec(p, line) ==
  IF line = <<>> \/ line = <<HexOf(0)>> THEN [p EXCEPT !.finish = TRUE]
  ELSE IF Len(line) = 1 /\ line[1].k = "hex" THEN [p EXCEPT !.chunkSize = line[1].n]
  ELSE Wrong(p)

\* Mutant of Whole: a chunk is taken without the CRLF behind it.
WholeChunk(p) == IF p.chunked THEN p.chunkSize ELSE p.contentLen

\* How many bytes of body are taken at once: the chunk and the CRLF behind it, or
\* all of a body of known length.
Whole(p) == IF p.chunked THEN p.chunkSize + 2 ELSE p.contentLen

InLines(p) == p.state # "PARSE_BODY" \/ (p.chunked /\ p.chunkSize = 0)

\* Mutant of Needs: one byte of the body less.
NeedsLess(p, s) ==
  IF InLines(p) THEN findCRLF(s) = {} ELSE Len(s) + 1 < Whole(p)

\* Mutant of Needs: one byte more than the body has.
NeedsMore(p, s) ==
  IF InLines(p) THEN findCRLF(s) = {} ELSE Len(s) <= Whole(p)

\* Does the parser have to read more before its next step?
Needs(p, s) ==
  IF InLines(p) THEN findCRLF(s) = {} ELSE Len(s) < Whole(p)

Bytes(p, s) == SubSeq(s, 1, IF Whole(p) < Len(s) THEN Whole(p) ELSE Len(s))

\* One turn of the loop over the bytes s that are there: the parser and the bytes
\* left.  The body of a chunked message keeps the CRLF of each chunk.
Turn(p, s) ==
  IF InLines(p)
    THEN LET outcomes == CASE p.state = "PARSE_FIRST_LINE" -> parseFirstLine(p, Line(s))
                           [] p.state = "PARSE_HEADER" -> parseHeader(p, Line(s))
                           [] OTHER -> {HexToDec(p, Line(s))}
         IN {[p |-> q, s |-> Behind(s)] : q \in outcomes}
    ELSE {[p |-> [p EXCEPT !.body = @ \o Bytes(p, s), !.chunkSize = 0,
                           !.finish = ~p.chunked],
           s |-> SubSeq(s, Whole(p) + 1, Len(s))]}

\* What a message of that kind leaves in a parser that meets all of it.
Parsed(m) ==
  [what |-> m.what, keep |-> m.keep,
   body |-> IF m.chunked THEN m.body \o CRLF ELSE m.body]
=============================================================================
