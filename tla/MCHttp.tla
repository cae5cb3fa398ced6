------------------------------- MODULE MCHttp -------------------------------
(* Instances of Http: a request whose body is CRLF, a chunked one and a      *)
(* malformed one.  The first servlet's responses have no body.              *)
EXTENDS Http

Sent(path, keep, chunked, bad, body) ==
  [what |-> [path |-> path], keep |-> keep, chunked |-> chunked, bad |-> bad, body |-> body]

Asked ==
  {Sent("/b", TRUE, FALSE, FALSE, CRLF), Sent("/a", TRUE, TRUE, FALSE, <<X>>),
   Sent("/b", FALSE, TRUE, TRUE, <<>>)}

Globs == [g \in Patterns |-> IF g = "/*" THEN {"/a", "/b"} ELSE {"/b"}]

Bodies == [n \in 0 .. MaxLoad |-> IF n = 1 THEN <<>> ELSE <<CR>>]
=============================================================================
