-------------------------------- MODULE Http --------------------------------
(***************************************************************************)
(* One connection of HttpServer: handleClient receives requests, has them  *)
(* dispatched and sends the responses until the connection is not kept     *)
(* alive or receiving fails.  On the other side is a client that sends     *)
(* requests, one after the other or several at once, and parses the        *)
(* responses with HttpResponseParser.  TCP cuts both streams at any place. *)
(*                                                                         *)
(* A parser lives for one message; what it has read behind that message is *)
(* lost with it.                                                           *)
(***************************************************************************)
EXTENDS HttpParser, Servlets

CONSTANTS
  Requests, \* what clients send
  MaxLoad, \* bound on requests, which count twice, and calls that change servlets
  BodyOf   \* body a servlet answers with

\* A chunk of no bytes would end a chunked message.
ASSUME HttpAssumption ==
  /\ MaxLoad \in Nat
  /\ BodyOf \in [0 .. MaxLoad -> Seq(Octets)]
  /\ \A m \in Requests :
       /\ {m.keep, m.chunked, m.bad} \subseteq BOOLEAN
       /\ m.body \in Seq(Octets)
       /\ m.chunked /\ ~m.bad => m.body # <<>>

Sides == {"client", "server"}

VARIABLES
  keepAlive, \* HttpServer::keepAlive_
  pc,        \* client: recv or closed; server: recv, where its timeout may put it in
             \* cancelled or astray, send, close, closed
  stream,    \* cells sent to each side, as long as the connection lasts
  taken,     \* how many of them it has read
  parser,    \* the parser of the message it is receiving
  ba,        \* what that parser has read and not used: ba_
  start,     \* where in the stream that parser began
  log,       \* messages sent to each side and where they begin
  response,  \* what the server is about to send
  waited     \* the client had each response before it sent the next request

parse == <<taken, parser, ba, start>>
vars  == <<keepAlive, pc, stream, parse, log, response, waited, dispatchVars>>

NoResponse == [what |-> [servlet |-> 0], keep |-> FALSE, body |-> <<>>, chunked |-> FALSE, bad |-> FALSE]

Init ==
  /\ keepAlive \in BOOLEAN
  /\ pc = [s \in Sides |-> "recv"]
  /\ stream = [s \in Sides |-> <<>>]
  /\ taken = [s \in Sides |-> 0]
  /\ parser = [s \in Sides |-> NewParser]
  /\ ba = [s \in Sides |-> <<>>]
  /\ start = [s \in Sides |-> 0]
  /\ log = [s \in Sides |-> <<>>]
  /\ response = NoResponse
  /\ waited = TRUE
  /\ InitServlets

Goto(s, at) == pc' = [pc EXCEPT ![s] = at]

Put(s, m) ==
  /\ stream' = [stream EXCEPT ![s] = @ \o Cells(m)]
  /\ log' = [log EXCEPT ![s] = Append(@, [at |-> Len(stream[s]), msg |-> m])]

\* A new parser: recvRequest, or the next response.
Anew(s) ==
  /\ parser' = [parser EXCEPT ![s] = NewParser]
  /\ ba' = [ba EXCEPT ![s] = <<>>]
  /\ start' = [start EXCEPT ![s] = taken[s]]

-----------------------------------------------------------------------------
(* parseRequest and parseResponse *)

Busy(s) == pc[s] = "recv" /\ ~parser[s].finish /\ ~parser[s].error

\* stream_->read of some of the cells that are there.
Receive(s) ==
  /\ Busy(s)
  /\ UNCHANGED <<keepAlive, pc, stream, parser, start, log, response, waited, dispatchVars>>
  /\ Needs(parser[s], ba[s])
  /\ \E n \in 1 .. Len(stream[s]) - taken[s] :
       /\ taken' = [taken EXCEPT ![s] = @ + n]
       /\ ba' = [ba EXCEPT ![s] = @ \o SubSeq(stream[s], taken[s] + 1, taken[s] + n)]

\* One turn of the loop over what has been read; it goes on until it needs more.
Parse(s) ==
  /\ Busy(s)
  /\ UNCHANGED <<keepAlive, pc, stream, taken, start, log, response, waited, dispatchVars>>
  /\ ~Needs(parser[s], ba[s])
  /\ \E t \in Turn(parser[s], ba[s]) :
       /\ parser' = [parser EXCEPT ![s] = t.p]
       /\ ba' = [ba EXCEPT ![s] = t.s]

\* The server waits for bytes, those that were sent may still be on their way, and its
\* receive timeout sets tinfo->cancelled: on the worker of the coroutine, which is then
\* resumed, or on another one, where HandleEvent finds no event.
Timeout ==
  /\ Busy("server") /\ Needs(parser["server"], ba["server"])
  /\ \E at \in {"cancelled", "astray"} : Goto("server", at)
  /\ UNCHANGED <<keepAlive, stream, parse, log, response, waited, dispatchVars>>

Unread(s) == taken[s] < Len(stream[s])
PeerGone  == pc["server"] = "closed" \/ pc["client"] = "closed" \/ crashed

\* read returns 0 because the peer has closed or is gone, or -1 after a timeout, even
\* with bytes to read; a coroutine that the timeout did not resume waits for an event.
MayEnd(s) ==
  \/ Busy(s) /\ Needs(parser[s], ba[s]) /\ ~Unread(s) /\ PeerGone
  \/ pc[s] = "cancelled"
  \/ pc[s] = "astray" /\ (Unread(s) \/ PeerGone)

\* Receiving fails: handleClient leaves its loop without an answer.
Fail(s) ==
  /\ MayEnd(s) \/ (pc[s] = "recv" /\ parser[s].error)
  /\ Goto(s, IF s = "server" THEN "close" ELSE "closed")
  /\ UNCHANGED <<keepAlive, stream, parse, log, response, waited, dispatchVars>>

-----------------------------------------------------------------------------
(* handleClient *)

\* The request is there; its servlet is looked up under the lock and runs after.
Dispatch ==
  /\ pc["server"] = "recv" /\ parser["server"].finish
  /\ LET servlet == getMatchServlet(parser["server"].what.path) IN
       response' = [NoResponse EXCEPT !.what = [servlet |-> servlet], !.body = BodyOf[servlet],
                                      !.keep = keepAlive /\ parser["server"].keep]
  /\ Goto("server", "send")
  /\ UNCHANGED <<keepAlive, stream, parse, log, waited, dispatchVars>>

\* sendResponse, then another turn or the end of the loop.
Respond ==
  /\ pc["server"] = "send"
  /\ Put("client", response)
  /\ Anew("server")
  /\ Goto("server", IF response.keep THEN "recv" ELSE "close")
  /\ UNCHANGED <<keepAlive, taken, response, waited, dispatchVars>>

\* session.close()
Close ==
  /\ pc["server"] = "close"
  /\ Goto("server", "closed")
  /\ UNCHANGED <<keepAlive, stream, parse, log, response, waited, dispatchVars>>

ServerStep ==
  /\ ~crashed
  /\ \/ Dispatch \/ Respond \/ Close \/ Timeout
     \/ Fail("server") \/ Receive("server") \/ Parse("server")

-----------------------------------------------------------------------------
(* The client *)

Idle == Len(log["client"]) = Len(log["server"]) /\ start["client"] = Len(stream["client"])

Request(m) ==
  /\ pc["client"] = "recv"
  /\ Put("server", m)
  /\ waited' = (waited /\ Idle)
  /\ UNCHANGED <<keepAlive, pc, parse, response, dispatchVars>>

\* A response is there; the next one gets a new parser.
TakeResponse ==
  /\ pc["client"] = "recv" /\ parser["client"].finish
  /\ Anew("client")
  /\ UNCHANGED <<keepAlive, pc, stream, taken, log, response, waited, dispatchVars>>

ClientStep ==
  \/ TakeResponse \/ Fail("client") \/ Receive("client") \/ Parse("client")

Load == calls + 2 * Len(log["server"])

Next ==
  \/ ServerStep \/ ClientStep
  \/ \E m \in Requests : Request(m) /\ Load' <= MaxLoad
  \/ /\ AdminStep /\ UNCHANGED <<keepAlive, pc, stream, parse, log, response, waited>>
     /\ Load' <= MaxLoad

Spec == Init /\ [][Next]_vars /\ WF_vars(ServerStep) /\ WF_vars(ClientStep)

-----------------------------------------------------------------------------
(* Properties *)

\* A parser that begins where a message begins gets exactly that message, however
\* the stream is cut, whatever bytes the body holds and whatever follows; it
\* fails only for a malformed one.
ParsedIsSent ==
  \A s \in Sides : \A i \in DOMAIN log[s] :
    LET p == parser[s]
        m == log[s][i].msg
    IN log[s][i].at = start[s] =>
         /\ p.error => m.bad
         /\ p.finish => ~m.bad /\ [what |-> p.what, keep |-> p.keep, body |-> p.body] = Parsed(m)

EndOf(s, i) == log[s][i].at + Len(Cells(log[s][i].msg))

\* For a client that waits for each response a parser begins where a message
\* begins; only the CRLF at the end of a chunked message may be left in front.
CleanStart ==
  waited =>
    \A s \in Sides :
      \/ start[s] = Len(stream[s])
      \/ \E i \in DOMAIN log[s] : log[s][i].at = start[s]
      \/ \E i \in DOMAIN log[s] : log[s][i].msg.chunked /\ EndOf(s, i) - start[s] \in 0 .. 2

Proper(m) == ~m.chunked /\ ~m.bad

\* The server's timeout has run out with bytes of a request still unread.
TimedOut == pc["server"] \in {"cancelled", "astray"} /\ Unread("server")

\* A well-formed request without chunks that reaches a server which has not left
\* its loop is answered, when the client waits for each response, unless the receive
\* timeout ran out before all of the request was read; a server with keepAlive_ goes
\* on to the next request.
GoodAnswered ==
  \A j \in 1 .. MaxLoad \div 2 :
    /\ Len(log["server"]) = j /\ pc["server"] \notin {"close", "closed"} /\ waited
    /\ \A i \in DOMAIN log["server"] : Proper(log["server"][i].msg)
    ~> Len(log["client"]) >= j \/ TimedOut \/ crashed
=============================================================================
