-------------------------------- MODULE Rpc ---------------------------------
(***************************************************************************)
(* One remote call: RpcClient::Call over TcpClient on one side, TcpServer  *)
(* and RpcServer::handleClient on the other, each with a ProtobufCodec on  *)
(* a SocketStream, and a TCP connection between them that cuts what is     *)
(* sent at any place and may break.                                        *)
(*                                                                         *)
(* A client makes one call at a time: TcpClient keeps one conn_ and one    *)
(* cb_.  Handlers may be registered while calls are served.                *)
(***************************************************************************)
EXTENDS Codec

CONSTANTS
  ReadMax, \* bytes receive() asks for
  Answer   \* what the handler of a request type returns

ASSUME RpcAssumption == ReadMax \in Nat \ {0} /\ Answer \in [Types -> Messages]

Sides == {"client", "server"}
Peer(s) == CHOOSE p \in Sides : p # s

VARIABLES
  request,     \* the message of the call
  pc,          \* where each side is
  registered,  \* RpcServer::handlers_
  open,        \* the side's socket is open
  lost,        \* the connection broke
  recvTimeout, \* the server's receive timeout: "none", "set", or "astray" once another
               \* worker ran its function
  sent,        \* all bytes the side has sent
  taken,       \* how many of the peer's bytes it has read
  ba,          \* the ByteArray of receive()
  got,         \* what receive() returned
  first        \* bytes there when receive() first looked at the length

conn == <<open, lost, sent>>
recv == <<taken, ba, got, first>>
vars == <<request, pc, registered, recvTimeout, conn, recv>>

Nothing == Failed("none")

Init ==
  /\ request = NoMsg
  /\ pc = [client |-> "idle", server |-> "none"]
  /\ registered = {}
  /\ open = [s \in Sides |-> FALSE]
  /\ lost = FALSE
  /\ recvTimeout = "none"
  /\ sent = [s \in Sides |-> <<>>]
  /\ taken = [s \in Sides |-> 0]
  /\ ba = [s \in Sides |-> New]
  /\ got = [s \in Sides |-> Nothing]
  /\ first = [s \in Sides |-> 0]

Goto(s, at) == pc' = [pc EXCEPT ![s] = at]

-----------------------------------------------------------------------------
(* Connecting *)

\* Call: the callback is set, start() adds the task that connects.
Call(m) ==
  /\ pc["client"] = "idle"
  /\ request' = m
  /\ Goto("client", "connect")
  /\ UNCHANGED <<registered, recvTimeout, conn, recv>>

\* The handshake is the kernel's; the server has not accepted yet.
Connect ==
  /\ pc["client"] = "connect"
  /\ open' = [s \in Sides |-> TRUE]
  /\ pc' = [client |-> "send", server |-> "backlog"]
  /\ UNCHANGED <<request, registered, recvTimeout, lost, sent, recv>>

\* Refused, or s_ConnectMaxTimeOut has passed: an error is logged, that is all.
ConnectFails ==
  /\ pc["client"] = "connect"
  /\ Goto("client", "done")
  /\ UNCHANGED <<request, registered, recvTimeout, conn, recv>>

\* Mutant of Accept: the socket keeps its default, no timeout.
AcceptPatient ==
  /\ pc["server"] = "backlog"
  /\ Goto("server", "recv")
  /\ UNCHANGED <<request, registered, recvTimeout, conn, recv>>

\* TcpServer::accept, and the task that runs handleClient.
Accept ==
  /\ pc["server"] = "backlog"
  /\ recvTimeout' = "set"
  /\ Goto("server", "recv")
  /\ UNCHANGED <<request, registered, conn, recv>>

registerRpcHandler(t) ==
  /\ registered' = registered \cup {t}
  /\ UNCHANGED <<request, pc, recvTimeout, conn, recv>>

-----------------------------------------------------------------------------
(* ProtobufCodec::send and receive *)

Packet(m) == Readable(serializeToByteArray(m))
Packets   == {<<m, Packet(m)>> : m \in Messages}

\* One ::send of the whole packet.  Nobody asks how much of it was sent.
Send(s, m) ==
  /\ \E p \in Packets : \E n \in 0 .. Len(p[2]) :
       p[1] = m /\ sent' = [sent EXCEPT ![s] = SubSeq(p[2], 1, n)]
  /\ UNCHANGED <<request, registered, recvTimeout, open, lost, recv>>

ClientSends == pc["client"] = "send" /\ Send("client", request) /\ Goto("client", "recv")

\* Where a side goes with what it received.
After(s, res) ==
  IF s = "server" /\ res.err = "kNoError" THEN "lookup" ELSE "close"

Here(s) == Len(sent[Peer(s)]) - taken[s]

\* recv returns 0 or -1: the peer has closed, the connection broke, or it took too
\* long; bytes that were sent may still be on their way.  A peer that closed with
\* bytes unread resets the connection.  A timeout that ran on the worker of the
\* coroutine wakes it, one that ran elsewhere leaves it to the next event; either
\* way recv then fails, also when there are bytes to read.
MayEnd(s) ==
  \/ ~open[Peer(s)] /\ (Here(s) = 0 \/ Len(sent[s]) > taken[Peer(s)])
  \/ lost
  \/ s = "server" /\ recvTimeout = "set"
  \/ s = "server" /\ recvTimeout = "astray" /\ Here(s) > 0

\* The timeout's function runs on another worker, where HandleEvent finds no event.
TimeoutAstray ==
  /\ pc["server"] = "recv"
  /\ recvTimeout = "set" /\ recvTimeout' = "astray"
  /\ UNCHANGED <<request, pc, registered, conn, recv>>

\* SocketStream::read of n bytes and the turn of the loop behind it.  The array
\* lives as long as the call.
Receive(s, n) ==
  /\ pc[s] = "recv" /\ n <= Here(s)
  /\ ~(s = "server" /\ recvTimeout = "astray")
  /\ \E area \in {getWriteArea(ba[s], ReadMax)} :
     \E b \in {Filled(area, SubSeq(sent[Peer(s)], taken[s] + 1, taken[s] + n))} :
     \E t \in {Turn(b)} :
       /\ ba' = [ba EXCEPT ![s] = IF t.res.err = "more" THEN t.ba ELSE New]
       /\ first' = IF first[s] = 0 /\ LengthKnown(b)
                     THEN [first EXCEPT ![s] = taken[s] + n] ELSE first
       /\ IF t.res.err = "more"
            THEN UNCHANGED <<pc, got>>
            ELSE got' = [got EXCEPT ![s] = t.res] /\ Goto(s, After(s, t.res))
  /\ taken' = [taken EXCEPT ![s] = @ + n]
  /\ UNCHANGED <<request, registered, recvTimeout, conn>>

ReceiveEnds(s) ==
  /\ pc[s] = "recv" /\ MayEnd(s)
  /\ ba' = [ba EXCEPT ![s] = New]
  /\ got' = [got EXCEPT ![s] = Failed("kServerClosed")]
  /\ Goto(s, "close")
  /\ UNCHANGED <<request, registered, recvTimeout, conn, taken, first>>

-----------------------------------------------------------------------------
(* handleClient after receive() *)

Lookup ==
  /\ pc["server"] = "lookup"
  /\ Goto("server", IF got["server"].msg.type \in registered THEN "onMessage" ELSE "close")
  /\ UNCHANGED <<request, registered, recvTimeout, conn, recv>>

\* The handler's answer is sent.
OnMessage ==
  /\ pc["server"] = "onMessage"
  /\ Send("server", Answer[got["server"].msg.type])
  /\ Goto("server", "close")

\* The client's handler, if there is an answer, ran before.
Close(s) ==
  /\ pc[s] = "close"
  /\ open' = [open EXCEPT ![s] = FALSE]
  /\ Goto(s, "done")
  /\ UNCHANGED <<request, registered, recvTimeout, lost, sent, recv>>

Lose ==
  /\ open["client"] /\ ~lost
  /\ lost' = TRUE
  /\ UNCHANGED <<request, pc, registered, recvTimeout, open, sent, recv>>

ReceiveStep(s) == ReceiveEnds(s) \/ \E n \in 1 .. ReadMax : Receive(s, n)

ClientStep == Connect \/ ConnectFails \/ ClientSends \/ ReceiveStep("client") \/ Close("client")

ServerStep == Accept \/ ReceiveStep("server") \/ Lookup \/ OnMessage \/ Close("server")

Next ==
  \/ ClientStep \/ ServerStep \/ TimeoutAstray \/ Lose
  \/ \E m \in Messages : Call(m)
  \/ \E t \in Types : registerRpcHandler(t)

\* Both sides' coroutines are scheduled, and a timer that is set runs out.
Spec == Init /\ [][Next]_vars /\ WF_vars(ClientStep) /\ WF_vars(ServerStep)

-----------------------------------------------------------------------------
(* Properties *)

\* What the side is to receive.
Expected(s) == IF s = "server" THEN request ELSE Answer[request.type]

\* However the stream is cut, and although the length may be read from the middle
\* of a message, receive() never returns a message that was not sent, and the
\* client's handler never gets an answer to anything but its request.
RightMessage ==
  \A s \in Sides : got[s].err = "kNoError" => got[s].msg = Expected(s)

\* receive() succeeds exactly when the whole packet was there the first time it
\* looked at the length; a packet that comes in pieces after that, or has no byte
\* more than a header and the shortest message, is lost.
ReceivedIffWhole ==
  \A s \in Sides :
    got[s] # Nothing =>
      (got[s].err = "kNoError" <=> first[s] >= Len(Packet(Expected(s))))

\* The array holds the last bytes read from the stream, in order, through all
\* growing and moving, and its positions stay in order and behind the room for a
\* length: the assertion of addCapacity holds at every read.
BufferExact ==
  \A s \in Sides :
    /\ Sound(ba[s])
    /\ pc[s] = "recv" =>
         Readable(ba[s]) = SubSeq(sent[Peer(s)], taken[s] - getReadSize(ba[s]) + 1, taken[s])

\* The server waits for bytes that do not come, and its timeout is spent.
Stranded == pc["server"] = "recv" /\ recvTimeout = "astray" /\ Here("server") = 0

\* Every call ends, although the client's socket has no timeout: whatever reaches
\* the server, it closes the connection.  The one exception is a server whose
\* timeout ran on another worker and that waits for the rest of a request for ever.
EveryCallEnds == pc["client"] = "connect" ~> (pc["client"] = "done" \/ []Stranded)
=============================================================================
