------------------------------ MODULE Sockets -------------------------------
(***************************************************************************)
(* Socket objects (socket.cc) over the hooked calls socket, accept,        *)
(* connect, close, fcntl, ioctl and setsockopt (hook.cc), the FdManager    *)
(* they share and the kernel's descriptor table, which gives a closed      *)
(* number to the next socket of any thread.                                *)
(*                                                                         *)
(* Each coroutine owns at most one Socket, as the handlers of TcpServer    *)
(* and TcpClient do; coroutines run on different workers, so their calls   *)
(* interleave wherever the code leaves the kernel or the FdManager's lock. *)
(***************************************************************************)
EXTENDS Integers, FiniteSets, FiniteSetsExt, FdContext

CONSTANTS Cos,          \* coroutines
          FirstFd,      \* the lowest descriptor that is not a standard stream
          LastFd,       \* the limit on open files
          Timeouts,     \* milliseconds a program sets
          RecvTimeout,  \* TcpServer::recvTimeout_
          MaxCustom     \* bound: Sockets with settings of their own at a time

\* fdcontexts_.resize(fd * 1.5) makes room for fd from 2 on: 0 and 1 are open
\* from the start in every program that has not closed its standard streams.
\* An empty slot is neither an open descriptor nor a context.
ASSUME FdAssumption ==
  /\ FirstFd \in Nat /\ LastFd \in Nat /\ 2 <= FirstFd
  /\ Timeouts \subseteq Int /\ RecvTimeout \in Int /\ MaxCustom \in Nat
  /\ Null \notin [by : Cos, nonblock : BOOLEAN, conn : {"none", "ok", "refused", "progress"}]
  /\ Null \notin [by : Cos, user : BOOLEAN, sys : BOOLEAN, recv : Int, send : Int]

VARIABLES
  kernel,       \* descriptor -> Null or [by, nonblock, conn]
  contexts,     \* FdManager::fdcontexts_
  sock,         \* sock[c]: sockfd_ and state_ of c's Socket
  pc,           \* pc[c]: the call c is in
  fd,           \* fd[c]: the descriptor this call works on
  goal,         \* goal[c]: what the call is part of
  cancelled,    \* timerInfo::cancelled of c's connect
  want,         \* want[c]: what c asked for on its current socket
  aborted       \* the call in which assert(fd >= 0) has failed, if any

ioVars == <<fd, goal, cancelled>>
vars == <<kernel, contexts, sock, pc, ioVars, want, aborted>>

Fds == FirstFd .. LastFd
NoSock == [sockfd |-> -1, state |-> "INIT"]
Defaults == [nonblock |-> FALSE, recv |-> -1, send |-> -1, ioctl |-> FALSE]

Init ==
  /\ kernel = [i \in Fds |-> Null]
  /\ contexts = [i \in {} |-> Null]
  /\ sock = [c \in Cos |-> NoSock]
  /\ pc = [c \in Cos |-> "none"]
  /\ fd = [c \in Cos |-> -1]
  /\ goal = [c \in Cos |-> "none"]
  /\ cancelled = [c \in Cos |-> FALSE]
  /\ want = [c \in Cos |-> Defaults]
  /\ aborted = {}

Free == {i \in Fds : kernel[i] = Null}
Opened(by) == [by |-> by, nonblock |-> FALSE, conn |-> "none"]
Context(c) == getFdContext(contexts, sock[c].sockfd)
Using(c) == pc[c] = "idle" /\ sock[c].sockfd # -1
Accepted == [Defaults EXCEPT !.recv = RecvTimeout]
Settable(c) ==
  Using(c) /\ Cardinality({d \in Cos \ {c} : want[d] \notin {Defaults, Accepted}}) < MaxCustom
Go(c, label) == pc' = [pc EXCEPT ![c] = label]

\* getFdContext(-1) fails its assertion.
Abort(c, what) ==
  /\ aborted' = {[by |-> c, call |-> what]}
  /\ UNCHANGED <<kernel, contexts, sock, pc, ioVars, want>>

\* Calls that look the context up without asking whether there is a descriptor.
NoFd(c, what) == pc[c] = "idle" /\ sock[c].sockfd = -1 /\ Abort(c, what)

-----------------------------------------------------------------------------
(* socket(): Socket::newSock from bind or connect.                         *)

\* Socket::CreateTcp
Create(c) ==
  /\ pc[c] = "none" /\ Go(c, "idle")
  /\ sock' = [sock EXCEPT ![c] = NoSock]
  /\ UNCHANGED <<kernel, contexts, ioVars, want, aborted>>

\* socket_origin.  Without a descriptor, bind gives up and connect goes on
\* with -1.
SocketOrigin(c, what) ==
  \/ /\ pc[c] = "idle" /\ sock[c].sockfd = -1 /\ Free # {}
     /\ fd' = [fd EXCEPT ![c] = Min(Free)]
     /\ kernel' = [kernel EXCEPT ![Min(Free)] = Opened(c)]
     /\ goal' = [goal EXCEPT ![c] = what] /\ Go(c, "add")
     /\ UNCHANGED <<contexts, sock, cancelled, want, aborted>>
  \/ Free = {} /\ what = "connect" /\ NoFd(c, "connect")

\* FdManager::addFd, whose FdContext makes the descriptor non-blocking.
Added(i, by) ==
  /\ contexts' = addFd(contexts, i, by)
  /\ kernel' = [kernel EXCEPT ![i].nonblock = TRUE]

AddFd(c) ==
  /\ pc[c] = "add"
  /\ Added(fd[c], c)
  /\ sock' = [sock EXCEPT ![c].sockfd = fd[c]]
  /\ want' = [want EXCEPT ![c] = Defaults]
  /\ Go(c, goal[c])
  /\ fd' = [fd EXCEPT ![c] = -1] /\ goal' = [goal EXCEPT ![c] = "none"]
  /\ UNCHANGED <<cancelled, aborted>>

\* Socket::bind, and Socket::listen unless bind fails or the program stops there
Bind(c) ==
  /\ pc[c] = "bind"
  /\ Go(c, "idle")
  /\ \E s \in {sock[c].state, "LISTEN"} : sock' = [sock EXCEPT ![c].state = s]
  /\ UNCHANGED <<kernel, contexts, ioVars, want, aborted>>

-----------------------------------------------------------------------------
(* accept(): the loop of TcpServer::accept.                                *)

\* accept_origin; with no descriptor left, or on a socket that does not listen, it
\* fails and the loop goes on.  The new Socket is for the coroutine d that will run
\* handleClient.  The loop does not ask whether bind() got a descriptor to listen on.
AcceptOrigin(c, d) ==
  \/ /\ pc[c] = "idle" /\ sock[c].state = "LISTEN" /\ pc[d] = "none" /\ Free # {}
     /\ fd' = [fd EXCEPT ![c] = Min(Free)]
     /\ kernel' = [kernel EXCEPT ![Min(Free)] = [Opened(d) EXCEPT !.conn = "ok"]]
     /\ pc' = [pc EXCEPT ![c] = "acceptAdd", ![d] = "accepted"]
     /\ UNCHANGED <<contexts, sock, goal, cancelled, want, aborted>>
  \/ NoFd(c, "accept")

AcceptAdd(c) ==
  /\ pc[c] = "acceptAdd"
  /\ Added(fd[c], kernel[fd[c]].by)
  /\ Go(c, "acceptInit")
  /\ UNCHANGED <<sock, ioVars, want, aborted>>

\* Socket::init and setRecvTimeout.  If there is no context, the Socket that
\* never got the descriptor is destroyed: close(-1).
AcceptInit(c) ==
  LET d == kernel[fd[c]].by
      fc == getFdContext(contexts, fd[c])
  IN /\ pc[c] = "acceptInit"
     /\ IF fc = Null THEN Abort(d, "close")
        ELSE /\ sock' = [sock EXCEPT ![d] = [sockfd |-> fd[c], state |-> "CONNECTED"]]
             /\ contexts' = [contexts EXCEPT ![fd[c]] =
                               setTimeout(@, "recv", Timeval(RecvTimeout))]
             /\ want' = [want EXCEPT ![d] = Accepted]
             /\ pc' = [pc EXCEPT ![c] = "idle", ![d] = "idle"]
             /\ fd' = [fd EXCEPT ![c] = -1]
             /\ UNCHANGED <<kernel, goal, cancelled, aborted>>

-----------------------------------------------------------------------------
(* connect(): Socket::connect over connect_with_timeout.                   *)

\* The program connects a Socket that it has bound before.
ConnectBound(c) ==
  /\ Using(c) /\ sock[c].state \in {"INIT", "CLOSE"}
  /\ Go(c, "connect") /\ UNCHANGED <<kernel, contexts, sock, ioVars, want, aborted>>

Connected(c) ==
  /\ sock' = [sock EXCEPT ![c].state = "CONNECTED"]
  /\ Go(c, "idle")

\* connect_origin: it succeeds, fails, or is in progress; then a program that
\* asked for a non-blocking socket gets the error, and others wait.  Without a
\* context the call fails with EBADF.
ConnectOrigin(c) ==
  /\ pc[c] = "connect"
  /\ \E r \in IF Context(c) = Null THEN {"none"} ELSE {"ok", "refused", "progress"} :
       /\ kernel' = [kernel EXCEPT ![sock[c].sockfd].conn = r]
       /\ CASE r = "ok" -> Connected(c)
            [] r = "progress" -> /\ Go(c, IF Context(c).user THEN "close" ELSE "event")
                                 /\ UNCHANGED sock
            [] OTHER -> Go(c, "close") /\ UNCHANGED sock
  /\ UNCHANGED <<contexts, ioVars, want, aborted>>

\* Worker::AddEvent(EPOLLOUT)
AddEvent(c) ==
  /\ pc[c] = "event" /\ Go(c, "wait")
  /\ UNCHANGED <<kernel, contexts, sock, ioVars, want, aborted>>

\* The timeout function runs on any worker; only on c's does HandleEvent find
\* the event and wake c.
ConnectTimeout(c) ==
  /\ pc[c] \in {"event", "wait", "woken"} /\ ~cancelled[c]
  /\ cancelled' = [cancelled EXCEPT ![c] = TRUE]
  /\ \/ UNCHANGED pc
     \/ pc[c] = "wait" /\ Go(c, "woken")
  /\ UNCHANGED <<kernel, contexts, sock, fd, goal, want, aborted>>

\* The network answers.
Answer(i) ==
  /\ kernel[i] # Null /\ kernel[i].conn = "progress"
  /\ \E r \in {"ok", "refused"} : kernel' = [kernel EXCEPT ![i].conn = r]
  /\ UNCHANGED <<contexts, sock, pc, ioVars, want, aborted>>

\* EPOLLOUT
Wake(c) ==
  /\ pc[c] = "wait" /\ kernel[sock[c].sockfd].conn # "progress"
  /\ Go(c, "woken")
  /\ UNCHANGED <<kernel, contexts, sock, ioVars, want, aborted>>

\* getsockopt(SO_ERROR): no error is success
Outcome(c) ==
  IF kernel[sock[c].sockfd].conn = "refused" THEN Go(c, "close") /\ UNCHANGED sock
  ELSE Connected(c)

\* Mutant: the coroutine does not look whether its timeout woke it.
WokenBlind(c) ==
  /\ pc[c] = "woken" /\ Outcome(c)
  /\ UNCHANGED <<kernel, contexts, ioVars, want, aborted>>

\* The timer is cancelled; tinfo->cancelled, then SO_ERROR decide.
Woken(c) ==
  /\ pc[c] = "woken"
  /\ IF cancelled[c] THEN Go(c, "close") /\ UNCHANGED sock ELSE Outcome(c)
  /\ cancelled' = [cancelled EXCEPT ![c] = FALSE]
  /\ UNCHANGED <<kernel, contexts, fd, goal, want, aborted>>

\* AddEvent fails: the code goes on without waiting.
NoEvent(c) ==
  /\ pc[c] = "event" /\ Outcome(c)
  /\ goal' = [goal EXCEPT ![c] = "noevent"]
  /\ cancelled' = [cancelled EXCEPT ![c] = FALSE]
  /\ UNCHANGED <<kernel, contexts, fd, want, aborted>>

-----------------------------------------------------------------------------
(* fcntl(), ioctl() and setsockopt() on a socket.                          *)

FcntlSetFl(c, nb) ==
  \/ /\ Settable(c)
     /\ contexts' = [contexts EXCEPT ![sock[c].sockfd].user = nb]
     /\ kernel' = [kernel EXCEPT ![sock[c].sockfd].nonblock = SetFl(Context(c), nb)]
     /\ want' = [want EXCEPT ![c].nonblock = nb, ![c].ioctl = FALSE]
     /\ UNCHANGED <<sock, pc, ioVars, aborted>>
  \/ NoFd(c, "fcntl")

\* ioctl passes the argument on to the kernel as it is.
IoctlFionbio(c, nb) ==
  \/ /\ Settable(c)
     /\ contexts' = [contexts EXCEPT ![sock[c].sockfd].user = nb]
     /\ kernel' = [kernel EXCEPT ![sock[c].sockfd].nonblock = nb]
     /\ want' = [want EXCEPT ![c].nonblock = nb, ![c].ioctl = TRUE]
     /\ UNCHANGED <<sock, pc, ioVars, aborted>>
  \/ NoFd(c, "ioctl")

\* Socket::setRecvTimeout and setSendTimeout; asking for a timeout changes nothing,
\* but without a descriptor it fails the assertion just as well.
SetTimeout(c, type, ms) ==
  \/ /\ Settable(c)
     /\ contexts' = [contexts EXCEPT ![sock[c].sockfd] = setTimeout(@, type, Timeval(ms))]
     /\ want' = [want EXCEPT ![c] = IF type = "recv" THEN [@ EXCEPT !.recv = ms]
                                                     ELSE [@ EXCEPT !.send = ms]]
     /\ UNCHANGED <<kernel, sock, pc, ioVars, aborted>>
  \/ NoFd(c, "timeout")

-----------------------------------------------------------------------------
(* close(): Socket::close and the hook's close.                            *)

\* Mutant: a Socket that was closed is closed again.
CloseDoneNever(s) == FALSE

\* The early return of Socket::close
CloseDone(s) == s.state = "CLOSE" /\ s.sockfd = -1

\* Socket::close called by the program, or by ~Socket (then the object ends).
Close(c, how) ==
  /\ pc[c] = "idle"
  /\ CASE CloseDone(sock[c]) ->
            /\ how = "destroy" /\ Go(c, "none")
            /\ UNCHANGED <<kernel, contexts, sock, ioVars, want, aborted>>
       [] ~CloseDone(sock[c]) /\ sock[c].sockfd = -1 -> Abort(c, "close")
       [] ~CloseDone(sock[c]) /\ sock[c].sockfd # -1 ->
            /\ goal' = [goal EXCEPT ![c] = how] /\ Go(c, "close")
            /\ UNCHANGED <<kernel, contexts, sock, fd, cancelled, want, aborted>>

\* The hook's close up to delFd
CloseDelFd(c) ==
  /\ pc[c] = "close"
  /\ contexts' = delFd(contexts, sock[c].sockfd)
  /\ Go(c, "closeFd")
  /\ UNCHANGED <<kernel, sock, ioVars, want, aborted>>

\* Mutant: Socket::close does not forget the descriptor.
Forgotten(s) == [s EXCEPT !.state = "CLOSE"]

\* Socket::close after ::close
ClosedSock(s) == [sockfd |-> -1, state |-> "CLOSE"]

\* close_origin
CloseOrigin(c) ==
  /\ pc[c] = "closeFd"
  /\ kernel' = [kernel EXCEPT ![sock[c].sockfd] = Null]
  /\ sock' = [sock EXCEPT ![c] = ClosedSock(@)]
  /\ Go(c, IF goal[c] = "destroy" THEN "none" ELSE "idle")
  /\ goal' = [goal EXCEPT ![c] = "none"]
  /\ want' = [want EXCEPT ![c] = Defaults]
  /\ UNCHANGED <<contexts, fd, cancelled, aborted>>

Step(c) ==
  \/ Create(c) \/ AddFd(c) \/ Bind(c)
  \/ \E what \in {"bind", "connect"} : SocketOrigin(c, what)
  \/ \E d \in Cos : AcceptOrigin(c, d)
  \/ AcceptAdd(c) \/ AcceptInit(c)
  \/ ConnectBound(c) \/ ConnectOrigin(c) \/ AddEvent(c) \/ ConnectTimeout(c)
  \/ Wake(c) \/ Woken(c) \/ NoEvent(c)
  \/ \E nb \in BOOLEAN : FcntlSetFl(c, nb) \/ IoctlFionbio(c, nb)
  \/ \E type \in {"recv", "send"}, ms \in Timeouts : SetTimeout(c, type, ms)
  \/ \E how \in {"close", "destroy"} : Close(c, how)
  \/ CloseDelFd(c) \/ CloseOrigin(c)

Next == aborted = {} /\ (\/ \E c \in Cos : Step(c)
                         \/ \E i \in Fds : Answer(i))

Spec == Init /\ [][Next]_vars

-----------------------------------------------------------------------------
(* Properties.                                                             *)

Owns(c) == sock[c].sockfd # -1 /\ pc[c] # "closeFd"

(* A Socket's descriptor is open, is the Socket's own, and is known to the *)
(* FdManager with a context made for it, although numbers are reused by    *)
(* other threads while close() and socket() are half done.                 *)
Tracked ==
  \A c \in Cos : Owns(c) =>
    /\ kernel[sock[c].sockfd] # Null /\ kernel[sock[c].sockfd].by = c
    /\ Context(c) # Null /\ Context(c).by = c

(* A Socket keeps the settings its owner made, and only those: nothing of  *)
(* an earlier socket with its number, and milliseconds as they were given. *)
SettingsKept ==
  \A c \in Cos : Owns(c) /\ Context(c) # Null =>
    /\ Context(c).recv = want[c].recv /\ Context(c).send = want[c].send
    /\ GetFl(Context(c), kernel[sock[c].sockfd].nonblock) = want[c].nonblock

(* The kernel never blocks a worker in a call on a Socket, unless its      *)
(* owner cleared the flag with ioctl(FIONBIO).                             *)
WorkerNotBlocked ==
  \A c \in Cos : Owns(c) =>
    \/ kernel[sock[c].sockfd].nonblock
    \/ want[c].ioctl /\ ~want[c].nonblock

(* connect returns success only when the connection stands, whatever the   *)
(* order of the answer, the timeout and the wake-up; the one exception is  *)
(* a connection whose event could not be registered.                       *)
ConnectHonest ==
  \A c \in Cos : Owns(c) /\ sock[c].state = "CONNECTED" =>
    kernel[sock[c].sockfd].conn = "ok" \/ goal[c] = "noevent" \/ pc[c] = "close"

(* The assertion of getFdContext fails only in a call on a Socket without  *)
(* a descriptor, whatever other threads do with the numbers: never for a   *)
(* connection that accept() got, in connect() only at the limit of open    *)
(* files, and in close() or ~Socket only if the Socket never had one:      *)
(* closing a Socket and then destroying it is safe.                        *)
AbortOnlyWithoutFd ==
  \A a \in aborted :
    /\ pc[a.by] = "idle" /\ sock[a.by].sockfd = -1
    /\ a.call = "connect" => Free = {}
    /\ a.call = "close" => sock[a.by].state = "INIT"
=============================================================================
