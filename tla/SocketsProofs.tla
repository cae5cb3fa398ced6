--------------------------- MODULE SocketsProofs ----------------------------
(***************************************************************************)
(* Proofs about modules Sockets and FdContext.  The inductive invariant    *)
(* names the holder of every descriptor number, also of one that is in     *)
(* flight between the kernel and the FdManager: the coroutine inside       *)
(* socket(), the one inside accept() with the coroutine it accepts for,    *)
(* and the owner of a Socket until close_origin has returned.              *)
(***************************************************************************)
EXTENDS Sockets, SeqLemmas

Labels == {"none", "idle", "add", "bind", "accepted", "acceptAdd", "acceptInit", "connect",
           "event", "wait", "woken", "close", "closeFd"}
Goals == {"none", "bind", "connect", "noevent", "close", "destroy"}
Calls == {"connect", "accept", "fcntl", "ioctl", "timeout", "close"}
Conns == {"none", "ok", "refused", "progress"}
Entries == [by : Cos, nonblock : BOOLEAN, conn : Conns]
FdContexts == [by : Cos, user : BOOLEAN, sys : BOOLEAN, recv : Int, send : Int]

\* fdcontexts_ is a vector: its indices are 0 up to its size.
IsVector(cs) == \E n \in Nat : cs \in [0 .. n - 1 -> FdContexts \cup {Null}]

Typed ==
  /\ kernel \in [Fds -> Entries \cup {Null}]
  /\ IsVector(contexts)
  /\ sock \in [Cos -> [sockfd : Fds \cup {-1}, state : {"INIT", "LISTEN", "CONNECTED", "CLOSE"}]]
  /\ pc \in [Cos -> Labels]
  /\ fd \in [Cos -> Fds \cup {-1}]
  /\ goal \in [Cos -> Goals]
  /\ cancelled \in [Cos -> BOOLEAN]
  /\ want \in [Cos -> [nonblock : BOOLEAN, recv : Int, send : Int, ioctl : BOOLEAN]]
  /\ aborted \subseteq [by : Cos, call : Calls]

ContextOf(i) == getFdContext(contexts, i)
Mine(c, i) == i \in Fds /\ kernel[i] # Null /\ kernel[i].by = c
Accepting(c) == pc[c] \in {"acceptAdd", "acceptInit"}

\* Where the Socket of c stands in the calls that make and end it.
Stage(c) ==
  /\ pc[c] \in {"none", "add", "accepted"} => sock[c].sockfd = -1
  /\ pc[c] \in {"bind", "connect", "event", "wait", "woken", "close", "closeFd"} =>
       sock[c].sockfd # -1
  /\ sock[c].sockfd = -1 => sock[c].state \in {"INIT", "CLOSE"}
  /\ pc[c] \in {"bind", "connect", "event", "wait", "woken"} => sock[c].state \in {"INIT", "CLOSE"}
  /\ pc[c] = "add" => Mine(c, fd[c]) /\ goal[c] \in {"bind", "connect"}
  /\ sock[c].sockfd # -1 => Mine(c, sock[c].sockfd)

\* The FdManager and the kernel hold for c what c asked for.
Kept(i, c) ==
  /\ ContextOf(i) # Null /\ ContextOf(i).by = c /\ ContextOf(i).sys
  /\ ContextOf(i).recv = want[c].recv /\ ContextOf(i).send = want[c].send
  /\ ContextOf(i).user = want[c].nonblock
  /\ kernel[i].nonblock \/ (want[c].ioctl /\ ~want[c].nonblock)

\* A connection that has been reported, or is about to be, has been answered.
Honest(i, c) ==
  /\ pc[c] \in {"event", "wait", "woken"} => kernel[i].conn # "none"
  /\ pc[c] = "woken" /\ ~cancelled[c] => kernel[i].conn # "progress"
  /\ sock[c].state = "CONNECTED" =>
       kernel[i].conn = "ok" \/ goal[c] = "noevent" \/ pc[c] = "close"

Own(c) == Owns(c) => Kept(sock[c].sockfd, c) /\ Honest(sock[c].sockfd, c)

\* A descriptor inside accept() belongs to a coroutine that has not started yet.
Guest(c) ==
  Accepting(c) =>
    /\ fd[c] \in Fds /\ kernel[fd[c]] # Null
    /\ pc[kernel[fd[c]].by] = "accepted"
    /\ kernel[fd[c]].conn = "ok"
    /\ pc[c] = "acceptInit" => /\ kernel[fd[c]].nonblock
                               /\ ContextOf(fd[c]) = New(kernel[fd[c]].by)

\* Two coroutines never accept for the same third.
OneHost ==
  \A c, d \in Cos : Accepting(c) /\ Accepting(d) /\ kernel[fd[c]].by = kernel[fd[d]].by => c = d

IInv ==
  /\ Typed
  /\ \A c \in Cos : Stage(c) /\ Own(c) /\ Guest(c)
  /\ OneHost
  /\ AbortOnlyWithoutFd


-----------------------------------------------------------------------------
(* Descriptor numbers, contexts and timeouts *)

\* What FdAssumption says of numbers and of the null context.
LEMMA NumbersAssumed ==
  /\ Fds \subseteq Nat /\ -1 \notin Fds /\ \A i \in Fds : i \in Nat /\ 2 <= i
  /\ Null \notin Entries /\ Null \notin FdContexts
  BY FdAssumption DEF Fds, Entries, FdContexts, Conns

\* addFd makes a context.
LEMMA NewIsContext == ASSUME NEW b \in Cos PROVE New(b) \in FdContexts /\ New(b) # Null
<1>1. New(b) \in FdContexts
  BY DEF New, FdContexts
<1> QED
  BY <1>1, NumbersAssumed

\* The kernel's new socket is its opener's.
LEMMA OpenedIsEntry ==
  ASSUME NEW b \in Cos
  PROVE  Opened(b) \in Entries /\ Opened(b) # Null /\ Opened(b).by = b
<1>1. Opened(b) \in Entries /\ Opened(b).by = b
  BY DEF Opened, Entries, Conns
<1> QED
  BY <1>1, NumbersAssumed

\* The kernel gives out a number that is free.
LEMMA LowestIsFree == ASSUME Free # {} PROVE Min(Free) \in Free
<1>1. Free \subseteq Nat
  BY NumbersAssumed DEF Free
<1>2. \E x \in Free : \A y \in Free : x <= y
  BY <1>1, LeastNatural
<1> QED
  BY <1>2 DEF Min

\* Milliseconds survive the conversion to a timeval and back, also negative ones.
LEMMA MillisOfTimeval == ASSUME NEW ms \in Int PROVE Millis(Timeval(ms)) = ms
<1> DEFINE r == Rem(ms, 1000)
<1>1. r \in Int /\ Quot(ms, 1000) \in Int /\ ms = Quot(ms, 1000) * 1000 + r
  BY DEF Rem, Quot
<1> HIDE DEF r
<1>2. Quot(r * 1000, 1000) = r
  BY <1>1 DEF Quot
<1>3. Millis(Timeval(ms)) = Quot(ms, 1000) * 1000 + Quot(r * 1000, 1000)
  BY DEF Millis, Timeval, r
<1> QED
  BY <1>1, <1>2, <1>3

\* addFd sets one context and loses none, whether or not it resizes.
LEMMA AddFdContexts ==
  ASSUME NEW cs, IsVector(cs), NEW i \in Fds, NEW b \in Cos
  PROVE  /\ IsVector(addFd(cs, i, b))
         /\ \A j : getFdContext(addFd(cs, i, b), j) = IF j = i THEN New(b) ELSE getFdContext(cs, j)
<1>1. i \in Nat /\ 2 <= i
  BY NumbersAssumed
<1>2. PICK n \in Nat : cs \in [0 .. n - 1 -> FdContexts \cup {Null}]
  BY DEF IsVector
<1>3. New(b) \in FdContexts
  BY DEF New, FdContexts
<1>4. CASE i \in DOMAIN cs
  <2>1. addFd(cs, i, b) = [cs EXCEPT ![i] = New(b)]
    BY <1>4 DEF addFd, Resized
  <2> QED
    BY <1>2, <1>3, <1>4, <2>1 DEF IsVector, getFdContext
<1>5. CASE i \notin DOMAIN cs
  <2> DEFINE m == (3 * i) \div 2
             r == [j \in 0 .. m - 1 |-> getFdContext(cs, j)]
  <2>1. m \in Nat /\ i \in 0 .. m - 1 /\ n <= m
    BY <1>1, <1>2, <1>5
  <2>2. addFd(cs, i, b) = [r EXCEPT ![i] = New(b)]
    BY <1>5 DEF addFd, Resized
  <2> HIDE DEF m
  <2>3. r \in [0 .. m - 1 -> FdContexts \cup {Null}]
    BY <1>2 DEF getFdContext
  <2>4. \A j : getFdContext(r, j) = getFdContext(cs, j)
    <3>1. \A j \in 0 .. n - 1 : j \in 0 .. m - 1
      BY <2>1
    <3> QED
      BY <1>2, <3>1 DEF getFdContext
  <2> HIDE DEF r
  <2>5. IsVector([r EXCEPT ![i] = New(b)])
    BY <2>1, <2>3, <1>3 DEF IsVector
  <2>6. \A j : getFdContext([r EXCEPT ![i] = New(b)], j)
                 = IF j = i THEN New(b) ELSE getFdContext(r, j)
    BY <2>1, <2>3 DEF getFdContext
  <2> QED
    BY <2>2, <2>4, <2>5, <2>6
<1> QED
  BY <1>4, <1>5

\* The same for delFd.
LEMMA DelFdContexts ==
  ASSUME NEW cs, IsVector(cs), NEW i
  PROVE  /\ IsVector(delFd(cs, i))
         /\ \A j : j # i => getFdContext(delFd(cs, i), j) = getFdContext(cs, j)
<1>1. PICK n \in Nat : cs \in [0 .. n - 1 -> FdContexts \cup {Null}]
  BY DEF IsVector
<1> QED
  BY <1>1 DEF IsVector, getFdContext, delFd

-----------------------------------------------------------------------------
(* The coroutines and descriptors that a step leaves alone *)

Untouched(e) ==
  /\ sock'[e] = sock[e] /\ pc'[e] = pc[e] /\ fd'[e] = fd[e] /\ goal'[e] = goal[e]
  /\ cancelled'[e] = cancelled[e] /\ want'[e] = want[e]
SameFd(i) == kernel'[i] = kernel[i] /\ ContextOf(i)' = ContextOf(i)

\* A step of the coroutines in T changes only descriptors that are theirs.
Within(T) ==
  /\ \A e \in Cos \ T : Untouched(e)
  /\ \A i \in Fds : kernel[i] # Null /\ kernel[i].by \notin T => SameFd(i)

\* Who is not concerned by a step keeps its part of the invariant.
LEMMA Others ==
  ASSUME IInv, NEW T \in SUBSET Cos, Within(T), NEW e \in Cos \ T,
         Accepting(e) => kernel[fd[e]].by \notin T
  PROVE  /\ Stage(e)' /\ Own(e)' /\ Guest(e)'
         /\ Accepting(e)' => Accepting(e) /\ kernel'[fd'[e]].by = kernel[fd[e]].by
<1>1. Typed /\ Stage(e) /\ Own(e) /\ Guest(e) /\ Untouched(e)
  BY DEF IInv, Within
<1>2. sock[e].sockfd \in Fds \cup {-1} /\ fd[e] \in Fds \cup {-1}
  BY <1>1 DEF Typed
<1>3. sock[e].sockfd # -1 => SameFd(sock[e].sockfd) /\ sock[e].sockfd \in Fds
  BY <1>1, <1>2 DEF Stage, Mine, Within
<1>4. pc[e] = "add" => SameFd(fd[e])
  BY <1>1, <1>2 DEF Stage, Mine, Within
<1>5. Stage(e)'
  BY <1>1, <1>3, <1>4 DEF Untouched, SameFd, Stage, Mine
<1>6. Own(e)'
  BY <1>1, <1>3 DEF Untouched, SameFd, Own, Owns, Kept, Honest
<1>7. Accepting(e) => /\ SameFd(fd[e]) /\ kernel[fd[e]].by \in Cos
                      /\ pc'[kernel[fd[e]].by] = pc[kernel[fd[e]].by]
  <2> SUFFICES ASSUME Accepting(e)
               PROVE  /\ SameFd(fd[e]) /\ kernel[fd[e]].by \in Cos
                      /\ pc'[kernel[fd[e]].by] = pc[kernel[fd[e]].by]
    OBVIOUS
  <2>1. fd[e] \in Fds /\ kernel[fd[e]] # Null
    BY <1>1 DEF Guest
  <2>2. kernel[fd[e]].by \in Cos
    BY <1>1, <2>1 DEF Typed, Entries
  <2> QED
    BY <2>1, <2>2 DEF Within, Untouched
<1>8. Guest(e)'
  BY <1>1, <1>7 DEF Untouched, SameFd, Guest, Accepting
<1>9. Accepting(e)' => Accepting(e) /\ kernel'[fd'[e]].by = kernel[fd[e]].by
  BY <1>1, <1>7 DEF Untouched, SameFd, Accepting
<1> QED
  BY <1>5, <1>6, <1>8, <1>9

\* What is left to show of a step of one coroutine that is not inside accept().
LEMMA OneCoroutine ==
  ASSUME IInv, NEW c \in Cos, Within({c}), pc[c] # "accepted", ~Accepting(c)', aborted' = {},
         Typed', Stage(c)', Own(c)'
  PROVE  IInv'
<1>1. ASSUME NEW e \in Cos \ {c}
      PROVE  /\ Stage(e)' /\ Own(e)' /\ Guest(e)'
             /\ Accepting(e)' => Accepting(e) /\ kernel'[fd'[e]].by = kernel[fd[e]].by
  <2>1. Accepting(e) => kernel[fd[e]].by \notin {c}
    BY DEF IInv, Guest
  <2> QED
    BY <2>1, Others
<1>2. Guest(c)'
  BY DEF Guest
<1>3. OneHost'
  BY <1>1 DEF IInv, OneHost
<1> QED
  BY <1>1, <1>2, <1>3 DEF IInv, AbortOnlyWithoutFd


-----------------------------------------------------------------------------
(* Steps that change no descriptor: the Socket's owner moves on *)

\* Nothing of the kernel or the FdManager changes, and only c's own variables do.
LEMMA Moves ==
  ASSUME IInv, NEW c \in Cos, UNCHANGED <<kernel, contexts>>,
         \A e \in Cos \ {c} : Untouched(e)
  PROVE  Within({c})
  BY DEF Within, SameFd, ContextOf

\* A Socket is constructed; there is no descriptor yet.
LEMMA CreateStep == ASSUME IInv, aborted = {}, NEW c \in Cos, Create(c) PROVE IInv'
<1> USE DEF Create, Go, ioVars
<1>1. Typed'
  BY DEF IInv, Typed, Labels, NoSock
<1>2. /\ pc[c] = "none" /\ pc'[c] = "idle" /\ sock'[c] = NoSock /\ aborted' = {}
      /\ \A e \in Cos \ {c} : Untouched(e)
  BY DEF IInv, Typed, Untouched
<1>3. Stage(c)' /\ Own(c)'
  BY <1>2 DEF Stage, Own, Owns, NoSock
<1>4. Within({c})
  BY <1>2, Moves
<1> QED
  BY <1>1, <1>2, <1>3, <1>4, OneCoroutine DEF Accepting

\* bind() and listen() after the socket was made.
LEMMA BindStep == ASSUME IInv, aborted = {}, NEW c \in Cos, Bind(c) PROVE IInv'
<1> USE DEF Bind, Go, ioVars
<1>1. PICK s \in {sock[c].state, "LISTEN"} : sock' = [sock EXCEPT ![c].state = s]
  OBVIOUS
<1>2. sock[c] \in [sockfd : Fds \cup {-1}, state : {"INIT", "LISTEN", "CONNECTED", "CLOSE"}]
  BY DEF IInv, Typed
<1>3. Typed'
  BY <1>1, <1>2 DEF IInv, Typed, Labels
<1>4. /\ pc[c] = "bind" /\ pc'[c] = "idle" /\ aborted' = {}
      /\ sock'[c].sockfd = sock[c].sockfd /\ sock'[c].state = s
      /\ \A e \in Cos \ {c} : Untouched(e)
      /\ cancelled' = cancelled /\ goal' = goal /\ want' = want
  BY <1>1, <1>2 DEF IInv, Typed, Untouched
<1>5. Stage(c) /\ Own(c) /\ sock[c].state \in {"INIT", "CLOSE"}
  BY <1>4 DEF IInv, Stage
<1>6. Stage(c)'
  BY <1>4, <1>5 DEF Stage, Mine
<1>7. Own(c)'
  BY <1>4, <1>5 DEF Own, Owns, Kept, Honest, ContextOf
<1>8. Within({c})
  BY <1>4, Moves
<1> QED
  BY <1>3, <1>4, <1>6, <1>7, <1>8, OneCoroutine DEF Accepting

\* connect on a bound Socket, AddEvent, a timeout, a wake-up, and close() up to
\* the hook: pc, goal and cancelled change, the Socket does not.
LEMMA WaitStep ==
  ASSUME IInv, aborted = {}, NEW c \in Cos,
         ConnectBound(c) \/ AddEvent(c) \/ ConnectTimeout(c) \/ Wake(c)
  PROVE  IInv'
<1> USE DEF Go, ioVars
<1>1. Typed'
  <2>1. CASE ConnectTimeout(c)
    BY <2>1 DEF ConnectTimeout, IInv, Typed, Labels
  <2>2. CASE ConnectBound(c) \/ AddEvent(c) \/ Wake(c)
    BY <2>2 DEF ConnectBound, AddEvent, Wake, IInv, Typed, Labels
  <2> QED
    BY <2>1, <2>2
<1>2. UNCHANGED <<kernel, contexts, sock, fd, goal, want, aborted>>
  BY DEF ConnectBound, AddEvent, ConnectTimeout, Wake
<1>3. \A e \in Cos \ {c} : Untouched(e)
  <2>1. \A e \in Cos \ {c} : pc'[e] = pc[e] /\ cancelled'[e] = cancelled[e]
    BY DEF ConnectBound, AddEvent, ConnectTimeout, Wake, IInv, Typed
  <2> QED
    BY <1>2, <2>1 DEF Untouched
<1>4. \/ /\ pc[c] = "idle" /\ pc'[c] = "connect" /\ sock[c].sockfd # -1
         /\ sock[c].state \in {"INIT", "CLOSE"}
      \/ pc[c] = "event" /\ pc'[c] = "wait"
      \/ pc[c] \in {"event", "wait", "woken"} /\ cancelled'[c] /\ pc'[c] \in {pc[c], "woken"}
      \/ pc[c] = "wait" /\ pc'[c] = "woken" /\ kernel[sock[c].sockfd].conn # "progress"
  BY DEF ConnectBound, AddEvent, ConnectTimeout, Wake, Using, IInv, Typed
<1>5. Stage(c) /\ Own(c)
  BY DEF IInv
<1>6. Stage(c)'
  BY <1>2, <1>4, <1>5 DEF Stage, Mine
<1>7. Own(c)'
  <2>1. Owns(c)
    BY <1>4, <1>5 DEF Stage, Owns
  <2>2. Kept(sock[c].sockfd, c)'
    BY <2>1, <1>2, <1>5 DEF Own, Kept, ContextOf
  <2>3. Honest(sock[c].sockfd, c)'
    BY <2>1, <1>2, <1>4, <1>5 DEF Own, Honest, Stage
  <2> QED
    BY <2>2, <2>3 DEF Own
<1>8. Within({c})
  BY <1>2, <1>3, Moves
<1> QED
  BY <1>1, <1>2, <1>4, <1>6, <1>7, <1>8, OneCoroutine DEF Accepting

\* The coroutine looks at its timeout and at SO_ERROR, or could not wait.
LEMMA OutcomeStep ==
  ASSUME IInv, aborted = {}, NEW c \in Cos, Woken(c) \/ NoEvent(c)
  PROVE  IInv'
<1> USE DEF Go, Outcome, Connected
<1> DEFINE i == sock[c].sockfd
<1>0. sock[c] \in [sockfd : Fds \cup {-1}, state : {"INIT", "LISTEN", "CONNECTED", "CLOSE"}]
  BY DEF IInv, Typed
<1>1. UNCHANGED <<kernel, contexts, fd, want, aborted>>
  BY DEF Woken, NoEvent
<1>2. /\ goal' \in [Cos -> Goals] /\ \A e \in Cos \ {c} : goal'[e] = goal[e]
      /\ cancelled' \in [Cos -> BOOLEAN] /\ \A e \in Cos \ {c} : cancelled'[e] = cancelled[e]
  BY DEF Woken, NoEvent, IInv, Typed, Goals
<1>3. \/ pc' = [pc EXCEPT ![c] = "close"] /\ sock' = sock
      \/ /\ pc' = [pc EXCEPT ![c] = "idle"] /\ sock' = [sock EXCEPT ![c].state = "CONNECTED"]
         /\ kernel[i].conn # "refused"
         /\ (pc[c] = "woken" /\ ~cancelled[c]) \/ goal'[c] = "noevent"
  BY DEF Woken, NoEvent, IInv, Typed
<1>4. pc[c] \in {"event", "woken"}
  BY DEF Woken, NoEvent
<1>5. Typed'
  <2>1. pc' \in [Cos -> Labels]
    BY <1>3 DEF IInv, Typed, Labels
  <2>2. sock' \in [Cos -> [sockfd : Fds \cup {-1}, state : {"INIT", "LISTEN", "CONNECTED", "CLOSE"}]]
    BY <1>0, <1>3 DEF IInv, Typed
  <2> QED
    BY <1>1, <1>2, <2>1, <2>2 DEF IInv, Typed
<1>6. \A e \in Cos \ {c} : Untouched(e)
  BY <1>1, <1>2, <1>3 DEF Untouched, IInv, Typed
<1>7. Stage(c) /\ Own(c) /\ i # -1 /\ i \in Fds /\ Owns(c)
  BY <1>0, <1>4 DEF IInv, Stage, Owns
<1>8. /\ sock'[c].sockfd = i
      /\ \/ pc'[c] = "close" /\ sock'[c].state = sock[c].state
         \/ /\ pc'[c] = "idle" /\ sock'[c].state = "CONNECTED" /\ kernel[i].conn # "refused"
            /\ (pc[c] = "woken" /\ ~cancelled[c]) \/ goal'[c] = "noevent"
  BY <1>0, <1>3 DEF IInv, Typed
<1>9. Stage(c)'
  BY <1>1, <1>7, <1>8 DEF Stage, Mine
<1>10. Own(c)'
  <2>1. Kept(i, c) /\ Honest(i, c)
    BY <1>7 DEF Own
  <2>2. kernel[i] \in Entries
    BY <1>7 DEF Stage, Mine, IInv, Typed
  <2>3. Kept(i, c)'
    BY <1>1, <1>8, <2>1 DEF Kept, ContextOf
  <2>4. (pc[c] = "woken" /\ ~cancelled[c]) /\ kernel[i].conn # "refused" => kernel[i].conn = "ok"
    BY <2>1, <2>2 DEF Honest, Entries, Conns
  <2>5. Honest(i, c)'
    BY <1>1, <1>8, <2>4 DEF Honest
  <2> QED
    BY <1>8, <2>3, <2>5 DEF Own
<1>11. Within({c})
  BY <1>1, <1>6, Moves
<1> QED
  BY <1>1, <1>4, <1>5, <1>8, <1>9, <1>10, <1>11, OneCoroutine DEF Accepting


-----------------------------------------------------------------------------
(* Steps of the owner that change its descriptor *)

\* An assertion fails only where there was no descriptor.
LEMMA AbortStep ==
  ASSUME IInv, NEW c \in Cos, NEW what \in Calls, Abort(c, what),
         pc[c] = "idle", sock[c].sockfd = -1,
         what = "connect" => Free = {}, what = "close" => sock[c].state = "INIT"
  PROVE  IInv'
<1> USE DEF Abort, ioVars
<1>1. Typed'
  BY DEF IInv, Typed
<1>2. AbortOnlyWithoutFd'
  <2>1. \A a \in aborted' : a.by = c /\ a.call = what
    OBVIOUS
  <2>2. Free' = Free
    BY DEF Free
  <2> QED
    BY <2>1, <2>2 DEF AbortOnlyWithoutFd
<1>3. \A e \in Cos : Stage(e)' /\ Own(e)' /\ Guest(e)'
  BY DEF IInv, Stage, Mine, Own, Owns, Kept, Honest, Guest, Accepting, ContextOf
<1>4. OneHost'
  BY DEF IInv, OneHost, Accepting
<1> QED
  BY <1>1, <1>2, <1>3, <1>4 DEF IInv

\* accept, fcntl, ioctl and the timeouts on a Socket without a descriptor.
LEMMA NoFdStep ==
  ASSUME IInv, NEW c \in Cos, sock[c].sockfd = -1,
         \/ \E d \in Cos : AcceptOrigin(c, d)
         \/ \E nb \in BOOLEAN : FcntlSetFl(c, nb) \/ IoctlFionbio(c, nb)
         \/ \E type \in {"recv", "send"}, ms \in Timeouts : SetTimeout(c, type, ms)
  PROVE  IInv'
<1>1. sock[c].state # "LISTEN" /\ ~Settable(c)
  BY DEF IInv, Stage, Settable, Using
<1>2. PICK what \in {"accept", "fcntl", "ioctl", "timeout"} : NoFd(c, what)
  BY <1>1 DEF AcceptOrigin, FcntlSetFl, IoctlFionbio, SetTimeout
<1> QED
  BY <1>2, AbortStep DEF NoFd, Calls

\* socket_origin: a free number has no holder.
LEMMA SocketOriginStep ==
  ASSUME IInv, aborted = {}, NEW c \in Cos, NEW what \in {"bind", "connect"}, SocketOrigin(c, what)
  PROVE  IInv'
<1> USE DEF SocketOrigin, Go
<1>1. CASE Free = {}
  <2>1. NoFd(c, "connect")
    BY <1>1
  <2> QED
    BY <1>1, <2>1, AbortStep DEF NoFd, Calls
<1>2. CASE Free # {}
  <2> DEFINE j == Min(Free)
  <2>1. /\ Free # {} /\ pc[c] = "idle" /\ sock[c].sockfd = -1
        /\ fd' = [fd EXCEPT ![c] = j] /\ kernel' = [kernel EXCEPT ![j] = Opened(c)]
        /\ goal' = [goal EXCEPT ![c] = what] /\ pc' = [pc EXCEPT ![c] = "add"]
        /\ UNCHANGED <<contexts, sock, cancelled, want, aborted>>
    BY <1>2
  <2>2. j \in Fds /\ kernel[j] = Null
    BY <2>1, LowestIsFree DEF Free
  <2> HIDE DEF j
  <2>3. Opened(c) \in Entries /\ Opened(c).by = c /\ Opened(c) # Null
    BY OpenedIsEntry
  <2>4. Typed'
    BY <2>1, <2>2, <2>3 DEF IInv, Typed, Labels, Goals
  <2>5. Within({c})
    <3>1. \A e \in Cos \ {c} : Untouched(e)
      BY <2>1 DEF IInv, Typed, Untouched
    <3>2. \A i \in Fds : kernel[i] # Null => SameFd(i)
      BY <2>1, <2>2 DEF IInv, Typed, SameFd, ContextOf
    <3> QED
      BY <3>1, <3>2 DEF Within
  <2>6. /\ pc'[c] = "add" /\ sock'[c].sockfd = -1 /\ fd'[c] = j /\ kernel'[j] = Opened(c)
        /\ goal'[c] = what /\ sock'[c] = sock[c]
    BY <2>1, <2>2 DEF IInv, Typed
  <2>7. Stage(c)'
    BY <2>2, <2>3, <2>6 DEF IInv, Stage, Mine
  <2>8. Own(c)'
    BY <2>6 DEF Own, Owns
  <2> QED
    BY <2>1, <2>4, <2>5, <2>6, <2>7, <2>8, OneCoroutine DEF Accepting
<1> QED
  BY <1>1, <1>2

\* addFd: the descriptor in flight becomes the Socket's.
LEMMA AddFdStep == ASSUME IInv, aborted = {}, NEW c \in Cos, AddFd(c) PROVE IInv'
<1> USE DEF AddFd, Added, Go
<1>0. PICK i : i = fd[c]
  OBVIOUS
<1>1. pc[c] = "add" /\ Mine(c, i) /\ goal[c] \in {"bind", "connect"} /\ sock[c].sockfd = -1
  BY <1>0 DEF IInv, Stage
<1>2. i \in Fds /\ kernel[i] \in Entries /\ i # -1
  BY <1>1, NumbersAssumed DEF Mine, IInv, Typed
<1>3. sock[c] \in [sockfd : Fds \cup {-1}, state : {"INIT", "LISTEN", "CONNECTED", "CLOSE"}]
  BY DEF IInv, Typed
<1>4. /\ IsVector(contexts')
      /\ \A j : ContextOf(j)' = IF j = i THEN New(c) ELSE ContextOf(j)
  BY <1>0, <1>2, AddFdContexts DEF IInv, Typed, ContextOf
<1>5. /\ kernel' = [kernel EXCEPT ![i] = [kernel[i] EXCEPT !.nonblock = TRUE]]
      /\ sock' = [sock EXCEPT ![c] = [sock[c] EXCEPT !.sockfd = i]]
      /\ want' = [want EXCEPT ![c] = Defaults] /\ pc' = [pc EXCEPT ![c] = goal[c]]
      /\ fd' = [fd EXCEPT ![c] = -1] /\ goal' = [goal EXCEPT ![c] = "none"]
      /\ UNCHANGED <<cancelled, aborted>>
  BY <1>0
<1> DEFINE k == [kernel[i] EXCEPT !.nonblock = TRUE]
<1>6. k \in Entries /\ k.by = kernel[i].by /\ k.nonblock /\ k # Null
  BY <1>2, NumbersAssumed DEF Entries
<1> HIDE DEF k
<1>7. Typed'
  <2>1. kernel' \in [Fds -> Entries \cup {Null}]
    BY <1>5, <1>6 DEF IInv, Typed, k
  <2>2. sock' \in [Cos -> [sockfd : Fds \cup {-1}, state : {"INIT", "LISTEN", "CONNECTED", "CLOSE"}]]
    BY <1>2, <1>3, <1>5, SMTT(60) DEF IInv, Typed
  <2>3. want' \in [Cos -> [nonblock : BOOLEAN, recv : Int, send : Int, ioctl : BOOLEAN]]
    BY <1>5 DEF IInv, Typed, Defaults
  <2>4. pc' \in [Cos -> Labels] /\ fd' \in [Cos -> Fds \cup {-1}] /\ goal' \in [Cos -> Goals]
    BY <1>1, <1>5 DEF IInv, Typed, Labels, Goals
  <2> QED
    BY <1>4, <1>5, <2>1, <2>2, <2>3, <2>4 DEF IInv, Typed
<1>8. Within({c})
  <2>1. \A e \in Cos \ {c} : Untouched(e)
    BY <1>5 DEF IInv, Typed, Untouched
  <2>2. \A j \in Fds : j # i => SameFd(j)
    BY <1>2, <1>4, <1>5 DEF IInv, Typed, SameFd
  <2> QED
    BY <1>1, <2>1, <2>2 DEF Within, Mine
<1>9. /\ pc'[c] = goal[c] /\ sock'[c].sockfd = i /\ sock'[c].state = sock[c].state
      /\ want'[c] = Defaults /\ kernel'[i] = k /\ ContextOf(i)' = New(c)
  <2>1. pc'[c] = goal[c] /\ want'[c] = Defaults
    BY <1>5 DEF IInv, Typed
  <2>2. sock'[c].sockfd = i /\ sock'[c].state = sock[c].state
    BY <1>3, <1>5 DEF IInv, Typed
  <2>3. kernel'[i] = k
    BY <1>2, <1>5 DEF IInv, Typed, k
  <2> QED
    BY <2>1, <2>2, <2>3, <1>4
<1>10. sock[c].state \in {"INIT", "CLOSE"}
  BY <1>1 DEF IInv, Stage
<1>11. Stage(c)'
  BY <1>1, <1>2, <1>6, <1>9, <1>10 DEF Stage, Mine
<1>12. Own(c)'
  <2>1. New(c) \in FdContexts /\ New(c) # Null
    BY NewIsContext
  <2>2. Kept(i, c)'
    <3>1. /\ New(c).by = c /\ New(c).sys = TRUE /\ New(c).user = FALSE
          /\ New(c).recv = -1 /\ New(c).send = -1
          /\ Defaults.recv = -1 /\ Defaults.send = -1 /\ Defaults.nonblock = FALSE
      BY DEF New, Defaults
    <3> QED
      BY <1>6, <1>9, <2>1, <3>1 DEF Kept
  <2>3. Honest(i, c)'
    BY <1>1, <1>9, <1>10 DEF Honest
  <2> QED
    BY <1>9, <2>2, <2>3 DEF Own
<1> QED
  BY <1>1, <1>5, <1>7, <1>8, <1>9, <1>11, <1>12, OneCoroutine DEF Accepting


Wants == [nonblock : BOOLEAN, recv : Int, send : Int, ioctl : BOOLEAN]

\* The owner of a Socket and its open descriptor with its context.
LEMMA Holding ==
  ASSUME IInv, NEW c \in Cos, Owns(c), NEW i, i = sock[c].sockfd
  PROVE  /\ i \in Fds /\ i # -1 /\ i \in DOMAIN contexts
         /\ kernel[i] \in Entries /\ kernel[i] # Null /\ kernel[i].by = c
         /\ contexts[i] \in FdContexts /\ ContextOf(i) = contexts[i]
         /\ Kept(i, c) /\ Honest(i, c)
<1>1. Stage(c) /\ Own(c) /\ Typed
  BY DEF IInv
<1>2. i # -1 /\ i \in Fds /\ kernel[i] # Null /\ kernel[i].by = c
  BY <1>1 DEF Owns, Stage, Mine
<1>3. kernel[i] \in Entries
  BY <1>1, <1>2 DEF Typed
<1>4. Kept(i, c) /\ Honest(i, c)
  BY <1>1 DEF Own
<1>5. ContextOf(i) # Null
  BY <1>4 DEF Kept
<1>6. i \in DOMAIN contexts /\ ContextOf(i) = contexts[i]
  BY <1>5 DEF ContextOf, getFdContext
<1>7. PICK n \in Nat : contexts \in [0 .. n - 1 -> FdContexts \cup {Null}]
  BY <1>1 DEF Typed, IsVector
<1>8. contexts[i] \in FdContexts
  BY <1>5, <1>6, <1>7
<1> QED
  BY <1>2, <1>3, <1>4, <1>6, <1>8

\* fcntl, ioctl and setsockopt: context, kernel flag and request change together.
LEMMA Setting ==
  ASSUME IInv, aborted = {}, NEW c \in Cos, Using(c), NEW i, i = sock[c].sockfd,
         NEW x \in FdContexts, contexts' = [contexts EXCEPT ![i] = x],
         NEW k \in Entries, kernel' = [kernel EXCEPT ![i] = k],
         NEW v \in Wants, want' = [want EXCEPT ![c] = v],
         UNCHANGED <<sock, pc, fd, goal, cancelled, aborted>>,
         k.by = c, k.conn = kernel[i].conn, x.by = c, x.sys,
         x.recv = v.recv, x.send = v.send, x.user = v.nonblock,
         k.nonblock \/ (v.ioctl /\ ~v.nonblock)
  PROVE  IInv'
<1>0. Owns(c) /\ pc[c] = "idle"
  BY DEF Using, Owns
<1>1. /\ i \in Fds /\ i # -1 /\ i \in DOMAIN contexts
      /\ kernel[i].by = c /\ Kept(i, c) /\ Honest(i, c)
  BY <1>0, Holding
<1>2. x # Null /\ k # Null
  BY NumbersAssumed
<1>3. IsVector(contexts') /\ \A j : ContextOf(j)' = IF j = i THEN x ELSE ContextOf(j)
  <2>1. PICK n \in Nat : contexts \in [0 .. n - 1 -> FdContexts \cup {Null}]
    BY DEF IInv, Typed, IsVector
  <2> QED
    BY <1>1, <2>1 DEF IsVector, ContextOf, getFdContext
<1>4. Typed'
  <2>1. kernel' \in [Fds -> Entries \cup {Null}]
    BY DEF IInv, Typed
  <2>2. want' \in [Cos -> Wants]
    BY DEF IInv, Typed, Wants
  <2> QED
    BY <1>3, <2>1, <2>2 DEF IInv, Typed, Wants
<1>5. Within({c})
  <2>1. \A e \in Cos \ {c} : Untouched(e)
    BY DEF IInv, Typed, Untouched
  <2>2. \A j \in Fds : j # i => SameFd(j)
    BY <1>1, <1>3 DEF IInv, Typed, SameFd
  <2> QED
    BY <1>1, <2>1, <2>2 DEF Within
<1>6. kernel'[i] = k /\ want'[c] = v /\ ContextOf(i)' = x
  BY <1>1, <1>3 DEF IInv, Typed
<1>7. Stage(c)'
  BY <1>0, <1>1, <1>2, <1>6 DEF IInv, Stage, Mine
<1>8. Own(c)'
  <2>1. Kept(i, c)'
    BY <1>2, <1>6 DEF Kept
  <2>2. Honest(i, c)'
    BY <1>0, <1>1, <1>6 DEF Honest
  <2> QED
    BY <2>1, <2>2 DEF Own
<1> QED
  BY <1>0, <1>4, <1>5, <1>7, <1>8, OneCoroutine DEF Accepting

\* fcntl and ioctl change the blocking mode.
LEMMA FlagStep ==
  ASSUME IInv, aborted = {}, NEW c \in Cos, NEW nb \in BOOLEAN, sock[c].sockfd # -1,
         FcntlSetFl(c, nb) \/ IoctlFionbio(c, nb)
  PROVE  IInv'
<1> USE DEF ioVars
<1>1. PICK i : i = sock[c].sockfd
  OBVIOUS
<1>2. Using(c) /\ Owns(c)
  BY DEF FcntlSetFl, IoctlFionbio, NoFd, Settable, Using, Owns
<1>3. /\ i \in Fds /\ i \in DOMAIN contexts /\ ContextOf(i) = contexts[i]
      /\ kernel[i] \in Entries /\ kernel[i].by = c
      /\ contexts[i] \in FdContexts /\ Kept(i, c)
  BY <1>1, <1>2, Holding
<1>4. want[c] \in Wants
  BY DEF IInv, Typed, Wants
<1> DEFINE x == [contexts[i] EXCEPT !.user = nb]
           flag == IF FcntlSetFl(c, nb) THEN TRUE ELSE nb
           k == [kernel[i] EXCEPT !.nonblock = flag]
           asked == ~FcntlSetFl(c, nb)
           v == [want[c] EXCEPT !.nonblock = nb, !.ioctl = asked]
<1>5. /\ x \in FdContexts /\ x.by = contexts[i].by /\ x.sys = contexts[i].sys /\ x.user = nb
      /\ x.recv = contexts[i].recv /\ x.send = contexts[i].send
  BY <1>3 DEF FdContexts
<1>6. k \in Entries /\ k.by = kernel[i].by /\ k.conn = kernel[i].conn /\ k.nonblock = flag
  BY <1>3 DEF Entries
<1>7. /\ v \in Wants /\ v.recv = want[c].recv /\ v.send = want[c].send
      /\ v.nonblock = nb /\ v.ioctl = asked
  BY <1>4 DEF Wants
<1>8. /\ contexts' = [contexts EXCEPT ![i] = x]
      /\ kernel' = [kernel EXCEPT ![i] = k]
      /\ want' = [want EXCEPT ![c] = v]
      /\ UNCHANGED <<sock, pc, fd, goal, cancelled, aborted>>
  <2>1. CASE FcntlSetFl(c, nb)
    <3>1. SetFl(Context(c), nb) = TRUE
      <4>1. Context(c) = ContextOf(i) /\ ContextOf(i) # Null
        BY <1>1, <1>3 DEF Context, ContextOf, Kept
      <4>2. contexts[i].sys = TRUE
        BY <1>3 DEF Kept, FdContexts
      <4> QED
        BY <4>1, <4>2, <1>3 DEF SetFl
    <3> QED
      BY <2>1, <3>1, <1>1 DEF FcntlSetFl, NoFd
  <2>2. CASE ~FcntlSetFl(c, nb)
    BY <2>2, <1>1 DEF IoctlFionbio, NoFd
  <2> QED
    BY <2>1, <2>2
<1>9. /\ x.by = c /\ x.sys /\ k.by = c
      /\ x.recv = v.recv /\ x.send = v.send /\ x.user = v.nonblock
  BY <1>3, <1>5, <1>6, <1>7 DEF Kept
<1>10. k.nonblock \/ (v.ioctl /\ ~v.nonblock)
  BY <1>6, <1>7
<1> HIDE DEF x, k, v
<1> QED
  BY <1>1, <1>2, <1>5, <1>6, <1>7, <1>8, <1>9, <1>10, Setting

\* setsockopt records the timeout in the context.
LEMMA SetTimeoutStep ==
  ASSUME IInv, aborted = {}, NEW c \in Cos, NEW type \in {"recv", "send"}, NEW ms \in Timeouts,
         sock[c].sockfd # -1, SetTimeout(c, type, ms)
  PROVE  IInv'
<1> USE DEF ioVars
<1>1. PICK i : i = sock[c].sockfd
  OBVIOUS
<1>2. Using(c) /\ Owns(c)
  BY DEF SetTimeout, NoFd, Settable, Using, Owns
<1>3. /\ i \in Fds /\ i \in DOMAIN contexts /\ ContextOf(i) = contexts[i]
      /\ kernel[i] \in Entries /\ kernel[i].by = c
      /\ contexts[i] \in FdContexts /\ Kept(i, c)
  BY <1>1, <1>2, Holding
<1>4. want[c] \in Wants /\ kernel = [kernel EXCEPT ![i] = kernel[i]]
  BY <1>3 DEF IInv, Typed, Wants
<1>5. ms \in Int /\ Millis(Timeval(ms)) = ms
  BY FdAssumption, MillisOfTimeval
<1> DEFINE x == IF type = "recv" THEN [contexts[i] EXCEPT !.recv = ms]
                                 ELSE [contexts[i] EXCEPT !.send = ms]
           k == kernel[i]
           v == IF type = "recv" THEN [want[c] EXCEPT !.recv = ms]
                                 ELSE [want[c] EXCEPT !.send = ms]
<1>6. /\ x \in FdContexts /\ x.by = contexts[i].by /\ x.sys = contexts[i].sys
      /\ x.user = contexts[i].user
      /\ x.recv = (IF type = "recv" THEN ms ELSE contexts[i].recv)
      /\ x.send = (IF type = "recv" THEN contexts[i].send ELSE ms)
  BY <1>3, <1>5 DEF FdContexts
<1>7. /\ v \in Wants /\ v.nonblock = want[c].nonblock /\ v.ioctl = want[c].ioctl
      /\ v.recv = (IF type = "recv" THEN ms ELSE want[c].recv)
      /\ v.send = (IF type = "recv" THEN want[c].send ELSE ms)
  BY <1>4, <1>5 DEF Wants
<1>8. /\ contexts' = [contexts EXCEPT ![i] = x]
      /\ kernel' = [kernel EXCEPT ![i] = k]
      /\ want' = [want EXCEPT ![c] = v]
      /\ UNCHANGED <<sock, pc, fd, goal, cancelled, aborted>>
  BY <1>1, <1>4, <1>5 DEF SetTimeout, setTimeout, NoFd
<1>9. /\ x.by = c /\ x.sys /\ k.by = c
      /\ x.recv = v.recv /\ x.send = v.send /\ x.user = v.nonblock
      /\ k.nonblock \/ (v.ioctl /\ ~v.nonblock)
  BY <1>3, <1>6, <1>7 DEF Kept
<1> HIDE DEF x, v
<1> QED
  BY <1>1, <1>2, <1>3, <1>6, <1>7, <1>8, <1>9, Setting, ZenonT(60)


\* connect_origin: success is reported with the connection standing.
LEMMA ConnectOriginStep == ASSUME IInv, aborted = {}, NEW c \in Cos, ConnectOrigin(c) PROVE IInv'
<1> USE DEF ioVars
<1>1. PICK i : i = sock[c].sockfd
  OBVIOUS
<1>2. pc[c] = "connect" /\ Owns(c) /\ sock[c].state \in {"INIT", "CLOSE"}
  BY DEF ConnectOrigin, IInv, Stage, Owns
<1>3. /\ i \in Fds /\ i # -1 /\ kernel[i] \in Entries /\ kernel[i].by = c /\ Kept(i, c)
  BY <1>1, <1>2, Holding
<1>4. Context(c) # Null
  BY <1>1, <1>3 DEF Kept, Context, ContextOf
<1>5. PICK r \in {"ok", "refused", "progress"} :
        /\ kernel' = [kernel EXCEPT ![i].conn = r]
        /\ CASE r = "ok" -> Connected(c)
             [] r = "progress" -> /\ Go(c, IF Context(c).user THEN "close" ELSE "event")
                                  /\ UNCHANGED sock
             [] OTHER -> Go(c, "close") /\ UNCHANGED sock
  BY <1>1, <1>4 DEF ConnectOrigin
<1>6. UNCHANGED <<contexts, fd, goal, cancelled, want, aborted>>
  BY DEF ConnectOrigin
<1>7. \/ /\ r = "ok" /\ pc' = [pc EXCEPT ![c] = "idle"]
         /\ sock' = [sock EXCEPT ![c].state = "CONNECTED"]
      \/ pc' = [pc EXCEPT ![c] = "close"] /\ sock' = sock
      \/ pc' = [pc EXCEPT ![c] = "event"] /\ sock' = sock
  <2>1. CASE r = "ok"
    BY <2>1, <1>5 DEF Connected, Go
  <2>2. CASE r = "progress"
    BY <2>2, <1>5 DEF Go
  <2>3. CASE r = "refused"
    BY <2>3, <1>5 DEF Go
  <2> QED
    BY <2>1, <2>2, <2>3
<1> DEFINE k == [kernel[i] EXCEPT !.conn = r]
<1>8. k \in Entries /\ k.by = kernel[i].by /\ k.nonblock = kernel[i].nonblock /\ k.conn = r
  BY <1>3 DEF Entries, Conns
<1>9. kernel' = [kernel EXCEPT ![i] = k] /\ k # Null
  BY <1>5, <1>8, NumbersAssumed
<1> HIDE DEF k
<1>10. sock[c] \in [sockfd : Fds \cup {-1}, state : {"INIT", "LISTEN", "CONNECTED", "CLOSE"}]
  BY DEF IInv, Typed
<1>11. Typed'
  <2>1. kernel' \in [Fds -> Entries \cup {Null}]
    BY <1>8, <1>9 DEF IInv, Typed
  <2>2. pc' \in [Cos -> Labels]
    BY <1>7 DEF IInv, Typed, Labels
  <2>3. sock' \in [Cos -> [sockfd : Fds \cup {-1}, state : {"INIT", "LISTEN", "CONNECTED", "CLOSE"}]]
    <3>1. sock \in [Cos -> [sockfd : Fds \cup {-1}, state : {"INIT", "LISTEN", "CONNECTED", "CLOSE"}]]
      BY DEF IInv, Typed
    <3> QED
      BY <1>7, <1>10, <3>1
  <2> QED
    BY <1>6, <2>1, <2>2, <2>3 DEF IInv, Typed
<1>12. Within({c})
  <2>1. \A e \in Cos \ {c} : Untouched(e)
    BY <1>6, <1>7 DEF IInv, Typed, Untouched
  <2>2. \A j \in Fds : j # i => SameFd(j)
    BY <1>6, <1>9 DEF IInv, Typed, SameFd, ContextOf
  <2> QED
    BY <1>3, <2>1, <2>2 DEF Within
<1>13. /\ kernel'[i] = k /\ sock'[c].sockfd = i
       /\ \/ r = "ok" /\ pc'[c] = "idle" /\ sock'[c].state = "CONNECTED"
          \/ pc'[c] \in {"close", "event"} /\ sock'[c].state = sock[c].state
  <2>1. kernel'[i] = k
    BY <1>3, <1>9 DEF IInv, Typed
  <2>2. /\ sock'[c].sockfd = i
        /\ \/ r = "ok" /\ pc'[c] = "idle" /\ sock'[c].state = "CONNECTED"
           \/ pc'[c] \in {"close", "event"} /\ sock'[c].state = sock[c].state
    BY <1>1, <1>7, <1>10 DEF IInv, Typed
  <2> QED
    BY <2>1, <2>2
<1>14. Stage(c)'
  BY <1>2, <1>3, <1>8, <1>9, <1>13 DEF Stage, Mine
<1>15. Own(c)'
  <2>1. Kept(i, c)'
    BY <1>3, <1>6, <1>8, <1>13 DEF Kept, ContextOf
  <2>2. Honest(i, c)'
    BY <1>2, <1>8, <1>13 DEF Honest
  <2> QED
    BY <1>13, <2>1, <2>2 DEF Own
<1> QED
  BY <1>2, <1>6, <1>11, <1>12, <1>13, <1>14, <1>15, OneCoroutine DEF Accepting

\* Socket::close up to the hook.
LEMMA CloseStep ==
  ASSUME IInv, aborted = {}, NEW c \in Cos, NEW how \in {"close", "destroy"}, Close(c, how)
  PROVE  IInv'
<1> USE DEF ioVars, Go
<1>0. pc[c] = "idle" /\ Stage(c) /\ Own(c) /\ Typed
  BY DEF Close, IInv
<1>1. CASE CloseDone(sock[c])
  <2>1. /\ pc' = [pc EXCEPT ![c] = "none"]
        /\ UNCHANGED <<kernel, contexts, sock, fd, goal, cancelled, want, aborted>>
    BY <1>1 DEF Close
  <2>2. sock[c].sockfd = -1
    BY <1>1 DEF CloseDone
  <2>3. Typed'
    BY <2>1 DEF IInv, Typed, Labels
  <2>4. pc'[c] = "none" /\ \A e \in Cos \ {c} : Untouched(e)
    BY <2>1, <1>0 DEF Typed, Untouched
  <2>5. Stage(c)' /\ Own(c)'
    BY <1>0, <2>1, <2>2, <2>4 DEF Stage, Mine, Own, Owns
  <2>6. Within({c})
    BY <2>1, <2>4, Moves
  <2> QED
    BY <1>0, <2>1, <2>3, <2>4, <2>5, <2>6, OneCoroutine DEF Accepting
<1>2. CASE ~CloseDone(sock[c]) /\ sock[c].sockfd = -1
  <2>1. Abort(c, "close")
    BY <1>2 DEF Close
  <2>2. sock[c].state = "INIT"
    BY <1>0, <1>2 DEF Stage, CloseDone
  <2> QED
    BY <1>0, <1>2, <2>1, <2>2, AbortStep DEF Calls
<1>3. CASE ~CloseDone(sock[c]) /\ sock[c].sockfd # -1
  <2>1. /\ pc' = [pc EXCEPT ![c] = "close"] /\ goal' = [goal EXCEPT ![c] = how]
        /\ UNCHANGED <<kernel, contexts, sock, fd, cancelled, want, aborted>>
    BY <1>3 DEF Close
  <2>2. Typed'
    BY <2>1 DEF IInv, Typed, Labels, Goals
  <2>3. pc'[c] = "close" /\ \A e \in Cos \ {c} : Untouched(e)
    BY <2>1, <1>0 DEF Typed, Untouched
  <2>4. Stage(c)'
    BY <1>0, <1>3, <2>1, <2>3 DEF Stage, Mine
  <2>5. Own(c)'
    BY <1>0, <1>3, <2>1, <2>3 DEF Own, Owns, Kept, Honest, ContextOf
  <2>6. Within({c})
    BY <2>1, <2>3, Moves
  <2> QED
    BY <1>0, <2>1, <2>2, <2>3, <2>4, <2>5, <2>6, OneCoroutine DEF Accepting
<1> QED
  BY <1>1, <1>2, <1>3

\* delFd comes before close_origin: the number is still c's when its context goes.
LEMMA CloseDelFdStep == ASSUME IInv, aborted = {}, NEW c \in Cos, CloseDelFd(c) PROVE IInv'
<1> USE DEF ioVars, Go
<1>1. PICK i : i = sock[c].sockfd
  OBVIOUS
<1>2. /\ pc[c] = "close" /\ pc' = [pc EXCEPT ![c] = "closeFd"] /\ contexts' = delFd(contexts, i)
      /\ UNCHANGED <<kernel, sock, fd, goal, cancelled, want, aborted>>
  BY <1>1 DEF CloseDelFd
<1>3. Stage(c) /\ Typed /\ i # -1 /\ kernel[i].by = c
  BY <1>1, <1>2 DEF IInv, Stage, Mine
<1>4. IsVector(contexts') /\ \A j : j # i => ContextOf(j)' = ContextOf(j)
  BY <1>2, <1>3, DelFdContexts DEF Typed, ContextOf
<1>5. Typed'
  BY <1>2, <1>3, <1>4 DEF Typed, Labels
<1>6. pc'[c] = "closeFd" /\ \A e \in Cos \ {c} : Untouched(e)
  BY <1>2, <1>3 DEF Typed, Untouched
<1>7. Within({c})
  BY <1>2, <1>3, <1>4, <1>6 DEF Within, SameFd
<1>8. Stage(c)' /\ Own(c)'
  BY <1>2, <1>3, <1>6 DEF Stage, Mine, Own, Owns
<1> QED
  BY <1>2, <1>5, <1>6, <1>7, <1>8, OneCoroutine DEF Accepting

\* The kernel frees the number after the FdManager has forgotten it.
LEMMA CloseOriginStep == ASSUME IInv, aborted = {}, NEW c \in Cos, CloseOrigin(c) PROVE IInv'
<1> USE DEF Go
<1>1. PICK i : i = sock[c].sockfd
  OBVIOUS
<1>2. /\ pc[c] = "closeFd" /\ kernel' = [kernel EXCEPT ![i] = Null]
      /\ pc' = [pc EXCEPT ![c] = IF goal[c] = "destroy" THEN "none" ELSE "idle"]
      /\ sock' = [sock EXCEPT ![c] = ClosedSock(sock[c])]
      /\ goal' = [goal EXCEPT ![c] = "none"] /\ want' = [want EXCEPT ![c] = Defaults]
      /\ UNCHANGED <<contexts, fd, cancelled, aborted>>
  BY <1>1 DEF CloseOrigin
<1>3. Stage(c) /\ Typed /\ i # -1 /\ i \in Fds /\ kernel[i].by = c
  BY <1>1, <1>2 DEF IInv, Stage, Mine
<1>4. Typed'
  <2>1. want' \in [Cos -> [nonblock : BOOLEAN, recv : Int, send : Int, ioctl : BOOLEAN]]
    BY <1>2, <1>3 DEF Typed, Defaults
  <2>2. kernel' \in [Fds -> Entries \cup {Null}] /\ pc' \in [Cos -> Labels] /\ goal' \in [Cos -> Goals]
    BY <1>2, <1>3 DEF Typed, Labels, Goals
  <2>3. sock' \in [Cos -> [sockfd : Fds \cup {-1}, state : {"INIT", "LISTEN", "CONNECTED", "CLOSE"}]]
    BY <1>2, <1>3 DEF Typed, ClosedSock
  <2> QED
    BY <1>2, <1>3, <2>1, <2>2, <2>3 DEF Typed
<1>5. /\ pc'[c] \in {"none", "idle"} /\ sock'[c] = ClosedSock(sock[c])
      /\ \A e \in Cos \ {c} : Untouched(e)
  BY <1>2, <1>3 DEF Typed, Untouched
<1>6. Within({c})
  BY <1>2, <1>3, <1>5 DEF Within, SameFd, Typed, ContextOf
<1>7. Stage(c)' /\ Own(c)'
  BY <1>5 DEF Stage, Own, Owns, ClosedSock
<1> QED
  BY <1>2, <1>4, <1>5, <1>6, <1>7, OneCoroutine DEF Accepting

\* The network answers a connection in progress.
LEMMA AnswerStep == ASSUME IInv, aborted = {}, NEW i \in Fds, Answer(i) PROVE IInv'
<1> USE DEF ioVars
<1>1. PICK r \in {"ok", "refused"} : kernel' = [kernel EXCEPT ![i].conn = r]
  BY DEF Answer
<1>2. /\ kernel[i] # Null /\ kernel[i].conn = "progress" /\ kernel[i] \in Entries
      /\ UNCHANGED <<contexts, sock, pc, fd, goal, cancelled, want, aborted>>
  BY DEF Answer, IInv, Typed
<1> DEFINE k == [kernel[i] EXCEPT !.conn = r]
<1>3. k \in Entries /\ k.by = kernel[i].by /\ k.nonblock = kernel[i].nonblock /\ k.conn = r
  BY <1>2 DEF Entries, Conns
<1>4. k # Null
  BY <1>3, NumbersAssumed
<1>5. kernel' = [kernel EXCEPT ![i] = k]
  BY <1>1
<1> HIDE DEF k
<1>6. Typed'
  <2>1. kernel' \in [Fds -> Entries \cup {Null}]
    BY <1>3, <1>5 DEF IInv, Typed
  <2> QED
    BY <1>2, <2>1 DEF IInv, Typed
<1>7. \A j \in Fds :
        /\ kernel'[j] = Null <=> kernel[j] = Null
        /\ kernel'[j].by = kernel[j].by /\ kernel'[j].nonblock = kernel[j].nonblock
        /\ kernel'[j].conn = kernel[j].conn
             \/ (kernel[j].conn = "progress" /\ kernel'[j].conn \in {"ok", "refused"})
  BY <1>2, <1>3, <1>4, <1>5 DEF IInv, Typed
<1>8. ASSUME NEW c \in Cos PROVE Stage(c)' /\ Own(c)' /\ Guest(c)'
  <2>1. Stage(c) /\ Own(c) /\ Guest(c)
    BY DEF IInv
  <2>2. Stage(c)'
    BY <1>2, <1>7, <2>1 DEF Stage, Mine
  <2>3. Own(c)'
    <3> SUFFICES ASSUME Owns(c) PROVE (Kept(sock[c].sockfd, c) /\ Honest(sock[c].sockfd, c))'
      BY <1>2 DEF Own, Owns
    <3>1. sock[c].sockfd \in Fds /\ Kept(sock[c].sockfd, c) /\ Honest(sock[c].sockfd, c)
      BY <2>1 DEF Stage, Mine, Own, Owns
    <3>2. Kept(sock[c].sockfd, c)'
      BY <1>2, <1>7, <3>1 DEF Kept, ContextOf
    <3>3. Honest(sock[c].sockfd, c)'
      BY <1>2, <1>7, <3>1 DEF Honest
    <3> QED
      BY <3>2, <3>3
  <2>4. Guest(c)'
    BY <1>2, <1>7, <2>1 DEF Guest, Accepting, ContextOf
  <2> QED
    BY <2>2, <2>3, <2>4
<1>9. OneHost'
  <2>1. \A c \in Cos : Accepting(c) => fd[c] \in Fds
    BY DEF IInv, Guest
  <2> QED
    BY <1>2, <1>7, <2>1 DEF IInv, OneHost, Accepting
<1> QED
  BY <1>2, <1>6, <1>8, <1>9 DEF IInv, AbortOnlyWithoutFd


-----------------------------------------------------------------------------
(* accept(): steps of the server for the coroutine that will serve the client *)

\* A step that concerns two coroutines, the host and its guest.
LEMMA TwoCoroutines ==
  ASSUME IInv, NEW c \in Cos, NEW d \in Cos, c # d, Within({c, d}), aborted' = {}, Typed',
         \A e \in Cos \ {c, d} : Accepting(e) => kernel[fd[e]].by \notin {c, d},
         Stage(c)', Own(c)', Guest(c)', Stage(d)', Own(d)',
         ~Accepting(d)', Accepting(c)' => kernel'[fd'[c]].by = d
  PROVE  IInv'
<1>1. ASSUME NEW e \in Cos \ {c, d}
      PROVE  /\ Stage(e)' /\ Own(e)' /\ Guest(e)'
             /\ Accepting(e)' => /\ Accepting(e)
                                 /\ kernel'[fd'[e]].by = kernel[fd[e]].by
                                 /\ kernel'[fd'[e]].by \notin {c, d}
  BY Others
<1>2. Guest(d)'
  BY DEF Guest
<1>3. OneHost'
  BY <1>1 DEF IInv, OneHost
<1> QED
  BY <1>1, <1>2, <1>3 DEF IInv, AbortOnlyWithoutFd

\* The kernel opens a descriptor for the accepted connection.
LEMMA AcceptOriginStep ==
  ASSUME IInv, aborted = {}, NEW c \in Cos, NEW d \in Cos, sock[c].sockfd # -1,
         AcceptOrigin(c, d)
  PROVE  IInv'
<1>1. PICK j : j = Min(Free)
  OBVIOUS
<1> DEFINE k == [Opened(d) EXCEPT !.conn = "ok"]
<1>2. /\ pc[c] = "idle" /\ sock[c].state = "LISTEN" /\ pc[d] = "none" /\ Free # {}
      /\ fd' = [fd EXCEPT ![c] = j] /\ kernel' = [kernel EXCEPT ![j] = k]
      /\ pc' = [pc EXCEPT ![c] = "acceptAdd", ![d] = "accepted"]
      /\ UNCHANGED <<contexts, sock, goal, cancelled, want, aborted>>
  BY <1>1 DEF AcceptOrigin, NoFd
<1>3. j \in Fds /\ kernel[j] = Null /\ c # d
  BY <1>1, <1>2, LowestIsFree DEF Free
<1>4. k \in Entries /\ k.by = d /\ k.conn = "ok"
  BY DEF Opened, Entries, Conns
<1>5. k # Null
  BY <1>4, NumbersAssumed
<1> HIDE DEF k
<1>6. Typed'
  BY <1>2, <1>3, <1>4 DEF IInv, Typed, Labels
<1>7. /\ pc'[c] = "acceptAdd" /\ pc'[d] = "accepted" /\ fd'[c] = j /\ kernel'[j] = k
      /\ \A e \in Cos \ {c, d} : Untouched(e)
      /\ \A i \in Fds : kernel[i] # Null => SameFd(i)
  <2>1. pc'[c] = "acceptAdd" /\ pc'[d] = "accepted" /\ fd'[c] = j /\ kernel'[j] = k
    BY <1>2, <1>3 DEF IInv, Typed
  <2>2. \A e \in Cos \ {c, d} : Untouched(e)
    BY <1>2 DEF IInv, Typed, Untouched
  <2>3. \A i \in Fds : kernel[i] # Null => SameFd(i)
    BY <1>2, <1>3 DEF IInv, Typed, SameFd, ContextOf
  <2> QED
    BY <2>1, <2>2, <2>3
<1>8. Within({c, d})
  BY <1>7 DEF Within
<1>9. \A e \in Cos \ {c, d} : Accepting(e) => kernel[fd[e]].by \notin {c, d}
  BY <1>2 DEF IInv, Guest
<1>10. Stage(c) /\ Own(c) /\ Stage(d) /\ Owns(c) /\ sock[c].sockfd \in Fds
       /\ kernel[sock[c].sockfd] # Null
  BY <1>2 DEF IInv, Stage, Owns, Mine
<1>11. SameFd(sock[c].sockfd)
  BY <1>7, <1>10
<1>12. Stage(c)'
  BY <1>2, <1>7, <1>10, <1>11 DEF Stage, Mine, SameFd
<1>13. Own(c)'
  BY <1>2, <1>7, <1>10, <1>11 DEF Own, Owns, Kept, Honest, SameFd
<1>14. Stage(d)' /\ Own(d)'
  BY <1>2, <1>7, <1>10 DEF Stage, Mine, Own, Owns
<1>15. Guest(c)'
  BY <1>3, <1>4, <1>5, <1>7 DEF Guest
<1> QED
  BY <1>2, <1>3, <1>4, <1>6, <1>7, <1>8, <1>9, <1>12, <1>13, <1>14, <1>15, TwoCoroutines
  DEF Accepting

\* What a server inside accept() knows of its guest.
LEMMA Hosting ==
  ASSUME IInv, NEW c \in Cos, Accepting(c), NEW i, i = fd[c], NEW d, d = kernel[i].by
  PROVE  /\ i \in Fds /\ kernel[i] \in Entries /\ kernel[i] # Null /\ kernel[i].conn = "ok"
         /\ d \in Cos /\ pc[d] = "accepted" /\ c # d
         /\ sock[d].sockfd = -1
         /\ \A e \in Cos \ {c, d} : Accepting(e) => kernel[fd[e]].by \notin {c, d}
         /\ pc[c] = "acceptInit" => kernel[i].nonblock /\ ContextOf(i) = New(d)
<1>1. /\ i \in Fds /\ kernel[i] # Null /\ pc[d] = "accepted" /\ kernel[i].conn = "ok"
      /\ pc[c] = "acceptInit" => kernel[i].nonblock /\ ContextOf(i) = New(d)
  BY DEF IInv, Guest
<1>2. kernel[i] \in Entries /\ d \in Cos
  BY <1>1 DEF IInv, Typed, Entries
<1>3. c # d
  BY <1>1 DEF Accepting
<1>4. sock[d].sockfd = -1
  BY <1>1, <1>2 DEF IInv, Stage
<1>5. ASSUME NEW e \in Cos \ {c, d}, Accepting(e) PROVE kernel[fd[e]].by \notin {c, d}
  <2>1. kernel[fd[e]].by # d
    BY <1>5 DEF IInv, OneHost
  <2>2. pc[kernel[fd[e]].by] = "accepted"
    BY <1>5 DEF IInv, Guest
  <2> QED
    BY <2>1, <2>2 DEF Accepting
<1> QED
  BY <1>1, <1>2, <1>3, <1>4, <1>5

\* The FdManager learns of the accepted descriptor.
LEMMA AcceptAddStep == ASSUME IInv, aborted = {}, NEW c \in Cos, AcceptAdd(c) PROVE IInv'
<1> USE DEF ioVars, Go
<1>1. PICK i : i = fd[c]
  OBVIOUS
<1>2. PICK d : d = kernel[i].by
  OBVIOUS
<1>3. /\ pc[c] = "acceptAdd" /\ pc' = [pc EXCEPT ![c] = "acceptInit"]
      /\ contexts' = addFd(contexts, i, d)
      /\ kernel' = [kernel EXCEPT ![i] = [kernel[i] EXCEPT !.nonblock = TRUE]]
      /\ UNCHANGED <<sock, fd, goal, cancelled, want, aborted>>
  BY <1>1, <1>2 DEF AcceptAdd, Added
<1>4. /\ i \in Fds /\ kernel[i] \in Entries /\ kernel[i] # Null /\ kernel[i].conn = "ok"
      /\ d \in Cos /\ pc[d] = "accepted" /\ c # d /\ sock[d].sockfd = -1
      /\ \A e \in Cos \ {c, d} : Accepting(e) => kernel[fd[e]].by \notin {c, d}
  BY <1>1, <1>2, <1>3, Hosting DEF Accepting
<1>5. /\ IsVector(contexts')
      /\ \A j : ContextOf(j)' = IF j = i THEN New(d) ELSE ContextOf(j)
  BY <1>3, <1>4, AddFdContexts DEF IInv, Typed, ContextOf
<1> DEFINE k == [kernel[i] EXCEPT !.nonblock = TRUE]
<1>6. k \in Entries /\ k.by = d /\ k.nonblock /\ k.conn = "ok"
  BY <1>2, <1>4 DEF Entries
<1>7. k # Null /\ kernel' = [kernel EXCEPT ![i] = k]
  BY <1>3, <1>6, NumbersAssumed
<1> HIDE DEF k
<1>8. Typed'
  BY <1>3, <1>5, <1>6, <1>7 DEF IInv, Typed, Labels
<1>9. /\ pc'[c] = "acceptInit" /\ pc'[d] = "accepted" /\ kernel'[i] = k
      /\ \A e \in Cos \ {c, d} : Untouched(e)
      /\ \A j \in Fds : j # i => SameFd(j)
  <2>1. pc'[c] = "acceptInit" /\ pc'[d] = "accepted" /\ kernel'[i] = k
    BY <1>3, <1>4, <1>7 DEF IInv, Typed
  <2>2. \A e \in Cos \ {c, d} : Untouched(e)
    BY <1>3 DEF IInv, Typed, Untouched
  <2>3. \A j \in Fds : j # i => SameFd(j)
    BY <1>5, <1>7 DEF IInv, Typed, SameFd
  <2> QED
    BY <2>1, <2>2, <2>3
<1>10. Within({c, d})
  BY <1>2, <1>9 DEF Within
<1>11. Stage(c) /\ Own(c)
  BY DEF IInv
<1>12. sock[c].sockfd # -1 => sock[c].sockfd \in Fds /\ SameFd(sock[c].sockfd)
  BY <1>2, <1>4, <1>9, <1>11 DEF Stage, Mine
<1>13. Stage(c)'
  BY <1>3, <1>9, <1>11, <1>12 DEF Stage, Mine, SameFd
<1>14. Own(c)'
  BY <1>3, <1>9, <1>11, <1>12 DEF Own, Owns, Kept, Honest, SameFd
<1>15. Stage(d)' /\ Own(d)'
  BY <1>3, <1>4, <1>9 DEF IInv, Stage, Mine, Own, Owns
<1>16. Guest(c)'
  BY <1>1, <1>3, <1>4, <1>5, <1>6, <1>7, <1>9 DEF Guest
<1> QED
  BY <1>1, <1>3, <1>4, <1>6, <1>8, <1>9, <1>10, <1>13, <1>14, <1>15, <1>16, TwoCoroutines
  DEF Accepting

\* Socket::init finds the context: close(-1) is not reached, and the guest starts
\* with the receive timeout of the server.
LEMMA AcceptInitStep == ASSUME IInv, aborted = {}, NEW c \in Cos, AcceptInit(c) PROVE IInv'
<1>1. PICK i : i = fd[c]
  OBVIOUS
<1>2. PICK d : d = kernel[i].by
  OBVIOUS
<1>3. pc[c] = "acceptInit"
  BY DEF AcceptInit
<1>4. /\ i \in Fds /\ kernel[i] \in Entries /\ kernel[i] # Null /\ kernel[i].conn = "ok"
      /\ d \in Cos /\ pc[d] = "accepted" /\ c # d /\ sock[d].sockfd = -1
      /\ \A e \in Cos \ {c, d} : Accepting(e) => kernel[fd[e]].by \notin {c, d}
      /\ kernel[i].nonblock /\ ContextOf(i) = New(d)
  BY <1>1, <1>2, <1>3, Hosting DEF Accepting
<1>5. New(d) \in FdContexts /\ New(d) # Null
  BY <1>4, NewIsContext
<1> DEFINE ms == Millis(Timeval(RecvTimeout))
           x == [New(d) EXCEPT !.recv = ms]
           s == [sockfd |-> i, state |-> "CONNECTED"]
<1>6. ms = RecvTimeout /\ RecvTimeout \in Int
  BY FdAssumption, MillisOfTimeval
<1>7. i \in DOMAIN contexts /\ contexts[i] = New(d)
  BY <1>4, <1>5 DEF ContextOf, getFdContext
<1>8. /\ sock' = [sock EXCEPT ![d] = s] /\ contexts' = [contexts EXCEPT ![i] = x]
      /\ want' = [want EXCEPT ![d] = Accepted] /\ fd' = [fd EXCEPT ![c] = -1]
      /\ pc' = [pc EXCEPT ![c] = "idle", ![d] = "idle"]
      /\ UNCHANGED <<kernel, goal, cancelled, aborted>>
  <2>1. getFdContext(contexts, fd[c]) # Null
    BY <1>1, <1>4, <1>5 DEF ContextOf
  <2>2. setTimeout(contexts[i], "recv", Timeval(RecvTimeout)) = x
    BY <1>7 DEF setTimeout
  <2> HIDE DEF x
  <2> QED
    BY <1>1, <1>2, <2>1, <2>2 DEF AcceptInit
<1>9. /\ x \in FdContexts /\ x.by = d /\ x.sys = TRUE /\ x.user = FALSE
      /\ x.recv = RecvTimeout /\ x.send = -1
  <2>1. /\ New(d).by = d /\ New(d).sys = TRUE /\ New(d).user = FALSE /\ New(d).send = -1
    BY DEF New
  <2>2. ms \in Int
    BY <1>6
  <2> HIDE DEF ms
  <2>3. /\ x \in FdContexts /\ x.by = New(d).by /\ x.sys = New(d).sys /\ x.user = New(d).user
        /\ x.recv = ms /\ x.send = New(d).send
    BY <1>5, <2>2 DEF FdContexts
  <2> QED
    BY <1>6, <2>1, <2>3
<1>10. x # Null
  BY <1>9, NumbersAssumed
<1>11. /\ Accepted \in Wants /\ Accepted.recv = RecvTimeout /\ Accepted.send = -1
       /\ Accepted.nonblock = FALSE
  <2>1. Defaults \in Wants /\ Defaults.send = -1 /\ Defaults.nonblock = FALSE
    BY DEF Defaults, Wants
  <2> QED
    BY <1>6, <2>1 DEF Accepted, Wants
<1> HIDE DEF x
<1>12. IsVector(contexts') /\ \A j : ContextOf(j)' = IF j = i THEN x ELSE ContextOf(j)
  <2>1. PICK n \in Nat : contexts \in [0 .. n - 1 -> FdContexts \cup {Null}]
    BY DEF IInv, Typed, IsVector
  <2> QED
    BY <1>7, <1>8, <1>9, <2>1 DEF IsVector, ContextOf, getFdContext
<1>13. Typed'
  <2>1. want' \in [Cos -> Wants]
    BY <1>8, <1>11 DEF IInv, Typed, Wants
  <2>2. sock' \in [Cos -> [sockfd : Fds \cup {-1}, state : {"INIT", "LISTEN", "CONNECTED", "CLOSE"}]]
    BY <1>4, <1>8 DEF IInv, Typed
  <2>3. pc' \in [Cos -> Labels] /\ fd' \in [Cos -> Fds \cup {-1}]
    BY <1>8 DEF IInv, Typed, Labels
  <2> QED
    BY <1>8, <1>12, <2>1, <2>2, <2>3 DEF IInv, Typed, Wants
<1>14. /\ pc'[c] = "idle" /\ pc'[d] = "idle" /\ sock'[d] = s /\ sock'[c] = sock[c]
       /\ want'[d] = Accepted /\ want'[c] = want[c] /\ ContextOf(i)' = x
       /\ \A e \in Cos \ {c, d} : Untouched(e)
       /\ \A j \in Fds : j # i => SameFd(j)
  <2>1. pc'[c] = "idle" /\ pc'[d] = "idle" /\ sock'[d] = s /\ sock'[c] = sock[c]
    BY <1>4, <1>8 DEF IInv, Typed
  <2>2. want'[d] = Accepted /\ want'[c] = want[c] /\ ContextOf(i)' = x
    BY <1>4, <1>8, <1>12 DEF IInv, Typed
  <2>3. \A e \in Cos \ {c, d} : Untouched(e)
    BY <1>8 DEF IInv, Typed, Untouched
  <2>4. \A j \in Fds : j # i => SameFd(j)
    BY <1>8, <1>12 DEF SameFd
  <2> QED
    BY <2>1, <2>2, <2>3, <2>4
<1>15. Within({c, d})
  BY <1>2, <1>14 DEF Within
<1>16. Stage(c) /\ Own(c)
  BY DEF IInv
<1>17. sock[c].sockfd # -1 => sock[c].sockfd \in Fds /\ SameFd(sock[c].sockfd)
  BY <1>2, <1>4, <1>14, <1>16 DEF Stage, Mine
<1>18. Stage(c)'
  BY <1>8, <1>14, <1>16, <1>17 DEF Stage, Mine, SameFd
<1>19. Own(c)'
  BY <1>3, <1>8, <1>14, <1>16, <1>17 DEF Own, Owns, Kept, Honest, SameFd
<1>20. s.sockfd = i /\ s.state = "CONNECTED" /\ i # -1
  BY <1>4, NumbersAssumed
<1> HIDE DEF s
<1>21. Stage(d)'
  BY <1>2, <1>4, <1>8, <1>14, <1>20 DEF Stage, Mine
<1>22. Own(d)'
  <2>1. Kept(i, d)'
    BY <1>4, <1>8, <1>9, <1>10, <1>11, <1>14 DEF Kept
  <2>2. Honest(i, d)'
    BY <1>4, <1>8, <1>14 DEF Honest
  <2> QED
    BY <1>14, <1>20, <2>1, <2>2 DEF Own
<1>23. Guest(c)'
  BY <1>14 DEF Guest, Accepting
<1> QED
  BY <1>4, <1>8, <1>13, <1>14, <1>15, <1>18, <1>19, <1>21, <1>22, <1>23, TwoCoroutines
  DEF Accepting


-----------------------------------------------------------------------------
(* The theorems *)

\* At the start no descriptor is open.
LEMMA InitIInv == Init => IInv
<1> SUFFICES ASSUME Init PROVE IInv
  OBVIOUS
<1> USE DEF Init
<1>1. IsVector(contexts)
  <2>1. contexts \in [0 .. 0 - 1 -> FdContexts \cup {Null}]
    BY DEF Init
  <2> QED
    BY <2>1 DEF IsVector
<1>2. Typed
  <2>1. sock \in [Cos -> [sockfd : Fds \cup {-1}, state : {"INIT", "LISTEN", "CONNECTED", "CLOSE"}]]
    BY DEF NoSock
  <2>2. want \in [Cos -> [nonblock : BOOLEAN, recv : Int, send : Int, ioctl : BOOLEAN]]
    BY DEF Defaults
  <2> QED
    BY <1>1, <2>1, <2>2 DEF Typed, Labels, Goals
<1>3. \A c \in Cos : pc[c] = "none" /\ sock[c].sockfd = -1 /\ sock[c].state = "INIT"
  BY DEF NoSock
<1>4. \A c \in Cos : Stage(c) /\ Own(c) /\ Guest(c)
  BY <1>3 DEF Stage, Own, Owns, Guest, Accepting
<1>5. OneHost /\ AbortOnlyWithoutFd
  BY <1>3 DEF OneHost, Accepting, AbortOnlyWithoutFd
<1> QED
  BY <1>2, <1>4, <1>5 DEF IInv

\* Every step of coroutines and of the network.
LEMMA NextIInv == IInv /\ [Next]_vars => IInv'
<1> SUFFICES ASSUME IInv, [Next]_vars PROVE IInv'
  OBVIOUS
<1>1. ASSUME aborted = {}, NEW c \in Cos, Step(c) PROVE IInv'
  <2>1. CASE Create(c) \/ AddFd(c) \/ Bind(c)
    BY <1>1, <2>1, CreateStep, AddFdStep, BindStep
  <2>2. CASE \E what \in {"bind", "connect"} : SocketOrigin(c, what)
    BY <1>1, <2>2, SocketOriginStep
  <2>3. CASE \/ \E d \in Cos : AcceptOrigin(c, d)
             \/ AcceptAdd(c) \/ AcceptInit(c)
    BY <1>1, <2>3, AcceptOriginStep, NoFdStep, AcceptAddStep, AcceptInitStep
  <2>4. CASE \/ ConnectBound(c) \/ ConnectOrigin(c) \/ AddEvent(c) \/ ConnectTimeout(c)
             \/ Wake(c) \/ Woken(c) \/ NoEvent(c)
    BY <1>1, <2>4, WaitStep, ConnectOriginStep, OutcomeStep
  <2>5. CASE \/ \E nb \in BOOLEAN : FcntlSetFl(c, nb) \/ IoctlFionbio(c, nb)
             \/ \E type \in {"recv", "send"}, ms \in Timeouts : SetTimeout(c, type, ms)
    BY <1>1, <2>5, FlagStep, SetTimeoutStep, NoFdStep
  <2>6. CASE \/ \E how \in {"close", "destroy"} : Close(c, how)
             \/ CloseDelFd(c) \/ CloseOrigin(c)
    BY <1>1, <2>6, CloseStep, CloseDelFdStep, CloseOriginStep
  <2> QED
    BY <1>1, <2>1, <2>2, <2>3, <2>4, <2>5, <2>6 DEF Step
<1>2. ASSUME aborted = {}, NEW i \in Fds, Answer(i) PROVE IInv'
  BY <1>2, AnswerStep
<1>3. CASE UNCHANGED vars
  <2> USE <1>3 DEF vars, ioVars
  <2>1. Typed' /\ AbortOnlyWithoutFd'
    BY DEF IInv, Typed, AbortOnlyWithoutFd, Free
  <2>2. \A c \in Cos : Stage(c)' /\ Own(c)' /\ Guest(c)'
    BY DEF IInv, Stage, Mine, Own, Owns, Kept, Honest, Guest, Accepting, ContextOf
  <2>3. OneHost'
    BY DEF IInv, OneHost, Accepting
  <2> QED
    BY <2>1, <2>2, <2>3 DEF IInv
<1> QED
  BY <1>1, <1>2, <1>3 DEF Next

\* The inductive invariant holds in every behaviour of the Sockets.
THEOREM Invariance == Spec => []IInv
  BY InitIInv, NextIInv, PTL DEF Spec

\* What the invariant says of the owner of a Socket.
LEMMA OwnerKnows ==
  ASSUME IInv, NEW c \in Cos, Owns(c)
  PROVE  /\ kernel[sock[c].sockfd] # Null /\ kernel[sock[c].sockfd].by = c
         /\ ContextOf(sock[c].sockfd) = Context(c)
         /\ Kept(sock[c].sockfd, c) /\ Honest(sock[c].sockfd, c)
  BY Holding DEF Context, ContextOf

\* However the hooked socket, accept, connect and close of different threads
\* interleave, a Socket's number is open, its own, and known to the FdManager.
THEOREM DescriptorsTracked == Spec => []Tracked
<1>1. IInv => Tracked
  BY OwnerKnows DEF Tracked, Kept
<1> QED
  BY <1>1, Invariance, PTL

\* fcntl, setRecvTimeout and setSendTimeout are remembered as they were given, and
\* a reused number starts afresh.
THEOREM SettingsSurvive == Spec => []SettingsKept
<1>1. IInv => SettingsKept
  BY OwnerKnows DEF SettingsKept, Kept, GetFl
<1> QED
  BY <1>1, Invariance, PTL

\* addFd and fcntl keep the kernel's O_NONBLOCK set; only ioctl can clear it.
THEOREM WorkersDoNotBlock == Spec => []WorkerNotBlocked
<1>1. IInv => WorkerNotBlocked
  BY OwnerKnows DEF WorkerNotBlocked, Kept
<1> QED
  BY <1>1, Invariance, PTL

\* connect_with_timeout reports success only for a connection that stands, unless
\* it could not wait for the answer.
THEOREM ConnectIsHonest == Spec => []ConnectHonest
<1>1. IInv => ConnectHonest
  BY OwnerKnows DEF ConnectHonest, Honest
<1> QED
  BY <1>1, Invariance, PTL

\* getFdContext's assertion fails only in a call on a Socket without a descriptor:
\* not for an accepted connection, in connect only at the limit of open files, in
\* close only if there never was one.
THEOREM AbortsOnlyWithoutFd == Spec => []AbortOnlyWithoutFd
  BY Invariance, PTL DEF IInv
=============================================================================
