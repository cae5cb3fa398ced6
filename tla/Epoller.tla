------------------------------ MODULE Epoller -------------------------------
(***************************************************************************)
(* One worker's Epoller: the IOEvent table, the epoll instance behind it   *)
(* and the counter pendingEvents_, under addEvent, delEvent, handleEvent,  *)
(* handleAllEvent and the event loop of wait.                              *)
(*                                                                         *)
(* All five run on the worker's own thread: coroutines call the first four *)
(* and the idle coroutine runs wait, so they never overlap.  Only the      *)
(* kernel side changes under them: readiness, and a close of the           *)
(* descriptor by another thread, which takes it out of the epoll instance  *)
(* without telling the IOEvent.                                            *)
(***************************************************************************)
EXTENDS Integers, Sequences, FiniteSets, Functions

CONSTANTS
  Fds,          \* descriptor numbers
  Types,        \* EPOLLIN, EPOLLOUT
  Waiters,      \* coroutines (or functions) that wait for an event
  ForeignClose, \* may other threads close a descriptor that is registered?
  None          \* nullptr

\* 0, 1 and 2 are the standard streams; resize(fd * 1.5) would be too small
\* for 0 and 1.
ASSUME EpollerAssumption ==
  /\ Fds \subseteq Nat \ {0, 1} /\ IsFiniteSet(Fds)
  /\ IsFiniteSet(Types)
  /\ ForeignClose \in BOOLEAN
  /\ None \notin Waiters

VARIABLES
  size,     \* ioEvents_.size()
  types,    \* IOEvent::types
  ctx,      \* IOEvent::readEvent, writeEvent: who waits
  pending,  \* pendingEvents_
  inEpoll,  \* the descriptor is in the epoll instance ...
  interest, \* ... with these event types
  ready,    \* what the descriptor is ready for
  hangup,   \* EPOLLERR or EPOLLHUP is raised
  events,   \* events returned by epoll_wait and not handled yet
  polled,   \* wait() is in its event loop
  tasks     \* Worker::tasks_: waiters handed back

table  == <<size, types, ctx, pending>>
kernel == <<inEpoll, interest>>
vars   == <<table, kernel, ready, hangup, events, polled, tasks>>

Init ==
  /\ size = 0
  /\ types = [fd \in Fds |-> {}]
  /\ ctx = [fd \in Fds |-> [ty \in Types |-> None]]
  /\ pending = 0
  /\ inEpoll = [fd \in Fds |-> FALSE]
  /\ interest = [fd \in Fds |-> {}]
  /\ ready = [fd \in Fds |-> {}]
  /\ hangup = [fd \in Fds |-> FALSE]
  /\ events = {}
  /\ polled = FALSE
  /\ tasks = <<>>

-----------------------------------------------------------------------------
(* epoll_ctl *)

Add(fd, what) ==
  /\ inEpoll' = [inEpoll EXCEPT ![fd] = TRUE]
  /\ interest' = [interest EXCEPT ![fd] = what]

Mod(fd, what) ==
  /\ interest' = [interest EXCEPT ![fd] = what]
  /\ UNCHANGED inEpoll

Del(fd) ==
  /\ inEpoll' = [inEpoll EXCEPT ![fd] = FALSE]
  /\ interest' = [interest EXCEPT ![fd] = {}]

\* op = left ? EPOLL_CTL_MOD : EPOLL_CTL_DEL, with the events `what'.
ModOrDel(fd, left, what) == IF left # {} THEN Mod(fd, what) ELSE Del(fd)

-----------------------------------------------------------------------------
Waiting(c) == \E fd \in Fds, ty \in Types : ctx[fd][ty] = c
Queued(c)  == \E i \in DOMAIN tasks : tasks[i] = c

\* Mutant of SlotAfter: triggleEvent copies the waiter and leaves it in the slot.
SlotKept(old, ty, S) == old[ty]

\* The slot of a type after triggleEvent for the types in S: co or func was
\* swapped out.
SlotAfter(old, ty, S) == IF ty \in S THEN None ELSE old[ty]

\* IOEvent::triggleEvent for each type in S.
Trigger(fd, S) ==
  /\ types' = [types EXCEPT ![fd] = @ \ S]
  /\ ctx' = [ctx EXCEPT ![fd] = [ty \in Types |-> SlotAfter(@, ty, S)]]
  /\ \E order \in Bijection(1 .. Cardinality(S), S) :
       tasks' = tasks \o [i \in 1 .. Cardinality(S) |-> ctx[fd][order[i]]]

\* resize(fd * 1.5)
Grown(fd) == (fd * 3) \div 2

\* addEvent for the current coroutine c, which suspends after it.
AddEvent(c, fd, ty) ==
  /\ ~polled /\ ~Waiting(c) /\ ~Queued(c)
  /\ ty \notin types[fd]
  /\ size' = IF size <= fd THEN Grown(fd) ELSE size
  /\ IF types[fd] # {} THEN inEpoll[fd] /\ Mod(fd, types[fd] \cup {ty})
                       ELSE ~inEpoll[fd] /\ Add(fd, types[fd] \cup {ty})
  /\ pending' = pending + 1
  /\ types' = [types EXCEPT ![fd] = @ \cup {ty}]
  /\ ctx' = [ctx EXCEPT ![fd][ty] = c]
  /\ UNCHANGED <<ready, hangup, events, polled, tasks>>

\* epoll_ctl fails: the descriptor left the epoll instance, or the kernel has
\* no room for it.
AddEventFails(fd, ty) ==
  /\ ~polled /\ ty \notin types[fd]
  /\ types[fd] # {} => ~inEpoll[fd]
  /\ size' = IF size <= fd THEN Grown(fd) ELSE size
  /\ UNCHANGED <<types, ctx, pending, kernel, ready, hangup, events, polled, tasks>>

\* Mutant of LeftInterest: the type that was taken out is still listened to.
SameInterest(fd, ty) == types[fd]

\* The events delEvent and handleEvent leave in the epoll instance.
LeftInterest(fd, ty) == types[fd] \ {ty}

\* delEvent: the waiter is forgotten.  Nothing happens when the event is not
\* registered or epoll_ctl fails.
DelEvent(fd, ty) ==
  /\ ~polled /\ size > fd /\ ty \in types[fd] /\ inEpoll[fd]
  /\ ModOrDel(fd, types[fd] \ {ty}, LeftInterest(fd, ty))
  /\ pending' = pending - 1
  /\ types' = [types EXCEPT ![fd] = @ \ {ty}]
  /\ ctx' = [ctx EXCEPT ![fd][ty] = None]
  /\ UNCHANGED <<size, ready, hangup, events, polled, tasks>>

\* handleEvent: the waiter goes back to the queue.
HandleEvent(fd, ty) ==
  /\ ~polled /\ size > fd /\ ty \in types[fd] /\ inEpoll[fd]
  /\ ModOrDel(fd, types[fd] \ {ty}, LeftInterest(fd, ty))
  /\ Trigger(fd, {ty})
  /\ pending' = pending - 1
  /\ UNCHANGED <<size, ready, hangup, events, polled>>

\* Mutant of Triggered: the counter goes down once for both directions.
TriggeredOnce(S) == 1

\* How often pendingEvents_ is decremented for the types in S.
Triggered(S) == Cardinality(S)

\* handleAllEvent, called by close().
HandleAllEvent(fd) ==
  /\ ~polled /\ size > fd /\ types[fd] # {} /\ inEpoll[fd]
  /\ Del(fd)
  /\ Trigger(fd, types[fd])
  /\ pending' = pending - Triggered(types[fd])
  /\ UNCHANGED <<size, ready, hangup, events, polled>>

-----------------------------------------------------------------------------
(* wait *)

\* What epoll_wait reports of a descriptor.
Reported(fd) == IF inEpoll[fd] THEN interest[fd] \cap ready[fd] ELSE {}
HangsUp(fd)  == inEpoll[fd] /\ hangup[fd]

EpollWait ==
  /\ ~polled
  /\ polled' = TRUE
  /\ events' = {[fd |-> fd, evs |-> Reported(fd), hup |-> HangsUp(fd)] :
                  fd \in {fd \in Fds : Reported(fd) # {} \/ HangsUp(fd)}}
  /\ UNCHANGED <<table, kernel, ready, hangup, tasks>>

\* Mutant of RealEvents: an event with an error or hang-up is dropped.
IgnoreHangUp(e) == IF e.hup THEN {} ELSE e.evs

\* Mutant of RealEvents: both directions, without asking what is registered.
BothEvents(e) == IF e.hup THEN Types ELSE e.evs

\* realEvents: on an error or hang-up all that is waited for.
RealEvents(e) == IF e.hup THEN e.evs \cup types[e.fd] ELSE e.evs

\* event.events = EPOLLET & left_events: no event type is left in the mask.
InterestAfterEvent(left) == {}

HandleOne(e) ==
  /\ polled /\ e \in events
  /\ events' = events \ {e}
  /\ LET real == RealEvents(e)
         left == types[e.fd] \ real
     IN IF types[e.fd] \cap real = {}
          THEN UNCHANGED <<types, ctx, pending, kernel, tasks>>
          ELSE /\ IF inEpoll[e.fd] THEN ModOrDel(e.fd, left, InterestAfterEvent(left))
                                   ELSE UNCHANGED kernel
               /\ Trigger(e.fd, real)
               /\ pending' = pending - Triggered(real)
  /\ UNCHANGED <<size, ready, hangup, polled>>

WaitReturns ==
  /\ polled /\ events = {}
  /\ polled' = FALSE
  /\ UNCHANGED <<table, kernel, ready, hangup, events, tasks>>

\* Worker::run resumes the coroutine at the head of the queue.
Resume ==
  /\ ~polled /\ tasks # <<>>
  /\ tasks' = Tail(tasks)
  /\ UNCHANGED <<table, kernel, ready, hangup, events, polled>>

-----------------------------------------------------------------------------
(* The kernel and the peers *)

BecomesReady(fd, ty) ==
  /\ ty \notin ready[fd]
  /\ ready' = [ready EXCEPT ![fd] = @ \cup {ty}]
  /\ UNCHANGED <<table, kernel, hangup, events, polled, tasks>>

\* The waiter, resumed, uses up what it waited for.
Consumed(fd, ty) ==
  /\ ty \in ready[fd] /\ ty \notin types[fd]
  /\ ready' = [ready EXCEPT ![fd] = @ \ {ty}]
  /\ UNCHANGED <<table, kernel, hangup, events, polled, tasks>>

HangUp(fd) ==
  /\ ~hangup[fd]
  /\ hangup' = [hangup EXCEPT ![fd] = TRUE]
  /\ UNCHANGED <<table, kernel, ready, events, polled, tasks>>

\* close() by another thread: its own poller does not know the descriptor;
\* the number is free for a new socket.
Closed(fd) ==
  /\ ForeignClose
  /\ Del(fd)
  /\ ready' = [ready EXCEPT ![fd] = {}]
  /\ hangup' = [hangup EXCEPT ![fd] = FALSE]
  /\ UNCHANGED <<table, events, polled, tasks>>

Wait == EpollWait \/ WaitReturns \/ \E e \in events : HandleOne(e)

Calls ==
  \/ \E c \in Waiters, fd \in Fds, ty \in Types : AddEvent(c, fd, ty)
  \/ \E fd \in Fds, ty \in Types :
       AddEventFails(fd, ty) \/ DelEvent(fd, ty) \/ HandleEvent(fd, ty)
  \/ \E fd \in Fds : HandleAllEvent(fd)

Environment ==
  \E fd \in Fds : \/ HangUp(fd) \/ Closed(fd)
                  \/ \E ty \in Types : BecomesReady(fd, ty) \/ Consumed(fd, ty)

Next == Calls \/ Wait \/ Resume \/ Environment

Spec == Init /\ [][Next]_vars

\* The worker keeps resuming tasks and polling when it has none.
FairSpec == Spec /\ WF_vars(Wait) /\ WF_vars(Resume)

-----------------------------------------------------------------------------
(* Properties *)

TypeOK ==
  /\ size \in Nat
  /\ types \in [Fds -> SUBSET Types]
  /\ ctx \in [Fds -> [Types -> Waiters \cup {None}]]
  /\ pending \in Int
  /\ inEpoll \in [Fds -> BOOLEAN]
  /\ interest \in [Fds -> SUBSET Types]
  /\ ready \in [Fds -> SUBSET Types]
  /\ hangup \in [Fds -> BOOLEAN]
  /\ events \in SUBSET [fd : Fds, evs : SUBSET Types, hup : BOOLEAN]
  /\ polled \in BOOLEAN
  /\ tasks \in Seq(Waiters)

\* The assertions of triggleEvent (the type is registered) and addEvent (the
\* slot is empty) cannot fail, and no event reaches past the end of ioEvents_:
\* what the kernel reports is registered, what is not registered has no waiter.
AssertionsHold ==
  /\ \A e \in events : e.evs \subseteq types[e.fd]
  /\ \A fd \in Fds, ty \in Types : ty \in types[fd] <=> ctx[fd][ty] # None
  /\ \A fd \in Fds : types[fd] # {} => fd < size

\* pendingEvents_ is the number of registered events; it never wraps.
Registered == {p \in Fds \X Types : p[2] \in types[p[1]]}
PendingCount == pending = Cardinality(Registered)

\* A waiter is in one slot or once in the queue: an event never hands back a
\* coroutine twice, and never one that is still registered elsewhere.
HandedBackOnce ==
  /\ \A p, q \in Fds \X Types :
       ctx[p[1]][p[2]] # None /\ ctx[p[1]][p[2]] = ctx[q[1]][q[2]] => p = q
  /\ \A i, j \in DOMAIN tasks : tasks[i] = tasks[j] => i = j
  /\ \A i \in DOMAIN tasks : ~Waiting(tasks[i])

\* A coroutine that waits for an event which has come, or for a descriptor that
\* has failed, goes back to the queue.
IOResumes ==
  \A fd \in Fds, ty \in Types :
    ty \in types[fd] /\ (ty \in ready[fd] \/ hangup[fd]) ~> ty \notin types[fd]

\* The same for a waiter the kernel watches for: it goes back to the queue, or
\* the kernel stops watching (another thread closed the descriptor, or the other
\* direction was handled, which is what IOResumes is about).
WatchedResumes ==
  \A fd \in Fds, ty \in Types :
    ty \in types[fd] /\ ty \in interest[fd] /\ (ty \in ready[fd] \/ hangup[fd])
      ~> ty \notin types[fd] \/ ty \notin interest[fd]
=============================================================================
