----------------------------- MODULE PollProofs -----------------------------
(***************************************************************************)
(* Proofs about the two sources of a worker's work: modules Epoller and    *)
(* Timer.                                                                  *)
(*                                                                         *)
(* The inductive invariant of Epoller adds to the properties that the      *)
(* kernel never listens for a type that is not registered, and that        *)
(* epoll_wait returns one event per descriptor.  The one of Timer adds     *)
(* that expire_ lies at most one interval ahead of the clock, that timers_ *)
(* holds only timers whose addTimer is over, and that a one-shot timer     *)
(* that was handed out or cancelled has lost its func_.                    *)
(***************************************************************************)
EXTENDS Epoller, Timer, FiniteSetTheorems, SequenceTheorems, TLAPS

(* Epoller *)

\* What the kernel may report is registered.
InterestRegistered ==
  \A fd \in Fds : interest[fd] \subseteq types[fd] /\ (~inEpoll[fd] => interest[fd] = {})

\* One event per descriptor, and none outside the event loop.
EventsDistinct ==
  /\ \A e, d \in events : e.fd = d.fd => e = d
  /\ ~polled => events = {}

IInv == TypeOK /\ InterestRegistered /\ EventsDistinct /\ AssertionsHold /\ HandedBackOnce

-----------------------------------------------------------------------------
\* A set of types, and the set of registered events, is finite.
LEMMA FiniteTypes ==
  ASSUME NEW S \in SUBSET Types
  PROVE  IsFiniteSet(S) /\ Cardinality(S) \in Nat
BY EpollerAssumption, FS_Subset, FS_CardinalityType

\* triggleEvent keeps the types of table and queue.
LEMMA TriggerType ==
  ASSUME TypeOK, AssertionsHold, NEW fd \in Fds, NEW S \in SUBSET types[fd], Trigger(fd, S)
  PROVE  /\ types' \in [Fds -> SUBSET Types]
         /\ ctx' \in [Fds -> [Types -> Waiters \cup {None}]]
         /\ tasks' \in Seq(Waiters)
<1> S \in SUBSET Types
  BY DEF TypeOK
<1>1. types' \in [Fds -> SUBSET Types] /\ ctx' \in [Fds -> [Types -> Waiters \cup {None}]]
  BY DEF TypeOK, Trigger, SlotAfter
<1>2. PICK order \in Bijection(1 .. Cardinality(S), S) :
        tasks' = tasks \o [i \in 1 .. Cardinality(S) |-> ctx[fd][order[i]]]
  BY DEF Trigger
<1> DEFINE back == [i \in 1 .. Cardinality(S) |-> ctx[fd][order[i]]]
<1>3. order \in [1 .. Cardinality(S) -> S]
  BY <1>2 DEF Bijection, Injection
<1>4. \A i \in 1 .. Cardinality(S) : ctx[fd][order[i]] \in Waiters
  BY <1>3, SMTT(60) DEF TypeOK, AssertionsHold
<1>5. back \in Seq(Waiters)
  BY <1>4, FiniteTypes
<1>6. tasks' \in Seq(Waiters)
  BY <1>2, <1>5, ConcatProperties DEF TypeOK
<1> QED
  BY <1>1, <1>6

\* triggleEvent empties exactly the slots of the types it takes out.
LEMMA TriggerSlots ==
  ASSUME TypeOK, AssertionsHold, NEW fd \in Fds, NEW S \in SUBSET types[fd], Trigger(fd, S)
  PROVE  /\ \A f \in Fds, ty \in Types : ty \in types'[f] <=> ctx'[f][ty] # None
         /\ \A f \in Fds, ty \in Types : ctx'[f][ty] # None => ctx'[f][ty] = ctx[f][ty]
         /\ \A ty \in S : ctx'[fd][ty] = None
         /\ types'[fd] = types[fd] \ S
         /\ \A f \in Fds \ {fd} : types'[f] = types[f]
BY DEF TypeOK, AssertionsHold, Trigger, SlotAfter

\* Two sequences without repetitions and without common elements.
LEMMA ConcatDistinct ==
  ASSUME NEW W, NEW a \in Seq(W), NEW b \in Seq(W),
         \A i, j \in DOMAIN a : a[i] = a[j] => i = j,
         \A i, j \in DOMAIN b : b[i] = b[j] => i = j,
         \A i \in DOMAIN a, j \in DOMAIN b : a[i] # b[j]
  PROVE  /\ \A i, j \in DOMAIN (a \o b) : (a \o b)[i] = (a \o b)[j] => i = j
         /\ \A i \in DOMAIN (a \o b) : \/ \E j \in DOMAIN a : (a \o b)[i] = a[j]
                                       \/ \E j \in DOMAIN b : (a \o b)[i] = b[j]
<1> DEFINE c == a \o b
<1>1. /\ c \in Seq(W) /\ Len(c) = Len(a) + Len(b)
      /\ \A i \in 1 .. Len(a) + Len(b) : c[i] = IF i <= Len(a) THEN a[i] ELSE b[i - Len(a)]
  BY ConcatProperties
<1>2. /\ Len(a) \in Nat /\ Len(b) \in Nat
      /\ DOMAIN a = 1 .. Len(a) /\ DOMAIN b = 1 .. Len(b) /\ DOMAIN c = 1 .. Len(a) + Len(b)
  BY <1>1
<1> HIDE DEF c
<1>3. \A i \in DOMAIN c : \/ i \in DOMAIN a /\ c[i] = a[i]
                          \/ /\ i - Len(a) \in DOMAIN b /\ i \notin DOMAIN a
                             /\ c[i] = b[i - Len(a)]
  BY <1>1, <1>2
<1>4. \A i, j \in DOMAIN c : c[i] = c[j] => i = j
  BY <1>2, <1>3
<1> QED
  BY <1>3, <1>4 DEF c

\* triggleEvent moves each waiter from its slot to the queue, once.
LEMMA TriggerOnce ==
  ASSUME TypeOK, AssertionsHold, HandedBackOnce,
         NEW fd \in Fds, NEW S \in SUBSET types[fd], Trigger(fd, S)
  PROVE  HandedBackOnce'
<1> S \in SUBSET Types
  BY DEF TypeOK
<1>1. PICK order \in Bijection(1 .. Cardinality(S), S) :
        tasks' = tasks \o [i \in 1 .. Cardinality(S) |-> ctx[fd][order[i]]]
  BY DEF Trigger
<1> DEFINE n == Cardinality(S)
           back == [i \in 1 .. n |-> ctx[fd][order[i]]]
<1>2. n \in Nat
  BY FiniteTypes
<1>3. order \in [1 .. n -> S] /\ \A i, j \in 1 .. n : order[i] = order[j] => i = j
  BY <1>1 DEF Bijection, Injection, IsInjective
<1>4. tasks' = tasks \o back
  BY <1>1
<1> HIDE DEF n
<1>5. \A ty \in S : ctx[fd][ty] # None /\ ctx[fd][ty] \in Waiters
  BY DEF TypeOK, AssertionsHold
<1>6. back \in Seq(Waiters) /\ DOMAIN back = 1 .. n
  BY <1>2, <1>3, <1>5
<1>7. \A i \in 1 .. n : order[i] \in S /\ back[i] = ctx[fd][order[i]]
  BY <1>3
<1> HIDE DEF back
<1>8. \A i, j \in DOMAIN back : back[i] = back[j] => i = j
  <2> SUFFICES ASSUME NEW i \in 1 .. n, NEW j \in 1 .. n, back[i] = back[j]
               PROVE  i = j
    BY <1>6
  <2>1. /\ <<fd, order[i]>> \in Fds \X Types /\ <<fd, order[j]>> \in Fds \X Types
        /\ ctx[fd][order[i]] = ctx[fd][order[j]] /\ ctx[fd][order[i]] # None
    BY <1>5, <1>7
  <2>2. <<fd, order[i]>> = <<fd, order[j]>>
    BY <2>1 DEF HandedBackOnce
  <2> QED
    BY <2>2, <1>3
<1>9. \A i \in DOMAIN tasks, j \in DOMAIN back : tasks[i] # back[j]
  BY <1>6, <1>7 DEF HandedBackOnce, Waiting
<1>10. /\ \A i, j \in DOMAIN tasks' : tasks'[i] = tasks'[j] => i = j
       /\ \A i \in DOMAIN tasks' : \/ \E j \in DOMAIN tasks : tasks'[i] = tasks[j]
                                   \/ \E j \in DOMAIN back : tasks'[i] = back[j]
  <2>1. \A i, j \in DOMAIN tasks : tasks[i] = tasks[j] => i = j
    BY DEF HandedBackOnce
  <2>2. tasks \in Seq(Waiters)
    BY DEF TypeOK
  <2>3. back \in Seq(Waiters)
    BY <1>6
  <2> DEFINE joined == tasks \o back
  <2>4. /\ \A i, j \in DOMAIN joined : joined[i] = joined[j] => i = j
        /\ \A i \in DOMAIN joined : \/ \E j \in DOMAIN tasks : joined[i] = tasks[j]
                                    \/ \E j \in DOMAIN back : joined[i] = back[j]
    BY <2>1, <2>2, <2>3, <1>8, <1>9, ConcatDistinct, SMTT(60)
  <2>5. tasks' = joined
    BY <1>4
  <2> QED
    BY <2>4, <2>5
<1>11. \A p, q \in Fds \X Types :
         ctx'[p[1]][p[2]] # None /\ ctx'[p[1]][p[2]] = ctx'[q[1]][q[2]] => p = q
  <2> SUFFICES ASSUME NEW p \in Fds \X Types, NEW q \in Fds \X Types,
                      ctx'[p[1]][p[2]] # None, ctx'[p[1]][p[2]] = ctx'[q[1]][q[2]]
               PROVE  p = q
    OBVIOUS
  <2>1. p[1] \in Fds /\ p[2] \in Types /\ q[1] \in Fds /\ q[2] \in Types
    OBVIOUS
  <2>2. ctx[p[1]][p[2]] # None /\ ctx[p[1]][p[2]] = ctx[q[1]][q[2]]
    BY <2>1, TriggerSlots
  <2> QED
    BY <2>2 DEF HandedBackOnce
<1>12. \A i \in DOMAIN tasks' : \A f \in Fds, ty \in Types : ctx'[f][ty] # tasks'[i]
  <2> SUFFICES ASSUME NEW i \in DOMAIN tasks', NEW f \in Fds, NEW ty \in Types,
                      ctx'[f][ty] = tasks'[i]
               PROVE  FALSE
    OBVIOUS
  <2>1. tasks'[i] # None
    BY TriggerType, EpollerAssumption
  <2>2. ctx[f][ty] = tasks'[i] /\ ctx'[f][ty] # None
    BY <2>1, TriggerSlots
  <2>3. CASE \E j \in DOMAIN tasks : tasks'[i] = tasks[j]
    BY <2>2, <2>3 DEF HandedBackOnce, Waiting
  <2>4. CASE \E j \in DOMAIN back : tasks'[i] = back[j]
    <3>1. PICK j \in 1 .. n : tasks'[i] = back[j]
      BY <2>4, <1>6
    <3>2. /\ <<f, ty>> \in Fds \X Types /\ <<fd, order[j]>> \in Fds \X Types
          /\ ctx[f][ty] = ctx[fd][order[j]] /\ ctx[f][ty] # None
      BY <3>1, <2>1, <2>2, <1>7
    <3>3. <<f, ty>> = <<fd, order[j]>>
      BY <3>2 DEF HandedBackOnce
    <3> QED
      BY <3>3, <2>2, <1>7, TriggerSlots
  <2> QED
    BY <2>3, <2>4, <1>10
<1> QED
  BY <1>10, <1>11, <1>12 DEF HandedBackOnce, Waiting

-----------------------------------------------------------------------------
\* What an event the poller is about to handle takes out is registered.
LEMMA RealRegistered ==
  ASSUME TypeOK, AssertionsHold, NEW e \in events
  PROVE  /\ e.fd \in Fds /\ RealEvents(e) \in SUBSET types[e.fd]
         /\ RealEvents(e) \in SUBSET Types
BY DEF TypeOK, AssertionsHold, RealEvents

\* The steps that trigger waiters of fd and leave the kernel an interest in
\* registered types keep the invariant.
LEMMA TriggerInv ==
  ASSUME IInv, NEW fd \in Fds, NEW S \in SUBSET types[fd], Trigger(fd, S),
         pending' \in Int,
         inEpoll' \in [Fds -> BOOLEAN], interest' \in [Fds -> SUBSET Types],
         \A f \in Fds : interest'[f] \subseteq types'[f] /\ (~inEpoll'[f] => interest'[f] = {}),
         events' \in SUBSET events, \A e \in events' : e.fd # fd,
         ~polled' => events' = {},
         UNCHANGED <<size, ready, hangup>>, polled' \in BOOLEAN
  PROVE  IInv'
<1> USE DEF IInv
<1>1. TypeOK'
  BY TriggerType DEF TypeOK
<1>2. InterestRegistered'
  BY DEF InterestRegistered
<1>3. EventsDistinct'
  BY DEF EventsDistinct
<1>4. AssertionsHold'
  <2>1. \A e \in events' : e.evs \subseteq types'[e.fd]
    <3> SUFFICES ASSUME NEW e \in events'
                 PROVE  e.evs \subseteq types'[e.fd]
      OBVIOUS
    <3>1. e \in events /\ e.fd \in Fds \ {fd}
      BY DEF TypeOK
    <3>2. types'[e.fd] = types[e.fd]
      BY <3>1, TriggerSlots
    <3> QED
      BY <3>1, <3>2 DEF AssertionsHold
  <2>2. \A f \in Fds : types'[f] # {} => f < size'
    BY TriggerSlots DEF AssertionsHold
  <2> QED
    BY <2>1, <2>2, TriggerSlots DEF AssertionsHold
<1>5. HandedBackOnce'
  BY TriggerOnce
<1> QED
  BY <1>1, <1>2, <1>3, <1>4, <1>5

\* addEvent registers a type that was free.
LEMMA AddEventInv ==
  ASSUME IInv, NEW c \in Waiters, NEW fd \in Fds, NEW ty \in Types, AddEvent(c, fd, ty)
  PROVE  IInv'
<1> USE DEF IInv
<1>0. fd \in Nat /\ fd >= 2 /\ Grown(fd) \in Nat /\ fd < Grown(fd)
  BY EpollerAssumption DEF Grown
<1>1. /\ interest' = [interest EXCEPT ![fd] = types[fd] \cup {ty}]
      /\ inEpoll' \in [Fds -> BOOLEAN]
      /\ \A f \in Fds : ~inEpoll'[f] => f # fd /\ ~inEpoll[f]
  BY DEF AddEvent, Add, Mod, TypeOK
<1>2. size' \in Nat /\ size' >= size /\ fd < size'
  BY <1>0 DEF AddEvent, TypeOK
<1>3. /\ types' = [types EXCEPT ![fd] = types[fd] \cup {ty}]
      /\ ctx' = [ctx EXCEPT ![fd] = [ctx[fd] EXCEPT ![ty] = c]]
      /\ ty \notin types[fd] /\ ~Waiting(c) /\ ~Queued(c)
      /\ events = {} /\ UNCHANGED <<events, polled, tasks, ready, hangup>>
      /\ pending' = pending + 1
  BY DEF AddEvent, EventsDistinct
<1>4. TypeOK'
  BY <1>1, <1>2, <1>3 DEF TypeOK
<1>5. InterestRegistered'
  BY <1>1, <1>3 DEF InterestRegistered, TypeOK
<1>6. EventsDistinct'
  BY <1>3 DEF EventsDistinct
<1>7. AssertionsHold'
  <2>1. \A f \in Fds, t \in Types : t \in types'[f] <=> ctx'[f][t] # None
    BY <1>3, EpollerAssumption DEF AssertionsHold, TypeOK
  <2>2. \A f \in Fds : types'[f] # {} => f < size'
    BY <1>2, <1>3, EpollerAssumption DEF AssertionsHold, TypeOK
  <2> QED
    BY <1>3, <2>1, <2>2 DEF AssertionsHold
<1>8. HandedBackOnce'
  <2>1. \A f \in Fds, t \in Types :
          ctx'[f][t] = IF f = fd /\ t = ty THEN c ELSE ctx[f][t]
    BY <1>3 DEF TypeOK
  <2>2. \A f \in Fds, t \in Types : ctx[f][t] # c
    BY <1>3 DEF Waiting
  <2>3. \A p, q \in Fds \X Types :
          ctx'[p[1]][p[2]] # None /\ ctx'[p[1]][p[2]] = ctx'[q[1]][q[2]] => p = q
    <3> SUFFICES ASSUME NEW f \in Fds, NEW t \in Types, NEW g \in Fds, NEW u \in Types,
                        ctx'[f][t] # None, ctx'[f][t] = ctx'[g][u]
                 PROVE  f = g /\ t = u
      OBVIOUS
    <3>1. CASE f = fd /\ t = ty
      BY <3>1, <2>1, <2>2
    <3>2. CASE ~(f = fd /\ t = ty)
      <4>1. ctx[f][t] # None /\ ctx[f][t] = ctx[g][u]
        BY <3>2, <2>1, <2>2
      <4>2. <<f, t>> \in Fds \X Types /\ <<g, u>> \in Fds \X Types
        OBVIOUS
      <4>3. <<f, t>> = <<g, u>>
        BY <4>1, <4>2 DEF HandedBackOnce
      <4> QED
        BY <4>3
    <3> QED
      BY <3>1, <3>2
  <2>4. \A i \in DOMAIN tasks : \A f \in Fds, t \in Types : ctx'[f][t] # tasks[i]
    BY <1>3, <2>1 DEF HandedBackOnce, Waiting, Queued
  <2> QED
    BY <2>3, <2>4, <1>3 DEF HandedBackOnce, Waiting
<1> QED
  BY <1>4, <1>5, <1>6, <1>7, <1>8

\* epoll_ctl with what delEvent and handleEvent leave keeps the kernel's
\* interest within the registered types.
LEMMA LeftInterestInv ==
  ASSUME IInv, NEW fd \in Fds, NEW ty \in Types, inEpoll[fd],
         ModOrDel(fd, types[fd] \ {ty}, LeftInterest(fd, ty)),
         types' \in [Fds -> SUBSET Types],
         \A f \in Fds : types'[f] = IF f = fd THEN types[f] \ {ty} ELSE types[f]
  PROVE  /\ interest' \in [Fds -> SUBSET Types] /\ inEpoll' \in [Fds -> BOOLEAN]
         /\ InterestRegistered'
<1> USE DEF IInv
<1>1. CASE types[fd] \ {ty} # {}
  <2>1. interest' = [interest EXCEPT ![fd] = types[fd] \ {ty}] /\ inEpoll' = inEpoll
    BY <1>1 DEF ModOrDel, Mod, LeftInterest
  <2> QED
    BY <2>1 DEF TypeOK, InterestRegistered
<1>2. CASE types[fd] \ {ty} = {}
  <2>1. /\ interest' = [interest EXCEPT ![fd] = {}]
        /\ inEpoll' = [inEpoll EXCEPT ![fd] = FALSE]
    BY <1>2 DEF ModOrDel, Del
  <2> QED
    BY <2>1 DEF TypeOK, InterestRegistered
<1> QED
  BY <1>1, <1>2

\* delEvent leaves the mask of the types that remain.
LEMMA DelEventInv ==
  ASSUME IInv, NEW fd \in Fds, NEW ty \in Types, DelEvent(fd, ty)
  PROVE  IInv'
<1> USE DEF IInv
<1>1. /\ types' = [types EXCEPT ![fd] = types[fd] \ {ty}]
      /\ ctx' = [ctx EXCEPT ![fd] = [ctx[fd] EXCEPT ![ty] = None]]
      /\ events = {} /\ UNCHANGED <<size, events, polled, tasks, ready, hangup>>
      /\ pending' = pending - 1
  BY DEF DelEvent, EventsDistinct
<1>2. /\ interest' \in [Fds -> SUBSET Types] /\ inEpoll' \in [Fds -> BOOLEAN]
      /\ InterestRegistered'
  <2>1. /\ types' \in [Fds -> SUBSET Types]
        /\ \A f \in Fds : types'[f] = IF f = fd THEN types[f] \ {ty} ELSE types[f]
    BY <1>1 DEF TypeOK
  <2>2. inEpoll[fd] /\ ModOrDel(fd, types[fd] \ {ty}, LeftInterest(fd, ty))
    BY DEF DelEvent
  <2> HIDE DEF IInv
  <2> QED
    BY <2>1, <2>2, LeftInterestInv
<1>3. TypeOK'
  <2>1. /\ types' \in [Fds -> SUBSET Types] /\ pending' \in Int
        /\ ctx' \in [Fds -> [Types -> Waiters \cup {None}]]
    BY <1>1 DEF TypeOK
  <2> QED
    BY <1>1, <1>2, <2>1 DEF TypeOK
<1>4. AssertionsHold'
  <2>1. \A f \in Fds, t \in Types : t \in types'[f] <=> ctx'[f][t] # None
    BY <1>1 DEF AssertionsHold, TypeOK
  <2>2. \A f \in Fds : types'[f] \subseteq types[f]
    BY <1>1 DEF TypeOK
  <2> QED
    BY <1>1, <2>1, <2>2 DEF AssertionsHold
<1>5. \A f \in Fds, t \in Types : ctx'[f][t] # None => ctx'[f][t] = ctx[f][t]
  BY <1>1 DEF TypeOK
<1>6. HandedBackOnce'
  <2>1. \A p, q \in Fds \X Types :
          ctx'[p[1]][p[2]] # None /\ ctx'[p[1]][p[2]] = ctx'[q[1]][q[2]] => p = q
    <3> SUFFICES ASSUME NEW p \in Fds \X Types, NEW q \in Fds \X Types,
                        ctx'[p[1]][p[2]] # None, ctx'[p[1]][p[2]] = ctx'[q[1]][q[2]]
                 PROVE  p = q
      OBVIOUS
    <3>1. p[1] \in Fds /\ p[2] \in Types /\ q[1] \in Fds /\ q[2] \in Types
      OBVIOUS
    <3>2. ctx[p[1]][p[2]] # None /\ ctx[p[1]][p[2]] = ctx[q[1]][q[2]]
      BY <3>1, <1>5
    <3> QED
      BY <3>2 DEF HandedBackOnce
  <2>2. \A i \in DOMAIN tasks : \A f \in Fds, t \in Types : ctx'[f][t] # tasks[i]
    BY <1>5, EpollerAssumption DEF HandedBackOnce, Waiting, TypeOK
  <2> QED
    BY <2>1, <2>2, <1>1 DEF HandedBackOnce, Waiting
<1> QED
  BY <1>1, <1>2, <1>3, <1>4, <1>6 DEF EventsDistinct

\* handleEvent hands back one waiter.
LEMMA HandleEventInv ==
  ASSUME IInv, NEW fd \in Fds, NEW ty \in Types, HandleEvent(fd, ty)
  PROVE  IInv'
<1> USE DEF IInv
<1>1. {ty} \in SUBSET types[fd] /\ Trigger(fd, {ty})
  BY DEF HandleEvent
<1>2. \A f \in Fds : types'[f] = IF f = fd THEN types[f] \ {ty} ELSE types[f]
  <2>1. /\ types'[fd] = types[fd] \ {ty}
        /\ \A f \in Fds \ {fd} : types'[f] = types[f]
    <3> HIDE DEF IInv
    <3>1. TypeOK /\ AssertionsHold
      BY DEF IInv
    <3> QED
      BY <1>1, <3>1, TriggerSlots
  <2> QED
    BY <2>1
<1>3. types' \in [Fds -> SUBSET Types]
  BY <1>1, TriggerType
<1>4. /\ interest' \in [Fds -> SUBSET Types] /\ inEpoll' \in [Fds -> BOOLEAN]
      /\ InterestRegistered'
  <2>1. inEpoll[fd] /\ ModOrDel(fd, types[fd] \ {ty}, LeftInterest(fd, ty))
    BY DEF HandleEvent
  <2> HIDE DEF IInv
  <2> QED
    BY <1>2, <1>3, <2>1, LeftInterestInv
<1>5. /\ pending' \in Int /\ events' = {} /\ events' \in SUBSET events
      /\ polled' \in BOOLEAN /\ UNCHANGED <<size, ready, hangup>>
  BY DEF HandleEvent, TypeOK, EventsDistinct
<1> QED
  BY <1>1, <1>4, <1>5, TriggerInv DEF InterestRegistered

\* handleAllEvent hands back every waiter of the descriptor.
LEMMA HandleAllEventInv ==
  ASSUME IInv, NEW fd \in Fds, HandleAllEvent(fd)
  PROVE  IInv'
<1> USE DEF IInv
<1>1. types[fd] \in SUBSET types[fd] /\ Trigger(fd, types[fd])
  BY DEF HandleAllEvent
<1>2. \A f \in Fds : f # fd => types'[f] = types[f]
  BY <1>1, TriggerSlots
<1>3. /\ interest' = [interest EXCEPT ![fd] = {}]
      /\ inEpoll' = [inEpoll EXCEPT ![fd] = FALSE]
  BY DEF HandleAllEvent, Del
<1>4. /\ interest' \in [Fds -> SUBSET Types] /\ inEpoll' \in [Fds -> BOOLEAN]
      /\ InterestRegistered'
  BY <1>2, <1>3 DEF TypeOK, InterestRegistered
<1>5. types[fd] \in SUBSET Types
  BY DEF TypeOK
<1>6. /\ pending' \in Int /\ events' = {} /\ events' \in SUBSET events
      /\ polled' \in BOOLEAN /\ UNCHANGED <<size, ready, hangup>>
  BY <1>5, FiniteTypes DEF HandleAllEvent, Triggered, TypeOK, EventsDistinct
<1> QED
  BY <1>1, <1>4, <1>6, TriggerInv DEF InterestRegistered

\* The event loop of wait() handles one event of the batch.
LEMMA HandleOneInv ==
  ASSUME IInv, NEW e \in events, HandleOne(e)
  PROVE  IInv'
<1> USE DEF IInv
<1> DEFINE fd == e.fd
           real == RealEvents(e)
<1>0. fd \in Fds /\ real \in SUBSET types[fd] /\ real \in SUBSET Types
  BY RealRegistered
<1>1. CASE types[fd] \cap real = {}
  <2>1. UNCHANGED <<table, kernel, tasks, ready, hangup, polled>> /\ events' = events \ {e}
    BY <1>1 DEF HandleOne, table
  <2> QED
    BY <2>1 DEF table, kernel, TypeOK, InterestRegistered, EventsDistinct, AssertionsHold,
                HandedBackOnce, Waiting, HandleOne
<1>2. CASE types[fd] \cap real # {}
  <2>1. /\ Trigger(fd, real) /\ pending' = pending - Triggered(real)
        /\ events' = events \ {e} /\ polled /\ UNCHANGED <<size, ready, hangup, polled>>
        /\ IF inEpoll[fd] THEN ModOrDel(fd, types[fd] \ real, {}) ELSE UNCHANGED kernel
    BY <1>2 DEF HandleOne, InterestAfterEvent
  <2> HIDE DEF fd, real
  <2>2. \A f \in Fds \ {fd} : types'[f] = types[f]
    BY <1>0, <2>1, TriggerSlots
  <2>3. /\ interest' = [interest EXCEPT ![fd] = {}]
        /\ inEpoll' = inEpoll \/ inEpoll' = [inEpoll EXCEPT ![fd] = FALSE]
    <3>1. CASE ~inEpoll[fd]
      BY <3>1, <2>1, <1>0 DEF kernel, TypeOK, InterestRegistered
    <3>2. CASE inEpoll[fd]
      BY <3>2, <2>1 DEF ModOrDel, Mod, Del
    <3> QED
      BY <3>1, <3>2
  <2>4. interest' \in [Fds -> SUBSET Types] /\ inEpoll' \in [Fds -> BOOLEAN]
    BY <2>3 DEF TypeOK
  <2>5. \A f \in Fds : interest'[f] \subseteq types'[f] /\ (~inEpoll'[f] => interest'[f] = {})
    BY <1>0, <2>2, <2>3 DEF TypeOK, InterestRegistered
  <2>6. pending' \in Int /\ polled' \in BOOLEAN
    BY <1>0, <2>1, FiniteTypes DEF Triggered, TypeOK
  <2>7. /\ events' \in SUBSET events /\ \A d \in events' : d.fd # fd
        /\ ~polled' => events' = {}
    BY <2>1 DEF EventsDistinct, fd
  <2> QED
    BY <1>0, <2>1, <2>4, <2>5, <2>6, <2>7, TriggerInv
<1> QED
  BY <1>1, <1>2

\* Worker::run takes the head of the queue.
LEMMA ResumeInv ==
  ASSUME IInv, Resume
  PROVE  IInv'
<1> USE DEF IInv
<1>1. /\ tasks # <<>> /\ tasks' = Tail(tasks) /\ tasks \in Seq(Waiters)
      /\ UNCHANGED <<size, types, ctx, pending, inEpoll, interest, ready, hangup, events, polled>>
  BY DEF Resume, table, kernel, TypeOK
<1>2. /\ tasks' \in Seq(Waiters)
      /\ \A i \in DOMAIN tasks' : i + 1 \in DOMAIN tasks /\ tasks'[i] = tasks[i + 1]
      /\ DOMAIN tasks' \in SUBSET Nat
  <2>1. tasks' \in Seq(Waiters) /\ Len(tasks') = Len(tasks) - 1
    BY <1>1, HeadTailProperties
  <2>2. \A i \in 1 .. Len(tasks') : tasks'[i] = tasks[i + 1]
    BY <1>1, HeadTailProperties
  <2>3. DOMAIN tasks' = 1 .. Len(tasks') /\ DOMAIN tasks = 1 .. Len(tasks) /\ Len(tasks) \in Nat
    BY <1>1, <2>1
  <2> QED
    BY <2>1, <2>2, <2>3
<1>3. HandedBackOnce'
  <2>1. \A i, j \in DOMAIN tasks' : tasks'[i] = tasks'[j] => i = j
    BY <1>2 DEF HandedBackOnce
  <2>2. \A i \in DOMAIN tasks' : \A fd \in Fds, ty \in Types : ctx[fd][ty] # tasks'[i]
    BY <1>2 DEF HandedBackOnce, Waiting
  <2> QED
    BY <1>1, <2>1, <2>2 DEF HandedBackOnce, Waiting
<1> QED
  BY <1>1, <1>2, <1>3 DEF TypeOK, InterestRegistered, EventsDistinct, AssertionsHold

\* epoll_wait reports one event per descriptor, of types it listens for.
LEMMA EpollWaitInv ==
  ASSUME IInv, EpollWait
  PROVE  IInv'
<1> USE DEF IInv
<1>1. /\ polled' = TRUE
      /\ UNCHANGED <<size, types, ctx, pending, inEpoll, interest, ready, hangup, tasks>>
  BY DEF EpollWait, table, kernel
<1>2. \A e \in events' : \E fd \in Fds :
        e = [fd |-> fd, evs |-> Reported(fd), hup |-> HangsUp(fd)]
  BY DEF EpollWait
<1>3. \A fd \in Fds : /\ Reported(fd) \in SUBSET Types /\ HangsUp(fd) \in BOOLEAN
                      /\ Reported(fd) \subseteq types[fd]
  BY DEF Reported, HangsUp, TypeOK, InterestRegistered
<1>4. \A e \in events' : /\ e \in [fd : Fds, evs : SUBSET Types, hup : BOOLEAN]
                         /\ e.evs \subseteq types[e.fd]
                         /\ e = [fd |-> e.fd, evs |-> Reported(e.fd), hup |-> HangsUp(e.fd)]
  BY <1>2, <1>3
<1>5. EventsDistinct'
  BY <1>1, <1>4 DEF EventsDistinct
<1>6. TypeOK'
  BY <1>1, <1>4 DEF TypeOK
<1>7. AssertionsHold'
  BY <1>1, <1>4 DEF AssertionsHold
<1>8. InterestRegistered' /\ HandedBackOnce'
  BY <1>1 DEF InterestRegistered, HandedBackOnce, Waiting
<1> QED
  BY <1>5, <1>6, <1>7, <1>8

\* The steps that change neither the slots nor the queue.
LEMMA OtherInv ==
  ASSUME IInv, NEW fd, NEW ty,
         \/ /\ fd \in Fds /\ ty \in Types
            /\ AddEventFails(fd, ty) \/ BecomesReady(fd, ty) \/ Consumed(fd, ty)
         \/ fd \in Fds /\ (HangUp(fd) \/ Closed(fd))
         \/ WaitReturns \/ UNCHANGED vars
  PROVE  IInv'
<1> USE DEF IInv
<1>1. UNCHANGED <<types, ctx, pending, tasks, events>>
  BY DEF AddEventFails, WaitReturns, BecomesReady, Consumed, HangUp, Closed, table, kernel, vars
<1>2. size' \in Nat /\ size' >= size
  <2>1. fd \in Fds => fd \in Nat /\ Grown(fd) \in Nat /\ fd <= Grown(fd)
    BY EpollerAssumption DEF Grown
  <2>2. size' = size \/ (fd \in Fds /\ size <= fd /\ size' = Grown(fd))
    BY DEF AddEventFails, WaitReturns, BecomesReady, Consumed, HangUp, Closed, table, vars
  <2> QED
    BY <2>1, <2>2 DEF TypeOK
<1>3. \/ UNCHANGED <<inEpoll, interest>>
      \/ /\ inEpoll' = [inEpoll EXCEPT ![fd] = FALSE]
         /\ interest' = [interest EXCEPT ![fd] = {}]
  BY DEF AddEventFails, WaitReturns, BecomesReady, Consumed, HangUp, Closed, Del, kernel, vars
<1>4. /\ inEpoll' \in [Fds -> BOOLEAN] /\ interest' \in [Fds -> SUBSET Types]
      /\ InterestRegistered'
  BY <1>1, <1>3 DEF TypeOK, InterestRegistered
<1>5. ready' \in [Fds -> SUBSET Types] /\ hangup' \in [Fds -> BOOLEAN] /\ polled' \in BOOLEAN
  <2>1. /\ ready \in [Fds -> SUBSET Types] /\ hangup \in [Fds -> BOOLEAN]
        /\ polled \in BOOLEAN
    BY DEF TypeOK
  <2>2. CASE WaitReturns \/ UNCHANGED vars
    BY <2>1, <2>2 DEF WaitReturns, vars
  <2>3. CASE fd \in Fds /\ ty \in Types /\ AddEventFails(fd, ty)
    BY <2>1, <2>3 DEF AddEventFails
  <2>4. CASE fd \in Fds /\ ty \in Types /\ (BecomesReady(fd, ty) \/ Consumed(fd, ty))
    BY <2>1, <2>4 DEF BecomesReady, Consumed
  <2>5. CASE fd \in Fds /\ (HangUp(fd) \/ Closed(fd))
    BY <2>1, <2>5 DEF HangUp, Closed
  <2> QED
    BY <2>2, <2>3, <2>4, <2>5
<1>6. EventsDistinct'
  <2>1. polled' = polled \/ events = {}
    BY DEF AddEventFails, WaitReturns, BecomesReady, Consumed, HangUp, Closed, vars
  <2> QED
    BY <1>1, <2>1 DEF EventsDistinct
<1>7. TypeOK'
  BY <1>1, <1>2, <1>4, <1>5 DEF TypeOK
<1>8. AssertionsHold'
  <2>1. \A f \in Fds : f \in Nat
    BY EpollerAssumption
  <2>2. size \in Nat /\ \A f \in Fds : types[f] # {} => f < size
    BY DEF AssertionsHold, TypeOK
  <2>3. \A f \in Fds : types[f] # {} => f < size'
    BY <1>2, <2>1, <2>2
  <2> QED
    BY <1>1, <2>3 DEF AssertionsHold
<1>9. HandedBackOnce'
  BY <1>1 DEF HandedBackOnce, Waiting
<1> QED
  BY <1>4, <1>6, <1>7, <1>8, <1>9

-----------------------------------------------------------------------------
\* A new poller has nothing registered.
LEMMA InitInv == Init => IInv
<1> SUFFICES ASSUME Init PROVE IInv
  OBVIOUS
<1>1. TypeOK
  <2>1. size \in Nat /\ pending \in Int
    BY DEF Init
  <2>2. ctx \in [Fds -> [Types -> Waiters \cup {None}]]
    BY DEF Init
  <2>3. /\ inEpoll \in [Fds -> BOOLEAN] /\ hangup \in [Fds -> BOOLEAN]
        /\ types \in [Fds -> SUBSET Types] /\ interest \in [Fds -> SUBSET Types]
        /\ ready \in [Fds -> SUBSET Types]
    BY DEF Init
  <2>4. events \in SUBSET [fd : Fds, evs : SUBSET Types, hup : BOOLEAN]
    BY Zenon DEF Init
  <2>5. tasks \in Seq(Waiters)
    BY EmptySeq DEF Init
  <2>6. polled \in BOOLEAN
    BY Zenon DEF Init
  <2> QED
    BY <2>1, <2>2, <2>3, <2>4, <2>5, <2>6, Zenon DEF TypeOK
<1>2. HandedBackOnce
  BY DEF Init, HandedBackOnce, Waiting
<1> QED
  BY <1>1, <1>2 DEF Init, IInv, InterestRegistered, EventsDistinct, AssertionsHold

\* Every step of the poller, of the kernel and of a foreign close.
LEMMA NextInv == IInv /\ [Next]_vars => IInv'
<1> SUFFICES ASSUME IInv, [Next]_vars PROVE IInv'
  OBVIOUS
<1>1. ASSUME NEW c \in Waiters, NEW fd \in Fds, NEW ty \in Types, AddEvent(c, fd, ty)
      PROVE  IInv'
  BY <1>1, AddEventInv
<1>2. ASSUME NEW fd \in Fds, NEW ty \in Types,
             AddEventFails(fd, ty) \/ BecomesReady(fd, ty) \/ Consumed(fd, ty)
      PROVE  IInv'
  BY <1>2, OtherInv
<1>3. ASSUME NEW fd \in Fds, NEW ty \in Types, DelEvent(fd, ty) \/ HandleEvent(fd, ty)
      PROVE  IInv'
  BY <1>3, DelEventInv, HandleEventInv
<1>4. ASSUME NEW fd \in Fds, HandleAllEvent(fd) PROVE IInv'
  BY <1>4, HandleAllEventInv
<1>5. ASSUME NEW fd \in Fds, HangUp(fd) \/ Closed(fd) PROVE IInv'
  BY <1>5, OtherInv
<1>6. CASE EpollWait
  BY <1>6, EpollWaitInv
<1>7. CASE WaitReturns \/ UNCHANGED vars
  BY <1>7, OtherInv
<1>8. ASSUME NEW e \in events, HandleOne(e) PROVE IInv'
  BY <1>8, HandleOneInv
<1>9. CASE Resume
  BY <1>9, ResumeInv
<1> QED
  BY <1>1, <1>2, <1>3, <1>4, <1>5, <1>6, <1>7, <1>8, <1>9
     DEF Next, Calls, Wait, Environment

\* The table, the kernel's view and the queue agree in every reachable state.
THEOREM Invariance == Spec => []IInv
BY InitInv, NextInv, PTL DEF Spec

\* The assertions of triggleEvent and addEvent never fail and every event lies
\* inside ioEvents_, whatever descriptors, waiters and foreign closes there are.
THEOREM AssertionsNeverFail == Spec => []AssertionsHold
<1>1. IInv => AssertionsHold
  BY DEF IInv
<1> QED
  BY Invariance, <1>1, PTL

\* No waiter is handed back twice, or while it is still registered.
THEOREM NeverHandedBackTwice == Spec => []HandedBackOnce
<1>1. IInv => HandedBackOnce
  BY DEF IInv
<1> QED
  BY Invariance, <1>1, PTL

\* The state of the poller keeps its types.
THEOREM TypeCorrect == Spec => []TypeOK
<1>1. IInv => TypeOK
  BY DEF IInv
<1> QED
  BY Invariance, <1>1, PTL

-----------------------------------------------------------------------------
(* The counter *)

\* The set of registered events is finite.
LEMMA RegisteredFinite == IsFiniteSet(Registered) /\ Cardinality(Registered) \in Nat
<1>1. IsFiniteSet(Fds \X Types)
  BY EpollerAssumption, FS_Product
<1>2. Registered \in SUBSET (Fds \X Types)
  BY DEF Registered
<1> QED
  BY <1>1, <1>2, FS_Subset, FS_CardinalityType

\* A step that takes the registered types S of fd out of the table has to take
\* Cardinality(S) off the counter.
LEMMA TakenOut ==
  ASSUME TypeOK, PendingCount, NEW fd \in Fds, NEW S \in SUBSET types[fd],
         types' = [types EXCEPT ![fd] = types[fd] \ S], pending' = pending - Cardinality(S)
  PROVE  PendingCount'
<1> DEFINE out == {fd} \X S
<1>1. S \in SUBSET Types
  BY DEF TypeOK
<1>2. Cardinality(out) = Cardinality(S)
  <2>1. IsFiniteSet({fd}) /\ Cardinality({fd}) = 1
    BY FS_Singleton
  <2>2. IsFiniteSet(S) /\ Cardinality(S) \in Nat
    BY <1>1, FiniteTypes
  <2>3. Cardinality(out) = Cardinality({fd}) * Cardinality(S)
    BY <2>1, <2>2, FS_Product
  <2> QED
    BY <2>1, <2>2, <2>3
<1>3. Registered' = Registered \ out
  <2>1. \A p \in Fds \X Types : p[2] \in types'[p[1]] <=> p[2] \in types[p[1]] /\ p \notin out
    BY <1>1 DEF TypeOK
  <2> QED
    BY <2>1 DEF Registered
<1>4. Registered \cap out = out
  BY <1>1 DEF Registered, TypeOK
<1> HIDE DEF out
<1>5. Cardinality(Registered \ out) = Cardinality(Registered) - Cardinality(S)
  <2>1. Cardinality(Registered \ out) = Cardinality(Registered) - Cardinality(Registered \cap out)
    BY RegisteredFinite, FS_Difference
  <2> QED
    BY <2>1, <1>2, <1>4
<1> QED
  BY <1>3, <1>5 DEF PendingCount

\* pendingEvents_ moves with the table in every step.
LEMMA NextPending == IInv /\ PendingCount /\ [Next]_vars => PendingCount'
<1> SUFFICES ASSUME IInv, PendingCount, [Next]_vars PROVE PendingCount'
  OBVIOUS
<1>0. TypeOK /\ AssertionsHold
  BY DEF IInv
<1>1. ASSUME NEW c \in Waiters, NEW fd \in Fds, NEW ty \in Types, AddEvent(c, fd, ty)
      PROVE  PendingCount'
  <2>1. /\ types' = [types EXCEPT ![fd] = types[fd] \cup {ty}] /\ ty \notin types[fd]
        /\ pending' = pending + 1
    BY <1>1 DEF AddEvent
  <2>2. Registered' = Registered \cup {<<fd, ty>>} /\ <<fd, ty>> \notin Registered
    BY <1>0, <2>1 DEF Registered, TypeOK
  <2>3. Cardinality(Registered \cup {<<fd, ty>>}) = Cardinality(Registered) + 1
    BY <2>2, RegisteredFinite, FS_AddElement
  <2> QED
    BY <2>1, <2>2, <2>3 DEF PendingCount
<1>2. ASSUME NEW fd \in Fds, NEW ty \in Types, DelEvent(fd, ty) \/ HandleEvent(fd, ty)
      PROVE  PendingCount'
  <2>1. /\ {ty} \in SUBSET types[fd] /\ types' = [types EXCEPT ![fd] = types[fd] \ {ty}]
        /\ pending' = pending - 1
    BY <1>2 DEF DelEvent, HandleEvent, Trigger
  <2>2. Cardinality({ty}) = 1
    BY FS_Singleton
  <2> QED
    BY <1>0, <2>1, <2>2, TakenOut
<1>3. ASSUME NEW fd \in Fds, HandleAllEvent(fd)
      PROVE  PendingCount'
  <2>1. /\ types[fd] \in SUBSET types[fd]
        /\ types' = [types EXCEPT ![fd] = types[fd] \ types[fd]]
        /\ pending' = pending - Cardinality(types[fd])
    BY <1>3 DEF HandleAllEvent, Trigger, Triggered
  <2> QED
    BY <1>0, <2>1, TakenOut
<1>4. ASSUME NEW e \in events, HandleOne(e)
      PROVE  PendingCount'
  <2>1. e.fd \in Fds /\ RealEvents(e) \in SUBSET types[e.fd]
    BY <1>0, RealRegistered
  <2>2. CASE types[e.fd] \cap RealEvents(e) = {}
    BY <1>4, <2>2 DEF HandleOne, PendingCount, Registered
  <2>3. CASE types[e.fd] \cap RealEvents(e) # {}
    <3>1. /\ types' = [types EXCEPT ![e.fd] = types[e.fd] \ RealEvents(e)]
          /\ pending' = pending - Cardinality(RealEvents(e))
      BY <1>4, <2>3 DEF HandleOne, Trigger, Triggered
    <3> QED
      BY <1>0, <2>1, <3>1, TakenOut
  <2> QED
    BY <2>2, <2>3
<1>5. CASE UNCHANGED <<types, pending>>
  BY <1>5 DEF PendingCount, Registered
<1>6. \/ UNCHANGED <<types, pending>>
      \/ \E c \in Waiters, fd \in Fds, ty \in Types : AddEvent(c, fd, ty)
      \/ \E fd \in Fds, ty \in Types : DelEvent(fd, ty) \/ HandleEvent(fd, ty)
      \/ \E fd \in Fds : HandleAllEvent(fd)
      \/ \E e \in events : HandleOne(e)
  BY DEF Next, Calls, Wait, Environment, AddEventFails, EpollWait, WaitReturns, Resume,
         BecomesReady, Consumed, HangUp, Closed, table, vars
<1> QED
  BY <1>1, <1>2, <1>3, <1>4, <1>5, <1>6

\* pendingEvents_ counts the registered events exactly, so the unsigned counter
\* never wraps below zero.
THEOREM PendingExact == Spec => []PendingCount
<1>1. Init => PendingCount
  <2> SUFFICES ASSUME Init PROVE PendingCount
    OBVIOUS
  <2>1. Registered = {} /\ pending = 0
    BY DEF Init, Registered
  <2> QED
    BY <2>1, FS_EmptySet DEF PendingCount
<1> QED
  BY <1>1, Invariance, NextPending, PTL DEF Spec

-----------------------------------------------------------------------------
(* Timer *)

\* interval_ <= expire_ <= now + interval_: what reset() subtracts is there, and
\* refresh() only moves a timer back.
ExpireInRange ==
  \A t \in Timers : interval[t] <= expire[t] /\ expire[t] <= now + interval[t]

\* A timer in the set has left addTimer; one still inside addTimer has its func_.
OnlyUsed ==
  /\ \A e \in timers : stage[e.id] = "used"
  /\ \A t \in Timers : stage[t] = "made" => func[t]

\* func_ of a one-shot timer is gone once it was handed out, and of any timer
\* once it was cancelled.
Spent ==
  /\ \A i \in DOMAIN queue : stage[queue[i]] = "used"
                             /\ (~recursive[queue[i]] => ~func[queue[i]])
  /\ \A t \in cancelled : stage[t] = "used" /\ ~func[t]

TimerInv == TimerTypeOK /\ ExpireInRange /\ OnlyUsed /\ SetConsistent /\ Spent /\ NoOversleep
        /\ CancelIsFinal
-----------------------------------------------------------------------------
\* A step of the clock delays nobody: only the bounds that mention it can change.
LEMMA TickStep == ASSUME TimerInv, Tick PROVE TimerInv'
<1> USE DEF TimerInv, Tick
<1>1. TimerTypeOK'
  BY DEF TimerTypeOK
<1>2. ExpireInRange'
  BY DEF TimerTypeOK, ExpireInRange
<1>3. OnlyUsed' /\ SetConsistent' /\ Spent' /\ CancelIsFinal'
  BY DEF OnlyUsed, SetConsistent, Spent, CancelIsFinal, Entry
<1>4. NoOversleep'
  BY TimerAssumption DEF TimerTypeOK, NoOversleep, Entries
<1> QED
  BY <1>1, <1>2, <1>3, <1>4

\* The constructor touches a timer nobody has seen.
LEMMA ConstructStep ==
  ASSUME TimerInv, NEW t \in Timers, NEW i \in Intervals, NEW rec \in BOOLEAN, Construct(t, i, rec)
  PROVE  TimerInv'
<1> USE DEF TimerInv, Construct, clock
<1> i \in Nat
  BY TimerAssumption
<1>1. TimerTypeOK'
  BY DEF TimerTypeOK
<1>2. ExpireInRange'
  BY DEF TimerTypeOK, ExpireInRange
<1>3. \A e \in timers : e.id # t /\ e.id \in Timers
  BY DEF OnlyUsed, TimerTypeOK, Entries
<1>4. OnlyUsed'
  BY <1>3 DEF TimerTypeOK, OnlyUsed
<1>5. SetConsistent'
  BY <1>3 DEF TimerTypeOK, SetConsistent, Entry
<1>6. \A j \in DOMAIN queue : queue[j] # t /\ queue[j] \in Timers
  BY DEF Spent, TimerTypeOK
<1>7. t \notin cancelled
  BY DEF Spent
<1>8. Spent' /\ CancelIsFinal'
  BY <1>6, <1>7 DEF TimerTypeOK, Spent, CancelIsFinal
<1>9. NoOversleep'
  BY DEF NoOversleep
<1> QED
  BY <1>1, <1>2, <1>4, <1>5, <1>8, <1>9

\* An entry that does not come first comes behind one that was there before.
LEMMA BehindAnother ==
  ASSUME NEW S \in SUBSET Entries, NEW e \in Entries, ~IsFront(e, S \cup {e})
  PROVE  \E d \in S : d # e /\ d.key <= e.key
<1>1. PICK d \in S \cup {e} : d # e /\ ~Less(e, d)
  BY DEF IsFront
<1>2. d \in S /\ d.key \in Nat /\ e.key \in Nat
  BY <1>1 DEF Entries
<1> QED
  BY <1>1, <1>2 DEF Less

\* Insertion calls timerInsertAtFront or comes behind a timer that the sleeping
\* worker already knows of.
LEMMA InsertStep == ASSUME TimerInv, NEW t \in Timers, Insert(t) PROVE TimerInv'
<1> USE DEF TimerInv, Insert
<1>1. Entry(t) \in Entries /\ Entry(t).key = expire[t] /\ Entry(t).id = t
  BY DEF TimerTypeOK, Entries, Entry
<1>2. TimerTypeOK'
  BY <1>1 DEF TimerTypeOK, NotifyIfFront, IsFront
<1>3. ExpireInRange'
  BY DEF ExpireInRange
<1>4. OnlyUsed'
  BY <1>1 DEF TimerTypeOK, OnlyUsed, Entries
<1>5. SetConsistent'
  <2>1. \A e \in timers' : e.key = expire'[e.id]
    BY <1>1 DEF SetConsistent
  <2>2. \A u \in Timers : u # t => Entry(u) # Entry(t)
    BY DEF Entry
  <2>3. func[t]
    BY DEF OnlyUsed
  <2> QED
    BY <2>1, <2>2, <2>3 DEF TimerTypeOK, SetConsistent, Entry
<1>6. Spent' /\ CancelIsFinal'
  BY DEF TimerTypeOK, Spent, CancelIsFinal
<1>7. NoOversleep'
  <2> SUFFICES ASSUME sleepTill # Awake, ~notified' PROVE NoOversleep'
    BY DEF NoOversleep
  <2>1. ~notified /\ ~IsFront(Entry(t), timers \cup {Entry(t)})
    BY DEF NotifyIfFront
  <2>2. PICK d \in timers : d.key <= expire[t]
    BY <2>1, <1>1, BehindAnother DEF TimerTypeOK
  <2>3. /\ sleepTill # Forever
        /\ \A e \in timers : sleepTill <= now \/ sleepTill <= e.key
    BY <2>1, <2>2 DEF NoOversleep
  <2>4. sleepTill <= now \/ sleepTill <= expire[t]
    BY <2>2, <2>3, TimerAssumption DEF TimerTypeOK, Entries
  <2> QED
    BY <2>3, <2>4, <1>1 DEF NoOversleep
<1> QED
  BY <1>2, <1>3, <1>4, <1>5, <1>6, <1>7

\* cancel() returns true only for a timer that has func_, which expiredFunctions
\* takes from a one-shot timer when it hands its function out.
LEMMA CancelStep == ASSUME TimerInv, NEW t \in Timers, Cancel(t) PROVE TimerInv'
<1> USE DEF TimerInv, Cancel, clock
<1>1. TimerTypeOK'
  BY DEF TimerTypeOK
<1>2. ExpireInRange' /\ OnlyUsed' /\ NoOversleep'
  BY DEF TimerTypeOK, ExpireInRange, OnlyUsed, NoOversleep
<1>3. SetConsistent'
  BY DEF TimerTypeOK, SetConsistent, Entry
<1>4. Spent'
  BY DEF TimerTypeOK, Spent
<1>5. CancelIsFinal'
  BY DEF TimerTypeOK, Spent, CancelIsFinal
<1> QED
  BY <1>1, <1>2, <1>3, <1>4, <1>5

\* refresh() moves a timer back, never forward: who sleeps still wakes in time.
LEMMA RefreshStep == ASSUME TimerInv, NEW t \in Timers, Refresh(t) PROVE TimerInv'
<1> USE DEF TimerInv, Refresh, clock
<1> DEFINE e == [key |-> now + interval[t], id |-> t]
<1>1. e \in Entries /\ e.key = now + interval[t] /\ e.id = t /\ Entry(t) \in Entries
  BY DEF TimerTypeOK, Entries, Entry
<1>2. TimerTypeOK'
  BY <1>1 DEF TimerTypeOK
<1>3. ExpireInRange'
  BY DEF TimerTypeOK, ExpireInRange
<1>4. OnlyUsed'
  BY DEF TimerTypeOK, OnlyUsed
<1>5. SetConsistent'
  <2>1. \A d \in timers \ {Entry(t)} : d.id # t /\ d.id \in Timers
    BY DEF TimerTypeOK, SetConsistent, Entries, Entry
  <2>2. \A d \in timers' : d.key = expire'[d.id]
    BY <1>1, <2>1 DEF TimerTypeOK, SetConsistent
  <2>3. \A u \in Timers : u # t => (Entry(u)' \in timers' <=> Entry(u) \in timers)
    BY DEF TimerTypeOK, Entry
  <2>4. Entry(t)' \in timers' /\ func[t]
    BY DEF TimerTypeOK, Entry
  <2> QED
    BY <2>2, <2>3, <2>4 DEF TimerTypeOK, SetConsistent
<1>6. Spent' /\ CancelIsFinal'
  BY DEF Spent, CancelIsFinal
<1>7. NoOversleep'
  <2> SUFFICES ASSUME sleepTill # Awake, ~notified PROVE NoOversleep'
    BY DEF NoOversleep
  <2>1. sleepTill # Forever /\ (sleepTill <= now \/ sleepTill <= expire[t])
    BY DEF NoOversleep, Entry
  <2>2. sleepTill <= now \/ sleepTill <= e.key
    BY <2>1, <1>1, TimerAssumption DEF TimerTypeOK, ExpireInRange
  <2> QED
    BY <2>1, <2>2 DEF NoOversleep
<1> QED
  BY <1>2, <1>3, <1>4, <1>5, <1>6, <1>7

\* reset() counts from now or from where the interval began, which is not after
\* now; when that makes the timer the first one, timerInsertAtFront is called.
LEMMA ResetStep ==
  ASSUME TimerInv, NEW t \in Timers, NEW i \in Intervals, NEW fromNow \in BOOLEAN,
         Reset(t, i, fromNow)
  PROVE  TimerInv'
<1> USE DEF TimerInv, Reset
<1> DEFINE start == ResetStart(t, fromNow)
           e == [key |-> start + i, id |-> t]
<1>1. i \in Nat /\ start \in Nat /\ start <= now
  BY TimerAssumption DEF TimerTypeOK, ExpireInRange, ResetStart
<1> HIDE DEF start
<1>2. e \in Entries /\ e.key = start + i /\ e.id = t /\ Entry(t) \in Entries
  BY <1>1 DEF TimerTypeOK, Entries, Entry
<1>3. timers' = (timers \ {Entry(t)}) \cup {e} /\ notified' = NotifyIfFront(e)
  BY DEF start
<1>4. interval' = [interval EXCEPT ![t] = i] /\ expire' = [expire EXCEPT ![t] = start + i]
  BY DEF start
<1>5. TimerTypeOK'
  BY <1>1, <1>2, <1>3, <1>4 DEF TimerTypeOK, NotifyIfFront, IsFront
<1>6. ExpireInRange'
  BY <1>1, <1>4 DEF TimerTypeOK, ExpireInRange
<1>7. OnlyUsed'
  BY <1>3 DEF TimerTypeOK, OnlyUsed
<1>8. SetConsistent'
  <2>1. \A d \in timers \ {Entry(t)} : d.id # t /\ d.id \in Timers
    BY DEF TimerTypeOK, SetConsistent, Entries, Entry
  <2>2. \A d \in timers' : d.key = expire'[d.id]
    BY <1>2, <1>3, <1>4, <2>1 DEF TimerTypeOK, SetConsistent
  <2>3. \A u \in Timers : u # t => (Entry(u)' \in timers' <=> Entry(u) \in timers)
    BY <1>3, <1>4 DEF TimerTypeOK, Entry
  <2>4. Entry(t)' \in timers' /\ func[t]
    BY <1>3, <1>4 DEF TimerTypeOK, Entry
  <2> QED
    BY <2>2, <2>3, <2>4 DEF TimerTypeOK, SetConsistent
<1>9. Spent' /\ CancelIsFinal'
  BY DEF Spent, CancelIsFinal
<1>10. NoOversleep'
  <2> SUFFICES ASSUME sleepTill # Awake, ~notified' PROVE NoOversleep'
    BY DEF NoOversleep
  <2>1. ~notified /\ ~IsFront(e, (timers \ {Entry(t)}) \cup {e})
    BY <1>3 DEF NotifyIfFront
  <2>2. PICK d \in timers : d.key <= e.key
    <3>1. PICK S : S = timers \ {Entry(t)}
      OBVIOUS
    <3>2. S \in SUBSET Entries /\ S \subseteq timers
      BY <3>1 DEF TimerTypeOK
    <3>3. e \in Entries /\ ~IsFront(e, S \cup {e})
      BY <2>1, <1>2, <3>1
    <3> HIDE DEF e
    <3>4. \E d \in S : d # e /\ d.key <= e.key
      BY <3>2, <3>3, BehindAnother
    <3> QED
      BY <3>2, <3>4
  <2>3. /\ sleepTill # Forever
        /\ \A c \in timers : sleepTill <= now \/ sleepTill <= c.key
    BY <2>1, <2>2 DEF NoOversleep
  <2>4. sleepTill <= now \/ sleepTill <= e.key
    BY <2>2, <2>3, <1>2, TimerAssumption DEF TimerTypeOK, Entries
  <2> QED
    BY <2>3, <2>4, <1>3 DEF NoOversleep
<1> QED
  BY <1>5, <1>6, <1>7, <1>8, <1>9, <1>10

\* A worker that goes to sleep wakes up for the first timer.
LEMMA GetExpireStep == ASSUME TimerInv, GetExpire PROVE TimerInv'
<1> USE DEF TimerInv, GetExpire
<1>1. TimerTypeOK'
  BY DEF TimerTypeOK, Entries
<1>2. ExpireInRange' /\ OnlyUsed' /\ SetConsistent' /\ Spent' /\ CancelIsFinal'
  BY DEF ExpireInRange, OnlyUsed, SetConsistent, Entry, Spent, CancelIsFinal
<1>3. NoOversleep'
  <2>1. CASE timers = {}
    BY <2>1 DEF NoOversleep
  <2>2. CASE timers # {}
    <3>1. PICK e \in timers : /\ IsFront(e, timers)
                              /\ sleepTill' = IF now > e.key THEN now ELSE e.key
      BY <2>2
    <3>2. \A d \in timers : d.key \in Nat
      BY DEF TimerTypeOK, Entries
    <3>3. \A d \in timers : d = e \/ e.key < d.key \/ e.key = d.key
      BY <3>1 DEF IsFront, Less
    <3>4. \A d \in timers : e.key <= d.key
      BY <3>2, <3>3
    <3> QED
      BY <3>1, <3>2, <3>4, TimerAssumption DEF NoOversleep, TimerTypeOK
  <2> QED
    BY <2>1, <2>2
<1> QED
  BY <1>1, <1>2, <1>3

\* A worker runs a function that was handed out.
LEMMA RunStep == ASSUME TimerInv, Run PROVE TimerInv'
<1> USE DEF TimerInv, Run, clock
<1>1. /\ Tail(queue) \in Seq(Timers) /\ Len(Tail(queue)) = Len(queue) - 1
      /\ \A i \in 1 .. Len(Tail(queue)) : Tail(queue)[i] = queue[i + 1]
  BY HeadTailProperties DEF TimerTypeOK
<1>2. \A i \in DOMAIN queue' : i + 1 \in DOMAIN queue /\ queue'[i] = queue[i + 1]
  BY <1>1, SMTT(60) DEF TimerTypeOK
<1>3. TimerTypeOK'
  BY <1>1 DEF TimerTypeOK
<1>4. ExpireInRange' /\ OnlyUsed' /\ SetConsistent' /\ NoOversleep'
  BY DEF ExpireInRange, OnlyUsed, SetConsistent, Entry, NoOversleep
<1>5. Spent' /\ CancelIsFinal'
  BY <1>2 DEF Spent, CancelIsFinal
<1> QED
  BY <1>3, <1>4, <1>5

-----------------------------------------------------------------------------
(* expiredFunctions *)

\* The timers expiredFunctions takes, and the ones among them it arms again.
Due(address) == {e.id : e \in DueEntries([key |-> now, id |-> address])}
Again(address) == {t \in Due(address) : recursive[t]}

\* Wherever the temporary of expiredFunctions was allocated, the timers it takes
\* are the ones in the set that have expired.
LEMMA DueIsExpired ==
  ASSUME TimerInv, NEW address \in Addresses
  PROVE  /\ Due(address) \in SUBSET Timers
         /\ \A t \in Timers : t \in Due(address) <=> (Entry(t) \in timers /\ expire[t] <= now)
         /\ \A e \in timers : e \in DueEntries([key |-> now, id |-> address])
                                <=> e.id \in Due(address)
         /\ \A t \in Due(address) : stage[t] = "used" /\ func[t]
<1> DEFINE bound == [key |-> now, id |-> address]
<1>1. bound.key = now /\ bound.id = address
  OBVIOUS
<1>2. \A e \in timers : e \in Entries /\ e.id \in Timers /\ e.key \in Nat
                        /\ e = Entry(e.id) /\ e.key = expire[e.id]
  BY DEF TimerInv, TimerTypeOK, SetConsistent, Entries, Entry
<1>3. \A e \in timers : e \in DueEntries(bound) <=> e.key <= now
  BY <1>1, <1>2, TimerAssumption DEF DueEntries, Less, TimerInv, TimerTypeOK
<1>4. DueEntries(bound) \subseteq timers
  BY DEF DueEntries
<1>5. \A t \in Timers : Entry(t).key = expire[t] /\ Entry(t).id = t
  BY DEF Entry
<1>6. \A t \in Timers : t \in Due(address) <=> (Entry(t) \in timers /\ expire[t] <= now)
  BY <1>2, <1>3, <1>4, <1>5 DEF Due
<1>7. Due(address) \in SUBSET Timers
  BY <1>2, <1>4 DEF Due
<1>8. \A e \in timers : e \in DueEntries(bound) <=> e.id \in Due(address)
  BY <1>2, <1>3, <1>6
<1>9. \A t \in Due(address) : stage[t] = "used" /\ func[t]
  BY <1>5, <1>6, <1>7 DEF TimerInv, OnlyUsed, SetConsistent
<1> QED
  BY <1>6, <1>7, <1>8, <1>9

\* What expiredFunctions does, in terms of these sets.
LEMMA ExpiredEffect ==
  ASSUME TimerInv, NEW address \in Addresses, NEW mine \in BOOLEAN, Expired(address, mine)
  PROVE  /\ \E order \in [1 .. Cardinality(Due(address)) -> Due(address)] :
              /\ \A i, j \in DOMAIN order : i < j => Less(Entry(order[i]), Entry(order[j]))
              /\ queue' = queue \o order
         /\ expire' = [t \in Timers |-> IF t \in Again(address) THEN now + interval[t]
                                                                ELSE expire[t]]
         /\ func' = [t \in Timers |-> func[t] /\ (t \in Due(address) => recursive[t])]
         /\ timers' = {e \in timers : e.id \notin Due(address)}
                        \cup {[key |-> now + interval[t], id |-> t] : t \in Again(address)}
<1>1. \A e \in timers : e \in DueEntries([key |-> now, id |-> address])
                                <=> e.id \in Due(address)
  BY DueIsExpired
<1>2. timers \ DueEntries([key |-> now, id |-> address]) = {e \in timers : e.id \notin Due(address)}
  BY <1>1
<1> QED
  BY <1>2 DEF Expired, Due, Again

\* expiredFunctions takes func_ of the one-shot timers it hands out and arms the
\* others one interval from now.
LEMMA ExpiredStep ==
  ASSUME TimerInv, NEW address \in Addresses, NEW mine \in BOOLEAN, Expired(address, mine)
  PROVE  TimerInv'
<1> DEFINE ids == Due(address)
           again == Again(address)
           New(t) == [key |-> now + interval[t], id |-> t]
<1>1. /\ UNCHANGED <<now, notified, stage, interval, recursive, cancelled>>
      /\ sleepTill' = IF mine THEN Awake ELSE sleepTill
  BY DEF Expired
<1>2. /\ ids \in SUBSET Timers
      /\ \A t \in Timers : t \in ids <=> (Entry(t) \in timers /\ expire[t] <= now)
      /\ \A t \in ids : stage[t] = "used" /\ func[t]
  BY DueIsExpired
<1>3. /\ expire' = [t \in Timers |-> IF t \in again THEN now + interval[t] ELSE expire[t]]
      /\ func' = [t \in Timers |-> func[t] /\ (t \in ids => recursive[t])]
      /\ timers' = {e \in timers : e.id \notin ids} \cup {New(t) : t \in again}
  BY ExpiredEffect
<1>4. PICK order \in [1 .. Cardinality(ids) -> ids] : queue' = queue \o order
  BY ExpiredEffect
<1>5. again \subseteq ids /\ \A t \in ids : t \in again <=> recursive[t]
  BY DEF Again
<1>6. IsFiniteSet(ids) /\ Cardinality(ids) \in Nat
  BY <1>2, TimerAssumption, FS_Subset, FS_CardinalityType
<1> HIDE DEF ids, again
<1> USE DEF TimerInv
<1>7. \A t \in again : New(t) \in Entries /\ New(t).key = now + interval[t] /\ New(t).id = t
  BY <1>2, <1>5 DEF TimerTypeOK, Entries
<1>8. \A e \in timers : e \in Entries /\ e.id \in Timers /\ e.key \in Nat
                        /\ e = Entry(e.id) /\ e.key = expire[e.id]
  BY DEF TimerTypeOK, SetConsistent, Entries, Entry
<1>9. order \in Seq(Timers) /\ Len(order) = Cardinality(ids) /\ \A i \in DOMAIN order : order[i] \in ids
  BY <1>2, <1>6
<1>10. /\ queue' \in Seq(Timers)
       /\ \A i \in DOMAIN queue' : \/ i \in DOMAIN queue /\ queue'[i] = queue[i]
                                   \/ queue'[i] \in ids
  <2>1. /\ queue \o order \in Seq(Timers) /\ Len(queue \o order) = Len(queue) + Len(order)
        /\ \A i \in 1 .. Len(queue) + Len(order) : (queue \o order)[i] =
             IF i <= Len(queue) THEN queue[i] ELSE order[i - Len(queue)]
    BY <1>9, ConcatProperties DEF TimerTypeOK
  <2>2. Len(queue) \in Nat /\ Len(order) \in Nat /\ DOMAIN queue = 1 .. Len(queue)
        /\ DOMAIN order = 1 .. Len(order) /\ DOMAIN (queue \o order) = 1 .. Len(queue) + Len(order)
    BY <1>9, <2>1 DEF TimerTypeOK
  <2> HIDE DEF TimerInv
  <2>3. ASSUME NEW i \in 1 .. Len(queue) + Len(order), i > Len(queue)
        PROVE  (queue \o order)[i] \in ids
    BY <2>1, <2>2, <2>3, <1>9, SMTT(60)
  <2> QED
    BY <2>1, <2>2, <2>3, <1>4
<1>11. TimerTypeOK'
  BY <1>1, <1>3, <1>7, <1>10 DEF TimerTypeOK
<1>12. ExpireInRange'
  BY <1>1, <1>2, <1>3, <1>5 DEF TimerTypeOK, ExpireInRange
<1>13. OnlyUsed'
  <2>1. \A e \in timers' : stage'[e.id] = "used"
    BY <1>1, <1>2, <1>3, <1>5, <1>7 DEF OnlyUsed
  <2>2. \A t \in Timers : stage[t] = "made" => t \notin ids
    BY <1>2
  <2> QED
    BY <2>1, <2>2, <1>1, <1>3 DEF OnlyUsed
<1>14. SetConsistent'
  <2>1. \A e \in timers' : e.key = expire'[e.id]
    BY <1>2, <1>3, <1>5, <1>7, <1>8
  <2>2. ASSUME NEW t \in Timers, t \notin ids
        PROVE  Entry(t)' \in timers' <=> Entry(t) \in timers
    BY <2>2, <1>2, <1>3, <1>5 DEF Entry
  <2>3. ASSUME NEW t \in ids
        PROVE  Entry(t)' \in timers' <=> recursive[t]
    <3>1. CASE recursive[t]
      <4>1. t \in again /\ Entry(t)' = New(t)
        BY <3>1, <1>2, <1>3, <1>5 DEF Entry
      <4> QED
        BY <4>1, <3>1, <1>3
    <3>2. CASE ~recursive[t]
      <4>1. t \notin again /\ Entry(t)'.id = t
        BY <3>2, <1>5 DEF Entry
      <4> QED
        BY <4>1, <3>2, <1>3, <1>7
    <3> QED
      BY <3>1, <3>2
  <2>4. \A t \in Timers : stage'[t] = "used" => (func'[t] <=> Entry(t)' \in timers')
    BY <2>2, <2>3, <1>1, <1>2, <1>3 DEF SetConsistent
  <2> QED
    BY <2>1, <2>4 DEF SetConsistent
<1>15. Spent'
  <2>1. \A i \in DOMAIN queue' : stage'[queue'[i]] = "used"
                                 /\ (~recursive'[queue'[i]] => ~func'[queue'[i]])
    <3> SUFFICES ASSUME NEW i \in DOMAIN queue'
                 PROVE  stage[queue'[i]] = "used" /\ (~recursive[queue'[i]] => ~func'[queue'[i]])
      BY <1>1
    <3>1. CASE queue'[i] \in ids
      BY <3>1, <1>2, <1>3
    <3>2. CASE i \in DOMAIN queue /\ queue'[i] = queue[i]
      <4>1. queue[i] \in Timers
        BY <3>2 DEF TimerTypeOK
      <4> QED
        BY <4>1, <3>2, <1>3 DEF Spent
    <3> QED
      BY <3>1, <3>2, <1>10
  <2>2. \A t \in cancelled' : stage'[t] = "used" /\ ~func'[t]
    BY <1>1, <1>3 DEF Spent, TimerTypeOK
  <2> QED
    BY <2>1, <2>2 DEF Spent
<1>16. CancelIsFinal'
  <2>1. \A t \in cancelled : t \notin ids
    BY <1>2 DEF Spent
  <2> QED
    BY <2>1, <1>1, <1>10 DEF CancelIsFinal
<1>17. NoOversleep'
  <2> SUFFICES ASSUME sleepTill # Awake, ~notified, sleepTill' = sleepTill, NEW e \in timers'
               PROVE  sleepTill # Forever /\ (sleepTill <= now \/ sleepTill <= e.key)
    BY <1>1 DEF NoOversleep
  <2>1. CASE e \in timers
    BY <2>1 DEF NoOversleep
  <2>2. CASE \E t \in again : e = New(t)
    <3>1. PICK t \in again : e = New(t)
      BY <2>2
    <3>2. Entry(t) \in timers /\ expire[t] <= now /\ Entry(t).key = expire[t] /\ t \in Timers
      BY <1>2, <1>5 DEF Entry
    <3>3. sleepTill # Forever /\ (sleepTill <= now \/ sleepTill <= expire[t])
      BY <3>2 DEF NoOversleep
    <3>4. sleepTill \in Nat /\ now \in Nat /\ expire[t] \in Nat
      BY <3>2, <3>3 DEF TimerTypeOK
    <3> QED
      BY <3>2, <3>3, <3>4
  <2> QED
    BY <2>1, <2>2, <1>3
<1> QED
  BY <1>11, <1>12, <1>13, <1>14, <1>15, <1>16, <1>17

-----------------------------------------------------------------------------
(* Theorems *)

\* There are no timers at the start.
LEMMA TimerInitInv == TimerInit => TimerInv
<1> SUFFICES ASSUME TimerInit PROVE TimerInv
  OBVIOUS
<1>1. TimerTypeOK
  <2>1. recursive \in [Timers -> BOOLEAN] /\ func \in [Timers -> BOOLEAN] /\ notified \in BOOLEAN
    BY Zenon DEF TimerInit
  <2>2. queue \in Seq(Timers)
    BY DEF TimerInit
  <2>3. /\ now \in Nat /\ expire \in [Timers -> Nat] /\ interval \in [Timers -> Nat]
        /\ stage \in [Timers -> {"none", "made", "used"}]
        /\ timers \in SUBSET Entries /\ cancelled \in SUBSET Timers
        /\ sleepTill \in Nat \cup {Awake, Forever}
    BY DEF TimerInit
  <2> QED
    BY <2>1, <2>2, <2>3 DEF TimerTypeOK
<1>2. ExpireInRange /\ OnlyUsed /\ SetConsistent /\ Spent /\ NoOversleep /\ CancelIsFinal
  BY DEF TimerInit, ExpireInRange, OnlyUsed, SetConsistent, Spent, NoOversleep, CancelIsFinal
<1> QED
  BY <1>1, <1>2 DEF TimerInv

\* Every operation on timers and every step of the clock.
LEMMA TimerNextInv == TimerInv /\ [TimerNext]_timerVars => TimerInv'
<1> SUFFICES ASSUME TimerInv, [TimerNext]_timerVars PROVE TimerInv'
  OBVIOUS
<1>1. CASE UNCHANGED timerVars
  BY <1>1 DEF timerVars, clock, TimerInv, TimerTypeOK, ExpireInRange, OnlyUsed, SetConsistent, Entry, Spent,
     NoOversleep, CancelIsFinal
<1>2. CASE TimerNext
  BY <1>2, TickStep, GetExpireStep, RunStep, ExpiredStep, InsertStep, CancelStep, RefreshStep,
     ConstructStep, ResetStep DEF TimerNext
<1> QED
  BY <1>1, <1>2

\* The inductive invariant holds throughout.
THEOREM TimerInvariance == TimerSpec => []TimerInv
BY TimerInitInv, TimerNextInv, PTL DEF TimerSpec

\* Timer objects and timers_ keep their types; in particular reset() never computes
\* an expire_ before the epoch.
THEOREM TimerTypeCorrect == TimerSpec => []TimerTypeOK
BY TimerInvariance, PTL DEF TimerInv

\* timers_ stays ordered and searchable under every operation.
THEOREM SetStaysConsistent == TimerSpec => []SetConsistent
BY TimerInvariance, PTL DEF TimerInv

\* A sleeping worker was notified or wakes up in time for every timer.
THEOREM WakesInTime == TimerSpec => []NoOversleep
BY TimerInvariance, PTL DEF TimerInv

\* A cancelled one-shot timer's function was not handed out and never will be.
THEOREM CancelledNeverRuns == TimerSpec => []CancelIsFinal
BY TimerInvariance, PTL DEF TimerInv

-----------------------------------------------------------------------------
(* What is handed out *)

\* The body of HandsOutDue.
HandOut ==
  Len(queue') > Len(queue) =>
    LET batch == SubSeq(queue', Len(queue) + 1, Len(queue'))
    IN /\ \A t \in Timers :
            (\E i \in DOMAIN batch : batch[i] = t)
              <=> (Entry(t) \in timers /\ expire[t] <= now)
       /\ \A i, j \in DOMAIN batch : i < j => expire[batch[i]] <= expire[batch[j]]

\* A list of n members of a set of n members, each before the next in a strict
\* order, holds all of them.
LEMMA OrderIsOnto ==
  ASSUME TimerInv, NEW S \in SUBSET Timers,
         NEW order \in [1 .. Cardinality(S) -> S],
         \A i, j \in DOMAIN order : i < j => Less(Entry(order[i]), Entry(order[j]))
  PROVE  \A t \in S : \E i \in 1 .. Cardinality(S) : order[i] = t
<1> DEFINE n == Cardinality(S)
<1>1. IsFiniteSet(S) /\ n \in Nat
  BY TimerAssumption, FS_Subset, FS_CardinalityType
<1> HIDE DEF n
<1>2. \A t \in Timers : ~Less(Entry(t), Entry(t))
  BY TimerAssumption DEF Less, Entry, TimerInv, TimerTypeOK
<1>3. \A i, j \in 1 .. n : order[i] = order[j] => i = j
  <2> SUFFICES ASSUME NEW i \in 1 .. n, NEW j \in 1 .. n, order[i] = order[j], i < j
               PROVE  FALSE
    BY <1>1
  <2>1. Less(Entry(order[i]), Entry(order[j])) /\ order[i] \in Timers
    BY DEF n
  <2> QED
    BY <2>1, <1>2
<1>4. order \in Injection(1 .. n, S)
  BY <1>3 DEF Injection, IsInjective, n
<1>5. IsFiniteSet(1 .. n) /\ Cardinality(1 .. n) = n
  BY <1>1, FS_Interval
<1>6. order \in Surjection(1 .. n, S)
  BY <1>1, <1>4, <1>5, FS_Injection DEF n
<1> QED
  BY <1>6 DEF Surjection, n

\* expiredFunctions hands out what is due.
LEMMA ExpiredHandsOut ==
  ASSUME TimerInv, NEW address \in Addresses, NEW mine \in BOOLEAN, Expired(address, mine)
  PROVE  HandOut
<1> DEFINE ids == Due(address)
           n == Cardinality(ids)
           batch == SubSeq(queue', Len(queue) + 1, Len(queue'))
<1>1. PICK order \in [1 .. n -> ids] :
        /\ \A i, j \in DOMAIN order : i < j => Less(Entry(order[i]), Entry(order[j]))
        /\ queue' = queue \o order
  BY ExpiredEffect
<1>2. /\ ids \in SUBSET Timers
      /\ \A t \in Timers : t \in ids <=> (Entry(t) \in timers /\ expire[t] <= now)
  BY DueIsExpired
<1>3. n \in Nat
  BY <1>2, TimerAssumption, FS_Subset, FS_CardinalityType
<1>4. \A t \in ids : \E i \in 1 .. n : order[i] = t
  BY <1>1, <1>2, OrderIsOnto
<1> HIDE DEF ids, n
<1>5. order \in Seq(Timers) /\ Len(order) = n /\ DOMAIN order = 1 .. n
  BY <1>1, <1>2, <1>3
<1>6. queue \in Seq(Timers) /\ Len(queue) \in Nat
  BY DEF TimerInv, TimerTypeOK
<1>7. /\ queue' \in Seq(Timers) /\ Len(queue') = Len(queue) + n
      /\ \A i \in 1 .. Len(queue) + n : queue'[i] =
           IF i <= Len(queue) THEN queue[i] ELSE order[i - Len(queue)]
  BY <1>1, <1>5, <1>6, ConcatProperties
<1>8. \A i \in Len(queue) + 1 .. Len(queue') : queue'[i] \in Timers
  BY <1>6, <1>7
<1>9. /\ batch \in Seq(Timers) /\ Len(batch) = n
      /\ \A i \in 1 .. n : batch[i] = queue'[Len(queue) + i]
  <2>1. /\ batch \in Seq(Timers)
        /\ Len(batch) = IF Len(queue) + 1 <= Len(queue')
                          THEN Len(queue') - (Len(queue) + 1) + 1 ELSE 0
        /\ \A i \in 1 .. Len(queue') - (Len(queue) + 1) + 1 :
              batch[i] = queue'[(Len(queue) + 1) + i - 1]
    BY <1>3, <1>6, <1>7, <1>8, SubSeqProperties
  <2> HIDE DEF batch
  <2>2. Len(queue') - (Len(queue) + 1) + 1 = n
    BY <1>3, <1>6, <1>7
  <2>3. Len(batch) = n
    BY <2>1, <1>3, <1>6, <1>7
  <2>4. \A i \in 1 .. n : batch[i] = queue'[(Len(queue) + 1) + i - 1]
    BY <2>1, <2>2
  <2>5. \A i \in 1 .. n : (Len(queue) + 1) + i - 1 = Len(queue) + i
    BY <1>3, <1>6
  <2> QED
    BY <2>1, <2>3, <2>4, <2>5
<1>10. DOMAIN batch = 1 .. n /\ \A i \in 1 .. n : batch[i] = order[i]
  <2> HIDE DEF batch
  <2>1. \A i \in 1 .. n : queue'[Len(queue) + i] = order[i]
    BY <1>3, <1>6, <1>7
  <2> QED
    BY <2>1, <1>9
<1> HIDE DEF batch
<1>11. \A t \in Timers : (\E i \in DOMAIN batch : batch[i] = t)
                           <=> (Entry(t) \in timers /\ expire[t] <= now)
  BY <1>1, <1>2, <1>4, <1>10
<1>12. \A i, j \in DOMAIN batch : i < j => expire[batch[i]] <= expire[batch[j]]
  <2> SUFFICES ASSUME NEW i \in 1 .. n, NEW j \in 1 .. n, i < j
               PROVE  expire[order[i]] <= expire[order[j]]
    BY <1>10
  <2>1. Less(Entry(order[i]), Entry(order[j])) /\ order[i] \in Timers /\ order[j] \in Timers
    BY <1>1, <1>2, <1>5
  <2> QED
    BY <2>1 DEF Less, Entry, TimerInv, TimerTypeOK
<1> QED
  BY <1>11, <1>12 DEF HandOut, batch

\* expiredFunctions hands out exactly the timers that are due, in their order, and
\* no other operation hands out anything.
THEOREM HandsOutExactlyDue == TimerSpec => HandsOutDue
<1>1. TimerInv /\ [TimerNext]_timerVars => [HandOut]_timerVars
  <2> SUFFICES ASSUME TimerInv, TimerNext PROVE HandOut
    BY DEF HandOut
  <2>1. ASSUME queue' = queue PROVE HandOut
    <3>1. Len(queue) \in Nat
      BY DEF TimerInv, TimerTypeOK
    <3> QED
      BY <2>1, <3>1 DEF HandOut
  <2>2. ASSUME Run PROVE HandOut
    <3>1. Len(queue) \in Nat /\ Len(queue') = Len(queue) - 1
      BY <2>2, HeadTailProperties DEF TimerInv, TimerTypeOK, Run
    <3> QED
      BY <3>1 DEF HandOut
  <2>3. ASSUME NEW address \in Addresses, NEW mine \in BOOLEAN, Expired(address, mine)
        PROVE  HandOut
    BY <2>3, ExpiredHandsOut
  <2>4. CASE Tick \/ GetExpire
    BY <2>1, <2>4 DEF Tick, GetExpire
  <2>5. CASE \E t \in Timers :
               \/ Insert(t) \/ Cancel(t) \/ Refresh(t)
               \/ \E i \in Intervals :
                    \/ \E rec \in BOOLEAN : Construct(t, i, rec)
                    \/ \E fromNow \in BOOLEAN : Reset(t, i, fromNow)
    BY <2>1, <2>5, ZenonT(60) DEF Insert, Cancel, Refresh, Construct, Reset
  <2> QED
    BY <2>2, <2>3, <2>4, <2>5 DEF TimerNext
<1>2. [HandOut]_timerVars => [Len(queue') > Len(queue) =>
       LET batch == SubSeq(queue', Len(queue) + 1, Len(queue'))
       IN /\ \A t \in Timers :
               (\E i \in DOMAIN batch : batch[i] = t)
                 <=> (Entry(t) \in timers /\ expire[t] <= now)
          /\ \A i, j \in DOMAIN batch : i < j => expire[batch[i]] <= expire[batch[j]]]_timerVars
  BY DEF HandOut
<1> QED
  BY <1>1, <1>2, TimerInvariance, PTL DEF TimerSpec, HandsOutDue
=============================================================================
