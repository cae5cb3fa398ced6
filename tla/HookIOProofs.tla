---------------------------- MODULE HookIOProofs ----------------------------
(***************************************************************************)
(* Proofs about module HookIO.  The inductive invariant says where each    *)
(* coroutine is, and that a timeout function which still belongs to the    *)
(* current call of its coroutine comes from a timer that expired in it.    *)
(***************************************************************************)
EXTENDS HookIO, SeqLemmas

Labels == {"idle", "try", "add", "wait", "check", "done"}
Tasks == Cos \cup Timeouts

Typed ==
  /\ pc \in [Cos -> Labels]
  /\ cur \in [Workers -> Cos \cup {None}]
  /\ queue \in [Workers -> Seq(Tasks)]
  /\ number \in [Cos -> 0 .. MaxCalls]
  /\ registered \in [Cos -> BOOLEAN] /\ armed \in [Cos -> BOOLEAN]
  /\ cancelled \in [Cos -> BOOLEAN] /\ expired \in [Cos -> BOOLEAN]
  /\ due \in [Cos -> BOOLEAN] /\ timed \in [Cos -> BOOLEAN] /\ ready \in [Cos -> BOOLEAN]

\* A coroutine is queued, running or registered, and only one of these; when its
\* function has returned, none.
Queued(c) == Occurs(queue[Home[c]], c)
Place(c) ==
  /\ AtMostOnce(queue[Home[c]], c)
  /\ registered[c] => pc[c] = "wait"
  /\ pc[c] = "done" => ~Queued(c) /\ cur[Home[c]] # c /\ ~registered[c]
  /\ pc[c] # "done" => Queued(c) \/ cur[Home[c]] = c \/ registered[c]
  /\ ~(Queued(c) /\ cur[Home[c]] = c)
  /\ ~(Queued(c) /\ registered[c])
  /\ ~(cur[Home[c]] = c /\ registered[c])
Placed == \A c \in Cos : Place(c)

\* A call is only numbered once begun, and timers are armed inside calls.
Numbered == \A c \in Cos : pc[c] \notin {"idle", "done"} => number[c] # 0

\* Timeout functions in the queues are of calls already made; those of the current
\* call expired in it.
FromExpired ==
  \A w \in Workers, f \in Timeouts :
    Occurs(queue[w], f) => f.call <= number[f.of] /\ (f.call = number[f.of] => expired[f.of])

IInv == Typed /\ Placed /\ Numbered /\ FromExpired /\ OwnTimeout /\ NoTimerLeft

-----------------------------------------------------------------------------
(* Steps of a coroutine, of time and of the peers: the queues stay as they are *)

\* FromExpired needs only that numbers do not fall, that a call forgets expired
\* only together with its number, and that new functions are of expired calls.
LEMMA FromExpiredKept ==
  ASSUME Typed, FromExpired,
         \A w \in Workers, f \in Timeouts : Occurs(queue'[w], f) =>
           Occurs(queue[w], f) \/ (f.call = number'[f.of] /\ expired'[f.of]),
         \A c \in Cos : \/ number'[c] = number[c] /\ (expired[c] => expired'[c])
                        \/ number'[c] = number[c] + 1
  PROVE  FromExpired'
<1> SUFFICES ASSUME NEW w \in Workers, NEW f \in Timeouts, Occurs(queue'[w], f)
             PROVE  /\ f.call <= number'[f.of]
                    /\ f.call = number'[f.of] => expired'[f.of]
  BY DEF FromExpired
<1>1. f.of \in Cos /\ f.call \in Nat /\ number[f.of] \in Nat
  BY HookAssumption DEF Timeouts, Typed
<1>2. CASE Occurs(queue[w], f)
  <2>1. f.call <= number[f.of] /\ (f.call = number[f.of] => expired[f.of])
    BY <1>2 DEF FromExpired
  <2> QED
    BY <1>1, <2>1
<1>3. CASE f.call = number'[f.of] /\ expired'[f.of]
  BY <1>1, <1>3
<1> QED
  BY <1>2, <1>3

\* A coroutine enters do_io and gives the call its number.
LEMMA CallStep ==
  ASSUME IInv, NEW c \in Cos, NEW b \in BOOLEAN, Call(c, b) PROVE IInv'
<1> USE DEF IInv, Call, Running
<1>1. Typed'
  BY HookAssumption DEF Typed, Labels
<1>2. Placed'
  BY DEF Typed, Placed, Place, Queued
<1>3. Numbered'
  BY HookAssumption DEF Typed, Numbered
<1>4. FromExpired'
  BY FromExpiredKept DEF Typed
<1>5. OwnTimeout' /\ NoTimerLeft'
  BY DEF Typed, OwnTimeout, NoTimerLeft
<1> QED
  BY <1>1, <1>2, <1>3, <1>4, <1>5

\* The first attempt of the system call.
LEMMA TryStep == ASSUME IInv, NEW c \in Cos, TryDone(c) \/ TryAgain(c) PROVE IInv'
<1> USE DEF IInv, TryDone, TryAgain, Return, Running
<1>1. Typed'
  <2>1. CASE TryDone(c)
    BY <2>1 DEF Typed, Labels
  <2>2. CASE TryAgain(c)
    <3>1. timed[c] \in BOOLEAN
      BY DEF Typed
    <3> QED
      BY <3>1, <2>2 DEF Typed, Labels
  <2> QED
    BY <2>1, <2>2
<1>2. Placed'
  BY DEF Typed, Placed, Place, Queued
<1>3. Numbered'
  BY DEF Typed, Numbered
<1>4. FromExpired'
  BY FromExpiredKept
<1>5. OwnTimeout' /\ NoTimerLeft'
  <2>1. CASE TryDone(c)
    <3>1. \A d \in Cos : armed'[d] => armed[d] \/ d = c
      BY <2>1 DEF Typed
    <3>2. \A d \in Cos : armed'[d] => pc'[d] \in {"add", "wait"}
      BY <3>1, <2>1 DEF Typed, NoTimerLeft
    <3> QED
      BY <3>2, <2>1 DEF OwnTimeout, NoTimerLeft
  <2>2. CASE TryAgain(c)
    <3>1. \A d \in Cos \ {c} : armed'[d] = armed[d] /\ pc'[d] = pc[d]
      BY <2>2 DEF Typed
    <3>2. armed'[c] => pc'[c] \in {"add", "wait"}
      BY <2>2 DEF Typed
    <3> QED
      BY <3>1, <3>2, <2>2 DEF OwnTimeout, NoTimerLeft
  <2> QED
    BY <2>1, <2>2
<1> QED
  BY <1>1, <1>2, <1>3, <1>4, <1>5

\* AddEvent: from running to registered.
LEMMA AddEventStep == ASSUME IInv, NEW c \in Cos, AddEvent(c) \/ AddEventFails(c) PROVE IInv'
<1> USE DEF IInv, AddEvent, AddEventFails, Return, Running
<1> Home[c] \in Workers
  BY HookAssumption
<1>1. Typed'
  <2>1. CASE AddEvent(c)
    BY <2>1 DEF Typed, Labels
  <2>2. CASE AddEventFails(c)
    BY <2>2 DEF Typed, Labels
  <2> QED
    BY <2>1, <2>2
<1>2. Placed'
  <2>1. \A d \in Cos : d # None /\ Home[d] \in Workers
    BY HookAssumption
  <2>2. CASE AddEvent(c)
    BY <2>1, <2>2 DEF Typed, Placed, Place, Queued
  <2>3. CASE AddEventFails(c)
    BY <2>1, <2>3 DEF Typed, Placed, Place, Queued
  <2> QED
    BY <2>2, <2>3
<1>3. Numbered'
  BY DEF Typed, Numbered
<1>4. FromExpired'
  BY FromExpiredKept
<1>5. OwnTimeout' /\ NoTimerLeft'
  <2>1. CASE AddEvent(c)
    <3>1. \A d \in Cos : armed'[d] => armed[d] \/ d = c
      BY <2>1 DEF Typed
    <3>2. \A d \in Cos : armed'[d] => pc'[d] \in {"add", "wait"}
      BY <3>1, <2>1 DEF Typed, NoTimerLeft
    <3> QED
      BY <3>2, <2>1 DEF OwnTimeout, NoTimerLeft
  <2>2. CASE AddEventFails(c)
    <3>1. \A d \in Cos \ {c} : armed'[d] = armed[d] /\ pc'[d] = pc[d]
      BY <2>2 DEF Typed
    <3>2. armed'[c] => pc'[c] \in {"add", "wait"}
      BY <2>2 DEF Typed
    <3> QED
      BY <3>1, <3>2, <2>2 DEF OwnTimeout, NoTimerLeft
  <2> QED
    BY <2>1, <2>2
<1> QED
  BY <1>1, <1>2, <1>3, <1>4, <1>5

\* What a resumed coroutine does: cancel the timer, look at timerInfo, return.
LEMMA ResumedStep == ASSUME IInv, NEW c \in Cos, CancelTimer(c) \/ Check(c) \/ Finish(c) PROVE IInv'
<1> USE DEF IInv, CancelTimer, Check, Finish, Return, Running
<1> Home[c] \in Workers
  BY HookAssumption
<1>1. Typed'
  BY HookAssumption, ZenonT(60) DEF Typed, Labels
<1>2. Placed'
  <2>1. \A d \in Cos : d # None /\ Home[d] \in Workers
    BY HookAssumption
  <2>2. CASE CancelTimer(c)
    BY <2>1, <2>2 DEF Typed, Placed, Place, Queued
  <2>3. CASE Check(c)
    BY <2>1, <2>3 DEF Typed, Placed, Place, Queued
  <2>4. CASE Finish(c)
    BY <2>1, <2>4 DEF Typed, Placed, Place, Queued
  <2> QED
    BY <2>2, <2>3, <2>4
<1>3. Numbered'
  BY DEF Typed, Numbered
<1>4. FromExpired'
  BY FromExpiredKept
<1>5. OwnTimeout' /\ NoTimerLeft'
  BY ZenonT(60) DEF Typed, OwnTimeout, NoTimerLeft
<1> QED
  BY <1>1, <1>2, <1>3, <1>4, <1>5

\* Time passes and descriptors become ready.
LEMMA WorldStep == ASSUME IInv, NEW c \in Cos, Expire(c) \/ BecomesReady(c) PROVE IInv'
<1> USE DEF IInv, Expire, BecomesReady
<1>1. Typed'
  BY DEF Typed
<1>2. Placed'
  BY DEF Placed, Place, Queued
<1>3. Numbered' /\ OwnTimeout' /\ NoTimerLeft'
  BY DEF Numbered, OwnTimeout, NoTimerLeft
<1>4. FromExpired'
  BY FromExpiredKept
<1> QED
  BY <1>1, <1>2, <1>3, <1>4


-----------------------------------------------------------------------------
(* Steps of a worker *)

\* A worker resumes the coroutine at the front of its queue.
LEMMA RunCoStep == ASSUME IInv, NEW w \in Workers, RunCo(w) PROVE IInv'
<1> USE DEF IInv, RunCo
<1> DEFINE q == queue[w]
           h == Head(q)
<1>1. q \in Seq(Tasks) /\ q # <<>> /\ h \in Cos /\ Tail(q) \in Seq(Tasks)
  BY HeadTailProperties DEF Typed
<1>2. queue' = [queue EXCEPT ![w] = Tail(q)] /\ cur' = [cur EXCEPT ![w] = h]
  OBVIOUS
<1>3. \A e : /\ Occurs(q, e) <=> h = e \/ Occurs(Tail(q), e)
             /\ AtMostOnce(q, e) => AtMostOnce(Tail(q), e)
             /\ AtMostOnce(q, e) /\ h = e => ~Occurs(Tail(q), e)
  BY <1>1, OccursTail
<1>4. Typed'
  <2>1. queue' \in [Workers -> Seq(Tasks)] /\ cur' \in [Workers -> Cos \cup {None}]
    BY <1>1, <1>2 DEF Typed
  <2> QED
    BY <2>1 DEF Typed
<1>5. Placed'
  <2> SUFFICES ASSUME NEW c \in Cos PROVE Place(c)'
    BY DEF Placed
  <2>1. Place(c) /\ c # None /\ Home[c] \in Workers
    BY HookAssumption DEF Placed
  <2>2. CASE Home[c] = w
    <3>1. queue'[w] = Tail(q) /\ cur'[w] = h /\ cur[w] = None
      BY <1>2 DEF Typed
    <3> HIDE DEF h
    <3> QED
      BY <1>3, <2>1, <2>2, <3>1 DEF Place, Queued
  <2>3. CASE Home[c] # w
    <3>1. queue'[Home[c]] = queue[Home[c]] /\ cur'[Home[c]] = cur[Home[c]]
      BY <1>2, <2>1, <2>3 DEF Typed
    <3> QED
      BY <2>1, <3>1 DEF Place, Queued
  <2> QED
    BY <2>2, <2>3
<1>6. FromExpired'
  <2>1. \A v \in Workers, f \in Timeouts : Occurs(queue'[v], f) => Occurs(queue[v], f)
    BY <1>2, <1>3 DEF Typed
  <2> QED
    BY <2>1, FromExpiredKept
<1>7. Numbered' /\ OwnTimeout' /\ NoTimerLeft'
  BY DEF Numbered, OwnTimeout, NoTimerLeft
<1> QED
  BY <1>4, <1>5, <1>6, <1>7

\* A timeout function: the coroutine goes from registered to queued, or stays.
LEMMA RunTimeoutStep == ASSUME IInv, NEW w \in Workers, RunTimeout(w) PROVE IInv'
<1> USE DEF IInv
<1> DEFINE q == queue[w]
           f == Head(q)
           c == f.of
           woken == Alive(f) /\ Home[c] = w /\ registered[c]
<1>1. q \in Seq(Tasks) /\ q # <<>> /\ f \in Timeouts /\ Tail(q) \in Seq(Tasks)
  BY HeadTailProperties DEF Typed, RunTimeout
<1>2. c \in Cos /\ c \in Tasks
  BY <1>1 DEF Timeouts, Tasks
<1>3. /\ queue' = [queue EXCEPT ![w] = IF woken THEN Append(Tail(q), c) ELSE Tail(q)]
      /\ registered' = IF woken THEN [registered EXCEPT ![c] = FALSE] ELSE registered
      /\ cancelled' = IF Alive(f) THEN [cancelled EXCEPT ![c] = TRUE] ELSE cancelled
      /\ UNCHANGED <<pc, cur, number, timed, armed, due, expired, ready, result>>
  BY DEF RunTimeout, HandleEvent
<1>4. \A e : /\ Occurs(q, e) <=> f = e \/ Occurs(Tail(q), e)
             /\ AtMostOnce(q, e) => AtMostOnce(Tail(q), e)
  BY <1>1, OccursTail
<1>5. \A e : /\ Occurs(Append(Tail(q), c), e) <=> Occurs(Tail(q), e) \/ c = e
             /\ AtMostOnce(Tail(q), e) /\ (c = e => ~Occurs(Tail(q), e))
                  => AtMostOnce(Append(Tail(q), c), e)
  <2> DEFINE t == Tail(q)
  <2> t \in Seq(Tasks) /\ c \in Tasks
    BY <1>1, <1>2
  <2> HIDE DEF t, c
  <2>1. \A e : /\ Occurs(Append(t, c), e) <=> Occurs(t, e) \/ c = e
               /\ AtMostOnce(t, e) /\ (c = e => ~Occurs(t, e)) => AtMostOnce(Append(t, c), e)
    BY OccursAppend
  <2> QED
    BY <2>1 DEF t
<1>6. Append(Tail(q), c) \in Seq(Tasks)
  BY <1>1, <1>2, AppendProperties
<1>7. \A d \in Cos : d # f
  BY <1>1, HookAssumption DEF Timeouts
<1>8. cancelled' \in [Cos -> BOOLEAN] /\ registered' \in [Cos -> BOOLEAN]
  BY <1>2, <1>3 DEF Typed
<1>9. Alive(f) => expired[c]
  BY <1>1, <1>2, <1>4 DEF Alive, FromExpired
<1> HIDE DEF c, f, woken
<1>10. Typed'
  <2>1. queue' \in [Workers -> Seq(Tasks)]
    BY <1>1, <1>3, <1>6 DEF Typed
  <2> QED
    BY <2>1, <1>3, <1>8 DEF Typed
<1>11. Placed'
  <2> SUFFICES ASSUME NEW d \in Cos PROVE Place(d)'
    BY DEF Placed
  <2>1. Place(d) /\ d # f /\ Home[d] \in Workers
    BY <1>7, HookAssumption DEF Placed
  <2>2. CASE Home[d] = w /\ woken
    <3>1. /\ queue'[w] = Append(Tail(q), c)
          /\ registered'[d] = (registered[d] /\ d # c)
      BY <2>2, <1>3 DEF Typed
    <3>2. registered[c]
      BY <2>2 DEF woken
    <3> QED
      BY <1>3, <1>4, <1>5, <2>1, <2>2, <3>1, <3>2 DEF Place, Queued
  <2>3. CASE Home[d] = w /\ ~woken
    <3>1. queue'[w] = Tail(q) /\ registered'[d] = registered[d]
      BY <2>3, <1>3 DEF Typed
    <3> QED
      BY <1>3, <1>4, <2>1, <2>3, <3>1 DEF Place, Queued
  <2>4. CASE Home[d] # w
    <3>1. queue'[Home[d]] = queue[Home[d]]
      BY <2>1, <2>4, <1>3 DEF Typed
    <3>2. registered'[d] = registered[d]
      BY <2>4, <1>2, <1>3 DEF Typed, woken
    <3> QED
      BY <1>3, <2>1, <3>1, <3>2 DEF Place, Queued
  <2> QED
    BY <2>2, <2>3, <2>4
<1>12. FromExpired'
  <2>1. ASSUME NEW v \in Workers, NEW g \in Timeouts, Occurs(queue'[v], g)
        PROVE  Occurs(queue[v], g)
    <3>1. g # c
      BY <1>2, HookAssumption DEF Timeouts
    <3> QED
      BY <2>1, <3>1, <1>3, <1>4, <1>5 DEF Typed
  <2> QED
    BY <2>1, <1>3, FromExpiredKept
<1>13. OwnTimeout'
  BY <1>2, <1>3, <1>9 DEF Typed, OwnTimeout
<1>14. Numbered' /\ NoTimerLeft'
  BY <1>3 DEF Numbered, NoTimerLeft
<1> QED
  BY <1>10, <1>11, <1>12, <1>13, <1>14


\* A poll: functions of expired timers and coroutines of ready descriptors are
\* queued; each of the latter was registered and is not any more.
LEMMA PollStep == ASSUME IInv, NEW w \in Workers, Poll(w) PROVE IInv'
<1> USE DEF IInv
<1> DEFINE q == queue[w]
           A == {c \in Cos : armed[c] /\ due[c]}
           R == {c \in Cos : Home[c] = w /\ registered[c] /\ ready[c]}
<1>1. PICK first \in SetToSeqs(A), second \in SetToSeqs(R) :
        queue' = [queue EXCEPT ![w] =
                    @ \o [i \in DOMAIN first |-> [of |-> first[i], call |-> number[first[i]]]]
                      \o second]
  BY DEF Poll
<1> DEFINE ft == [i \in DOMAIN first |-> [of |-> first[i], call |-> number[first[i]]]]
           u == q \o ft
<1>2. IsFiniteSet(A) /\ IsFiniteSet(R)
  BY HookAssumption, FS_Subset
<1>3. first \in Seq(A) /\ second \in Seq(R)
  BY <1>2, OccursPermutation
<1>4. \A e : (Occurs(second, e) <=> e \in R) /\ AtMostOnce(second, e)
  BY <1>2, OccursPermutation
<1>5. \A i \in DOMAIN first : /\ first[i] \in A /\ ft[i] \in Timeouts
                              /\ ft[i].of = first[i] /\ ft[i].call = number[first[i]]
  <2> SUFFICES ASSUME NEW i \in DOMAIN first
               PROVE  /\ first[i] \in A /\ ft[i] \in Timeouts
                      /\ ft[i].of = first[i] /\ ft[i].call = number[first[i]]
    OBVIOUS
  <2>1. first[i] \in A
    BY <1>3, ElementOfSeq
  <2>2. number[first[i]] \in 1 .. MaxCalls
    <3>1. \A c \in A : pc[c] \in {"add", "wait"}
      BY DEF NoTimerLeft
    <3>2. \A c \in A : number[c] \in 0 .. MaxCalls /\ number[c] # 0
      BY <3>1 DEF Typed, Numbered
    <3>3. \A c \in A : number[c] \in 1 .. MaxCalls
      BY <3>2, HookAssumption
    <3> QED
      BY <2>1, <3>3
  <2> QED
    BY <2>1, <2>2 DEF Timeouts
<1>6. ft \in Seq(Tasks) /\ second \in Seq(Tasks) /\ q \in Seq(Tasks)
  <2>1. DOMAIN first = 1 .. Len(first) /\ Len(first) \in Nat
    BY <1>3
  <2>2. ft \in [1 .. Len(first) -> Tasks]
    BY <2>1, <1>5 DEF Tasks
  <2>3. R \subseteq Tasks
    BY DEF Tasks
  <2> QED
    BY <2>1, <2>2, <2>3, <1>3 DEF Typed
<1>7. \A d \in Cos : ~Occurs(ft, d) /\ AtMostOnce(ft, d)
  BY <1>5, HookAssumption DEF Occurs, AtMostOnce, Timeouts
<1>8. \A g \in Timeouts : Occurs(ft, g) => g.of \in A /\ g.call = number[g.of]
  BY <1>5 DEF Occurs
<1>9. \A g \in Timeouts : ~Occurs(second, g)
  BY <1>4, HookAssumption DEF Timeouts
<1> HIDE DEF ft
<1>10. u \in Seq(Tasks) /\ u \o second \in Seq(Tasks)
  BY <1>6, ConcatProperties
<1>11. \A e : /\ Occurs(u, e) <=> Occurs(q, e) \/ Occurs(ft, e)
              /\ AtMostOnce(q, e) /\ AtMostOnce(ft, e) /\ ~(Occurs(q, e) /\ Occurs(ft, e))
                   => AtMostOnce(u, e)
  BY <1>6, OccursConcat
<1> HIDE DEF u
<1>12. \A e : /\ Occurs(u \o second, e) <=> Occurs(u, e) \/ Occurs(second, e)
              /\ AtMostOnce(u, e) /\ AtMostOnce(second, e) /\ ~(Occurs(u, e) /\ Occurs(second, e))
                   => AtMostOnce(u \o second, e)
  BY <1>6, <1>10, OccursConcat
<1>13. queue' = [queue EXCEPT ![w] = u \o second]
  BY <1>1 DEF u, ft
<1>14. /\ armed' = [c \in Cos |-> armed[c] /\ ~due[c]]
       /\ due' = [c \in Cos |-> FALSE]
       /\ expired' = [c \in Cos |-> expired[c] \/ (armed[c] /\ due[c])]
       /\ registered' = [c \in Cos |-> registered[c] /\ ~(Home[c] = w /\ ready[c])]
       /\ UNCHANGED <<pc, cur, number, timed, cancelled, ready, result>>
  BY DEF Poll, StillRegistered
<1>15. Typed'
  <2>1. queue' \in [Workers -> Seq(Tasks)]
    BY <1>10, <1>13 DEF Typed
  <2>2. armed' \in [Cos -> BOOLEAN] /\ due' \in [Cos -> BOOLEAN]
    BY <1>14
  <2>3. expired' \in [Cos -> BOOLEAN] /\ registered' \in [Cos -> BOOLEAN]
    BY <1>14
  <2> QED
    BY <2>1, <2>2, <2>3, <1>14 DEF Typed
<1>16. Placed'
  <2> SUFFICES ASSUME NEW d \in Cos PROVE Place(d)'
    BY DEF Placed
  <2>1. Place(d) /\ Home[d] \in Workers /\ ~Occurs(ft, d) /\ AtMostOnce(ft, d)
    BY <1>7, HookAssumption DEF Placed
  <2>2. registered'[d] <=> registered[d] /\ d \notin R
    BY <1>14
  <2>3. CASE Home[d] = w
    <3>1. queue'[w] = u \o second
      BY <1>13 DEF Typed
    <3>2. d \in R => registered[d]
      OBVIOUS
    <3> HIDE DEF R
    <3> QED
      BY <1>4, <1>11, <1>12, <1>14, <2>1, <2>2, <2>3, <3>1, <3>2 DEF Place, Queued
  <2>4. CASE Home[d] # w
    <3>1. queue'[Home[d]] = queue[Home[d]] /\ d \notin R
      BY <2>1, <2>4, <1>13 DEF Typed
    <3> QED
      BY <1>14, <2>1, <2>2, <3>1 DEF Place, Queued
  <2> QED
    BY <2>3, <2>4
<1>17. FromExpired'
  <2>1. ASSUME NEW v \in Workers, NEW g \in Timeouts, Occurs(queue'[v], g)
        PROVE  Occurs(queue[v], g) \/ (g.call = number'[g.of] /\ expired'[g.of])
    <3>1. CASE v = w
      <4>1. Occurs(q, g) \/ Occurs(ft, g)
        BY <2>1, <3>1, <1>9, <1>11, <1>12, <1>13 DEF Typed
      <4>2. Occurs(ft, g) => g.of \in A /\ g.call = number[g.of]
        BY <1>8
      <4> QED
        BY <3>1, <4>1, <4>2, <1>14
    <3>2. CASE v # w
      BY <2>1, <3>2, <1>13 DEF Typed
    <3> QED
      BY <3>1, <3>2
  <2>2. \A c \in Cos : number'[c] = number[c] /\ (expired[c] => expired'[c])
    BY <1>14
  <2> QED
    BY <2>1, <2>2, FromExpiredKept
<1>18. Numbered' /\ OwnTimeout'
  BY <1>14 DEF Numbered, OwnTimeout
<1>19. NoTimerLeft'
  BY <1>14 DEF NoTimerLeft
<1> QED
  BY <1>15, <1>16, <1>17, <1>18, <1>19

-----------------------------------------------------------------------------
(* The theorems *)

\* Every coroutine starts in the queue of its own worker.
LEMMA InitIInv == Init => IInv
<1> SUFFICES ASSUME Init PROVE IInv
  OBVIOUS
<1> USE DEF Init
<1> DEFINE At(w) == {c \in Cos : Home[c] = w}
<1>1. \A w \in Workers : queue[w] \in SetToSeqs(At(w)) /\ IsFiniteSet(At(w))
  BY HookAssumption, FS_Subset, SetToSeqIsOrder
<1>2. \A w \in Workers : /\ queue[w] \in Seq(At(w))
                         /\ \A e : (Occurs(queue[w], e) <=> e \in At(w)) /\ AtMostOnce(queue[w], e)
  BY <1>1, OccursPermutation
<1>3. Typed
  <2>1. \A w \in Workers : queue[w] \in Seq(Tasks)
    <3> SUFFICES ASSUME NEW w \in Workers PROVE queue[w] \in Seq(Tasks)
      OBVIOUS
    <3>1. At(w) \subseteq Tasks
      BY DEF Tasks
    <3> QED
      BY <1>2, <3>1
  <2>2. queue \in [Workers -> Seq(Tasks)]
    BY <2>1
  <2> QED
    BY <2>2, HookAssumption DEF Typed, Labels
<1>4. Placed
  <2> SUFFICES ASSUME NEW c \in Cos PROVE Place(c)
    BY DEF Placed
  <2>1. Home[c] \in Workers /\ c # None /\ c \in At(Home[c])
    BY HookAssumption
  <2>2. Occurs(queue[Home[c]], c) /\ AtMostOnce(queue[Home[c]], c)
    BY <1>2, <2>1
  <2> QED
    BY <2>1, <2>2 DEF Place, Queued
<1>5. FromExpired
  BY <1>2, HookAssumption DEF FromExpired, Timeouts
<1>6. Numbered /\ OwnTimeout /\ NoTimerLeft
  BY DEF Numbered, OwnTimeout, NoTimerLeft
<1> QED
  BY <1>3, <1>4, <1>5, <1>6 DEF IInv

\* Every step of coroutines, workers, timers and peers.
LEMMA NextIInv == IInv /\ [Next]_vars => IInv'
<1> SUFFICES ASSUME IInv, [Next]_vars PROVE IInv'
  OBVIOUS
<1>1. CASE Next
  <2>1. ASSUME NEW c \in Cos, CoStep(c) \/ Expire(c) \/ BecomesReady(c) PROVE IInv'
    BY <2>1, CallStep, TryStep, AddEventStep, ResumedStep, WorldStep DEF CoStep
  <2>2. ASSUME NEW w \in Workers, WorkerStep(w) PROVE IInv'
    BY <2>2, RunCoStep, RunTimeoutStep, PollStep DEF WorkerStep
  <2> QED
    BY <1>1, <2>1, <2>2 DEF Next
<1>2. CASE UNCHANGED vars
  BY <1>2 DEF vars, IInv, Typed, Placed, Place, Queued, Numbered, FromExpired, OwnTimeout,
              NoTimerLeft
<1> QED
  BY <1>1, <1>2

\* The inductive invariant holds in every behaviour of the hooked calls.
THEOREM Invariance == Spec => []IInv
  BY InitIInv, NextIInv, PTL DEF Spec

\* do_io's timeout function and the poller never both put the coroutine back, on
\* any number of workers: it is queued once, running, or registered.
THEOREM ResumedJustOnce == Spec => []ResumedOnce
<1>1. IInv => ResumedOnce
  <2> SUFFICES ASSUME IInv, NEW c \in Cos
               PROVE  /\ Cardinality({i \in DOMAIN queue[Home[c]] : queue[Home[c]][i] = c})
                         + (IF cur[Home[c]] = c THEN 1 ELSE 0)
                         + (IF registered[c] THEN 1 ELSE 0)
                          = IF pc[c] = "done" THEN 0 ELSE 1
                      /\ registered[c] => pc[c] = "wait"
    BY DEF ResumedOnce
  <2>1. Place(c) /\ queue[Home[c]] \in Seq(Tasks)
    BY HookAssumption DEF IInv, Placed, Typed
  <2>2. Cardinality({i \in DOMAIN queue[Home[c]] : queue[Home[c]][i] = c})
          = IF Queued(c) THEN 1 ELSE 0
    BY <2>1, CountOccurrences DEF Place, Queued
  <2> QED
    BY <2>1, <2>2 DEF Place
<1> QED
  BY <1>1, Invariance, PTL

\* The weak_ptr to timerInfo keeps a function of an earlier call from cancelling
\* the present one, however late it runs and on whichever worker.
THEOREM CancelledByOwnTimer == Spec => []OwnTimeout
  BY Invariance, PTL DEF IInv

\* Every way out of do_io cancels the timer of the call.
THEOREM TimersEndWithCalls == Spec => []NoTimerLeft
  BY Invariance, PTL DEF IInv
=============================================================================
