-------------------------- MODULE SchedulerProofs ---------------------------
(***************************************************************************)
(* Proofs about modules Worker and Scheduler.                              *)
(***************************************************************************)
EXTENDS Scheduler, SeqLemmas

Labels == {"start", "take", "run", "armed", "getExpire", "hasTask", "canStop", "enterWait",
           "wait", "expired", "events", "exit"}

\* Who joins joins every worker: stop() is not entered before the init thread has
\* created all of them, and a worker that has left run() does not come back.
QuitInv ==
  /\ pc \in [Workers -> Labels]
  /\ initPc = "run" => Range(threads) = ThreadWorkers
  /\ \A t \in Threads : stopping[t].at = "stop" => initPc = "run"
  /\ joiner # None => initPc = "run"
  /\ QuitAfterAllExit
  /\ threads \in Seq(ThreadWorkers)
  /\ stopping \in [Threads -> [at : {"no", "stop", "done"}, todo : Seq(Workers)]]

-----------------------------------------------------------------------------
(* wait() and the workers *)

\* No step of a worker or of a notification takes a worker back out of exit.
LEMMA ExitIsFinal ==
  ASSUME pc \in [Workers -> Labels],
         \/ \E w \in Workers : WorkerStep(w)
         \/ \E t \in Threads : Notify(t) \/ \E w \in Workers, f \in Funcs : Post(t, w, f)
         \/ \E t \in Threads, w \in Workers : WorkerStop(t, w)
         \/ Tick
  PROVE  pc' \in [Workers -> Labels] /\ \A w \in Workers : pc[w] = "exit" => pc'[w] = "exit"
<1>1. CASE \E w \in Workers : WorkerStep(w)
  <2>1. PICK w \in Workers : WorkerStep(w)
    BY <1>1
  <2>2. CASE RunStart(w) \/ RunLoop(w)
    BY <2>2 DEF RunStart, RunLoop, TakeCo, TakeFunc, EnterIdle, Quit, Labels
  <2>3. CASE Body(w)
    BY <2>3 DEF Body, Finish, RunWake, ParkIO, SleepArm, SleepYield, Suspend, CanYield,
       workerVars, Labels
  <2>4. CASE IdleLoop(w)
    BY <2>4 DEF IdleLoop, GetExpire, HasTask, IdleExit, KeepGoing, SetPolling, EpollWait,
       Expired, Events, Labels
  <2> QED
    BY <2>1, <2>2, <2>3, <2>4 DEF WorkerStep
<1>2. CASE ~\E w \in Workers : WorkerStep(w)
  BY <1>2 DEF Notify, NotifyCheck, NotifyWrite, Post, WorkerStop, Tick, workerVars
<1> QED
  BY <1>1, <1>2

\* Every step of the scheduler, its threads and its workers.
LEMMA QuitInvNext == QuitInv /\ [SchNext]_allVars => QuitInv'
<1> SUFFICES ASSUME QuitInv, [SchNext]_allVars PROVE QuitInv'
  OBVIOUS
<1> USE DEF QuitInv
<1>1. CASE StartAsync
  BY <1>1 DEF StartAsync, vars, workerVars, QuitAfterAllExit
<1>2. CASE InitDone
  BY <1>2 DEF InitDone, vars, workerVars, QuitAfterAllExit
<1>3. CASE JoinAll
  <2>1. ToJoin = Workers
    BY <1>3, SchedulerAssumption DEF JoinAll, ToJoin
  <2> QED
    BY <2>1, <1>3 DEF JoinAll, vars, workerVars, QuitAfterAllExit
<1>4. ASSUME NEW w \in ThreadWorkers, InitSpawn(w) PROVE QuitInv'
  <2>1. threads' \in Seq(ThreadWorkers)
    BY <1>4, AppendProperties DEF InitSpawn
  <2> QED
    BY <2>1, <1>4 DEF InitSpawn, vars, workerVars, QuitAfterAllExit
<1>5. ASSUME UNCHANGED schVars,
             pc' \in [Workers -> Labels], \A w \in Workers : pc[w] = "exit" => pc'[w] = "exit"
      PROVE  QuitInv'
  BY <1>5 DEF schVars, QuitAfterAllExit
<1>6. ASSUME NEW w \in Workers, Step(w) PROVE QuitInv'
  BY <1>5, <1>6, ExitIsFinal DEF Step
<1>7. ASSUME NEW t \in Threads, Notify(t), UNCHANGED schVars PROVE QuitInv'
  BY <1>5, <1>7, ExitIsFinal
<1>8. ASSUME NEW t \in Threads, NEW w \in Workers, NEW f \in Funcs, SchPost(t, w, f) PROVE QuitInv'
  BY <1>5, <1>8, ExitIsFinal DEF SchPost
<1>9. CASE Tick /\ UNCHANGED schVars
  BY <1>5, <1>9, ExitIsFinal
<1>10. ASSUME NEW t \in Threads, StopEnter(t) PROVE QuitInv'
  <2>1. threads \in Seq(Workers) /\ <<Main>> \in Seq(Workers)
    BY SchedulerAssumption
  <2>2. <<Main>> \o WorkerList \in Seq(Workers)
    BY <2>1, ConcatProperties DEF WorkerList
  <2> QED
    BY <2>2, <1>10 DEF StopEnter, vars, workerVars, QuitAfterAllExit
<1>11. ASSUME NEW t \in Threads, StopWorker(t) PROVE QuitInv'
  <2>1. Tail(stopping[t].todo) \in Seq(Workers)
    BY <1>11 DEF StopWorker
  <2> QED
    BY <2>1, <1>11 DEF StopWorker, WorkerStop, QuitAfterAllExit
<1>12. ASSUME NEW t \in Threads, StopJoin(t) PROVE QuitInv'
  BY <1>12 DEF StopJoin, vars, workerVars, QuitAfterAllExit
<1>13. CASE UNCHANGED allVars
  BY <1>13 DEF allVars, vars, workerVars, schVars, QuitAfterAllExit
<1> QED
  BY <1>1, <1>2, <1>3, <1>4, <1>6, <1>7, <1>8, <1>9, <1>10, <1>11, <1>12, <1>13
  DEF SchNext, StopStep

\* Nothing is joined at the start.
LEMMA QuitInvInit == SchInit => QuitInv
<1> SUFFICES ASSUME SchInit PROVE QuitInv
  OBVIOUS
<1> USE DEF SchInit, Init
<1>1. threads \in Seq(ThreadWorkers)
  OBVIOUS
<1>2. stopping \in [Threads -> [at : {"no", "stop", "done"}, todo : Seq(Workers)]]
      /\ \A t \in Threads : stopping[t].at # "stop"
  <2>1. NotStopping \in [at : {"no", "stop", "done"}, todo : Seq(Workers)]
    BY EmptySeq DEF NotStopping
  <2> QED
    BY <2>1 DEF NotStopping
<1>3. pc \in [Workers -> Labels]
  BY DEF Labels
<1> QED
  BY <1>1, <1>2, <1>3 DEF QuitInv, QuitAfterAllExit

\* wait() returns only after every worker has left run(), however many workers
\* there are and whoever calls stop(), early or late.
THEOREM QuitIsLast == SchSpec => []QuitAfterAllExit
<1>1. QuitInv => QuitAfterAllExit
  BY DEF QuitInv
<1> QED
  BY <1>1, QuitInvInit, QuitInvNext, PTL DEF SchSpec


-----------------------------------------------------------------------------
(* Who holds a coroutine *)

\* What can make a worker resume a coroutine: the coroutine itself, in a queue or
\* in an IOEvent, or a wake-up function for it, in a timer, a queue or a coroutine.
Tokens == Cos \cup Wakes
Owner(e) == IF e \in Cos THEN e ELSE e.co

\* Token e is in place <<k, x>>.
At(e, k, x) ==
  \/ k = "io" /\ x \in Workers /\ e \in parked[x]
  \/ k = "timer" /\ x = None /\ Occurs(timers, e)
  \/ k = "task" /\ x \in Workers /\ Occurs(tasks[x], e)
  \/ k = "body" /\ x \in Cos /\ fn[x] = e /\ e \in Wakes

Kinds == {"io", "timer", "task", "body"}
Sites == Workers \cup Cos \cup {None}

States == {"INIT", "RUNNING", "SUSPEND", "DONE", "EXCEPT"}

CoTyped ==
  /\ pc \in [Workers -> Labels]
  /\ tasks \in [Workers -> Seq(Cos \cup Func)]
  /\ timers \in Seq(Wakes) /\ due \in 0 .. Len(timers)
  /\ parked \in [Workers -> SUBSET Cos]
  /\ ready \in [Workers -> [evfd : BOOLEAN, io : SUBSET Cos]] /\ eventfd \in [Workers -> BOOLEAN]
  /\ cur \in [Workers -> Cos \cup {None}] /\ coFunc \in [Workers -> Cos \cup {None}]
  /\ state \in [Cos -> States] /\ fn \in [Cos -> Func \cup {None}]

\* The running coroutines are the ones that some worker is in.
Running ==
  /\ \A w \in Workers : cur[w] # None <=> pc[w] \in {"run", "armed"}
  /\ \A w \in Workers : cur[w] # None => state[cur[w]] = "RUNNING"
  /\ \A c \in Cos : state[c] = "RUNNING" => \E w \in Workers : cur[w] = c
  /\ \A v, w \in Workers : cur[v] = cur[w] /\ cur[w] # None => v = w
  /\ \A w \in Workers : pc[w] = "armed" => fn[cur[w]] \in Funcs
  /\ \A c \in Cos : fn[c] \in Wakes => state[c] = "RUNNING"

\* A coroutine has one token, in one place.
OneToken ==
  /\ \A e, f \in Tokens, k, l \in Kinds, x, y \in Sites :
        Owner(e) = Owner(f) /\ At(e, k, x) /\ At(f, l, y) => e = f /\ k = l /\ x = y
  /\ \A e \in Tokens : AtMostOnce(timers, e) /\ \A w \in Workers : AtMostOnce(tasks[w], e)

Held(c) == \E e \in Tokens, k \in Kinds, x \in Sites : Owner(e) = c /\ At(e, k, x)

HeldIffAsleep == \A c \in Cos : Held(c) <=> state[c] = "SUSPEND" \/ FallingAsleep(c)

\* While a coroutine is on its way to sleep, only its own worker can be told to
\* resume it, and that worker is busy with it.
WokenAtHome ==
  \A w \in Workers : pc[w] = "armed" =>
    \A e \in Tokens, k \in Kinds, x \in Sites : Owner(e) = cur[w] /\ At(e, k, x) =>
      IF e \in Cos THEN k = "task" /\ x = w ELSE e.home = w

\* Spares are finished or in use by their worker, and no two workers share one.
Spares ==
  /\ \A w \in Workers : coFunc[w] # None =>
       coFunc[w] = cur[w] \/ state[coFunc[w]] \in {"DONE", "EXCEPT"}
  /\ \A v, w \in Workers : coFunc[v] = coFunc[w] /\ coFunc[w] # None => v = w

ReadyParked == \A w \in Workers : ready[w].io \subseteq parked[w]

CoInv == CoTyped /\ Running /\ OneToken /\ HeldIffAsleep /\ WokenAtHome /\ Spares /\ ReadyParked


-----------------------------------------------------------------------------
(* How a step moves tokens *)

\* Coroutines, wake-ups and functions are different things.
LEMMA TokenFacts ==
  /\ \A c \in Cos : c \in Tokens /\ c \notin Wakes /\ c \notin Funcs /\ c # None /\ Owner(c) = c
  /\ \A e \in Wakes : /\ e \in Tokens /\ e \notin Cos /\ e \notin Funcs /\ e # None
                      /\ Owner(e) = e.co /\ e.co \in Cos /\ e.home \in Workers
  /\ \A f \in Funcs : f \notin Tokens /\ f # None
  /\ None \notin Tokens /\ None \notin Func
  /\ Tokens \subseteq Cos \cup Func /\ \A e \in Tokens : Owner(e) \in Cos
<1>1. \A c \in Cos : c \in Tokens /\ c \notin Wakes /\ c \notin Funcs /\ c # None /\ Owner(c) = c
  BY WorkerAssumption, Zenon DEF Tokens, Owner, Wakes
<1>2. \A e \in Wakes : e.co \in Cos /\ e.home \in Workers
  BY DEF Wakes
<1>3. \A e \in Wakes : e \in Tokens /\ e \notin Cos /\ e \notin Funcs /\ e # None
  BY WorkerAssumption, Zenon DEF Tokens, Wakes
<1>4. \A e \in Wakes : Owner(e) = e.co
  BY <1>3 DEF Owner
<1>5. \A f \in Funcs : f \notin Tokens /\ f # None
  BY WorkerAssumption, Zenon DEF Tokens, Wakes
<1>6. None \notin Tokens /\ None \notin Func
  BY WorkerAssumption, Zenon DEF Tokens, Wakes, Func
<1>7. Tokens \subseteq Cos \cup Func
  BY DEF Tokens, Func
<1>8. \A e \in Tokens : Owner(e) \in Cos
  BY <1>1, <1>2, <1>4 DEF Tokens
<1> QED
  BY <1>1, <1>2, <1>3, <1>4, <1>5, <1>6, <1>7, <1>8

Asleep(c) == state[c] = "SUSPEND" \/ FallingAsleep(c)

\* The token of c stays where it is, is used up, or is f in place <<l, y>> now.
Same(c) == \A e \in Tokens, k \in Kinds, x \in Sites : Owner(e) = c => (At(e, k, x)' <=> At(e, k, x))
Gone(c) == \A e \in Tokens, k \in Kinds, x \in Sites : Owner(e) = c => ~At(e, k, x)'
Now(c, f, l, y) ==
  \A e \in Tokens, k \in Kinds, x \in Sites : Owner(e) = c => (At(e, k, x)' <=> e = f /\ k = l /\ x = y)

\* What a step may do to coroutine c and its token.
GoodMove(c) ==
  \/ /\ Same(c) /\ (Asleep(c)' <=> Asleep(c))
     /\ \A w \in Workers : pc'[w] = "armed" /\ cur'[w] = c => pc[w] = "armed" /\ cur[w] = c
  \/ Gone(c) /\ ~Asleep(c)'
  \/ \E f \in Tokens, l \in Kinds, y \in Sites :
       /\ Owner(f) = c /\ Now(c, f, l, y) /\ Asleep(c)'
       /\ \A w \in Workers : pc'[w] = "armed" /\ cur'[w] = c =>
            IF f \in Cos THEN l = "task" /\ y = w ELSE f.home = w

\* Moves that are good for each coroutine keep the invariant's three parts.
LEMMA GoodMoves ==
  ASSUME OneToken, HeldIffAsleep, WokenAtHome, \A c \in Cos : GoodMove(c),
         \A w \in Workers : pc'[w] = "armed" => cur'[w] \in Cos,
         \A e \in Tokens : AtMostOnce(timers', e) /\ \A w \in Workers : AtMostOnce(tasks'[w], e)
  PROVE  OneToken' /\ HeldIffAsleep' /\ WokenAtHome'
<1>1. ASSUME NEW e \in Tokens, NEW f \in Tokens, NEW k \in Kinds, NEW l \in Kinds,
             NEW x \in Sites, NEW y \in Sites,
             Owner(e) = Owner(f), At(e, k, x)', At(f, l, y)'
      PROVE  e = f /\ k = l /\ x = y
  <2>1. Owner(e) \in Cos
    BY TokenFacts
  <2>2. GoodMove(Owner(e))
    BY <2>1
  <2>3. CASE Same(Owner(e))
    <3>1. At(e, k, x) /\ At(f, l, y)
      BY <1>1, <2>3 DEF Same
    <3> QED
      BY <1>1, <3>1 DEF OneToken
  <2>4. CASE Gone(Owner(e))
    BY <1>1, <2>4 DEF Gone
  <2>5. ASSUME NEW g, NEW m, NEW z, Now(Owner(e), g, m, z) PROVE e = f /\ k = l /\ x = y
    BY <1>1, <2>5 DEF Now
  <2> QED
    BY <2>2, <2>3, <2>4, <2>5 DEF GoodMove
<1>2. OneToken'
  BY <1>1 DEF OneToken
<1>3. ASSUME NEW c \in Cos PROVE Held(c)' <=> Asleep(c)'
  <2>1. CASE Same(c) /\ (Asleep(c)' <=> Asleep(c))
    <3>1. Held(c)' <=> Held(c)
      BY <2>1 DEF Held, Same
    <3> QED
      BY <2>1, <3>1 DEF HeldIffAsleep, Asleep
  <2>2. CASE Gone(c) /\ ~Asleep(c)'
    BY <2>2 DEF Gone, Held
  <2>3. ASSUME NEW f \in Tokens, NEW l \in Kinds, NEW y \in Sites,
               Owner(f) = c, Now(c, f, l, y), Asleep(c)'
        PROVE  Held(c)' <=> Asleep(c)'
    BY <2>3 DEF Now, Held
  <2> QED
    BY <2>1, <2>2, <2>3 DEF GoodMove
<1>4. HeldIffAsleep'
  BY <1>3 DEF HeldIffAsleep, Asleep
<1>5. WokenAtHome'
  <2> SUFFICES ASSUME NEW w \in Workers, pc'[w] = "armed",
                      NEW e \in Tokens, NEW k \in Kinds, NEW x \in Sites,
                      Owner(e) = cur'[w], At(e, k, x)'
               PROVE  IF e \in Cos THEN k = "task" /\ x = w ELSE e.home = w
    BY DEF WokenAtHome
  <2>1. PICK c \in Cos : GoodMove(c) /\ c = cur'[w]
    OBVIOUS
  <2>2. Owner(e) = c /\ pc'[w] = "armed" /\ cur'[w] = c
    BY <2>1
  <2>3. CASE Same(c) /\ pc[w] = "armed" /\ cur[w] = c
    <3>1. At(e, k, x)
      BY <2>2, <2>3 DEF Same
    <3> QED
      BY <2>2, <2>3, <3>1 DEF WokenAtHome
  <2>4. CASE Gone(c)
    BY <2>2, <2>4 DEF Gone
  <2>5. ASSUME NEW f \in Tokens, NEW l \in Kinds, NEW y \in Sites, Now(c, f, l, y),
               IF f \in Cos THEN l = "task" /\ y = w ELSE f.home = w
        PROVE  IF e \in Cos THEN k = "task" /\ x = w ELSE e.home = w
    BY <2>2, <2>5 DEF Now
  <2> QED
    BY <2>1, <2>2, <2>3, <2>4, <2>5 DEF GoodMove
<1> QED
  BY <1>2, <1>4, <1>5

\* A step that concerns no coroutine.
LEMMA QuietStep ==
  ASSUME CoInv, UNCHANGED <<parked, timers, fn, state, cur, coFunc>>,
         pc' \in [Workers -> Labels], tasks' \in [Workers -> Seq(Cos \cup Func)],
         \A w \in Workers : pc'[w] # pc[w] =>
            pc[w] \notin {"run", "armed"} /\ pc'[w] \notin {"run", "armed"},
         \A e \in Tokens, w \in Workers : /\ Occurs(tasks'[w], e) <=> Occurs(tasks[w], e)
                                          /\ AtMostOnce(tasks'[w], e),
         ready' \in [Workers -> [evfd : BOOLEAN, io : SUBSET Cos]], ReadyParked',
         eventfd' \in [Workers -> BOOLEAN],
         due' \in 0 .. Len(timers)
  PROVE  CoInv'
<1>1. CoTyped'
  BY DEF CoInv, CoTyped
<1>2. Running'
  BY DEF CoInv, Running
<1>3. Spares'
  BY DEF CoInv, Spares
<1>4. \A c \in Cos : GoodMove(c)
  <2>1. \A e \in Tokens, k \in Kinds, x \in Sites : At(e, k, x)' <=> At(e, k, x)
    BY DEF At
  <2>2. \A w \in Workers : pc'[w] = "armed" <=> pc[w] = "armed"
    OBVIOUS
  <2>3. \A c \in Cos : Asleep(c)' <=> Asleep(c)
    BY <2>2 DEF Asleep, FallingAsleep
  <2> QED
    BY <2>1, <2>2, <2>3 DEF GoodMove, Same
<1>5. OneToken' /\ HeldIffAsleep' /\ WokenAtHome'
  <2>1. \A w \in Workers : pc'[w] = "armed" => cur'[w] \in Cos
    BY <1>1, <1>2 DEF CoTyped, Running
  <2>2. \A e \in Tokens : AtMostOnce(timers', e)
    BY DEF CoInv, OneToken
  <2> QED
    BY <1>4, <2>1, <2>2, GoodMoves DEF CoInv
<1> QED
  BY <1>1, <1>2, <1>3, <1>5 DEF CoInv


-----------------------------------------------------------------------------
(* The steps of the workers *)

\* addTask(func), notify(), stop() and the passing of time.
LEMMA OthersQuiet ==
  ASSUME CoInv,
         \/ \E t \in Threads : Notify(t) \/ \E w \in Workers, f \in Funcs : Post(t, w, f)
         \/ \E t \in Threads, w \in Workers : WorkerStop(t, w)
         \/ Tick
         \/ UNCHANGED vars
  PROVE  CoInv'
<1> USE DEF workerVars, coVars, timerVars, vars
<1>1. CoTyped /\ OneToken /\ ReadyParked
  BY DEF CoInv
<1>2. ASSUME NEW t \in Threads, NEW w \in Workers, NEW f \in Funcs, Post(t, w, f) PROVE CoInv'
  <2>1. tasks' = [tasks EXCEPT ![w] = Append(@, f)] /\ tasks[w] \in Seq(Cos \cup Func) /\ f \in Cos \cup Func
    BY <1>1, <1>2 DEF Post, AddTask, PushBack, CoTyped, Func
  <2>2. tasks' \in [Workers -> Seq(Cos \cup Func)]
    BY <1>1, <2>1, AppendProperties DEF CoTyped
  <2>3. \A e \in Tokens, v \in Workers : /\ Occurs(tasks'[v], e) <=> Occurs(tasks[v], e)
                                         /\ AtMostOnce(tasks'[v], e)
    <3> SUFFICES ASSUME NEW e \in Tokens, NEW v \in Workers
                 PROVE  (Occurs(tasks'[v], e) <=> Occurs(tasks[v], e)) /\ AtMostOnce(tasks'[v], e)
      OBVIOUS
    <3>1. f # e /\ AtMostOnce(tasks[v], e)
      BY <1>1, TokenFacts DEF OneToken
    <3>2. tasks'[v] = IF v = w THEN Append(tasks[w], f) ELSE tasks[v]
      BY <1>1, <2>1 DEF CoTyped
    <3>3. /\ Occurs(Append(tasks[w], f), e) <=> Occurs(tasks[w], e) \/ f = e
          /\ AtMostOnce(tasks[w], e) /\ (f = e => ~Occurs(tasks[w], e)) => AtMostOnce(Append(tasks[w], f), e)
      BY <2>1, OccursAppend
    <3> QED
      BY <3>1, <3>2, <3>3
  <2> QED
    BY <1>1, <1>2, <2>2, <2>3, QuietStep DEF Post, CoTyped, ReadyParked
<1>3. CASE Tick
  <2>1. due' \in 0 .. Len(timers)
    BY <1>1, <1>3 DEF Tick, CoTyped
  <2> QED
    BY <1>1, <1>3, <2>1, QuietStep DEF Tick, CoTyped, OneToken, ReadyParked
<1>4. CASE \/ \E t \in Threads : Notify(t)
           \/ \E t \in Threads, w \in Workers : WorkerStop(t, w)
           \/ UNCHANGED vars
  <2>1. UNCHANGED <<parked, timers, fn, state, cur, coFunc, pc, tasks, ready, due>>
    BY <1>4, SMTT(60) DEF Notify, NotifyCheck, NotifyWrite, WorkerStop
  <2>2. eventfd' \in [Workers -> BOOLEAN]
    BY <1>1, <1>4 DEF Notify, NotifyCheck, NotifyWrite, WorkerStop, CoTyped
  <2> QED
    BY <1>1, <2>1, <2>2, QuietStep, SMTT(60) DEF CoTyped, OneToken, ReadyParked
<1> QED
  BY <1>2, <1>3, <1>4

\* A queue with a finished coroutine at its head is not reachable.
LEMMA NothingMeansEmpty ==
  ASSUME CoInv, NEW w \in Workers, NothingToResume(w)
  PROVE  tasks[w] = <<>>
<1> SUFFICES ASSUME tasks[w] # <<>> PROVE FALSE
  OBVIOUS
<1> DEFINE c == Head(tasks[w])
<1>1. c \in Cos /\ state[c] \in {"DONE", "EXCEPT"}
  BY DEF NothingToResume
<1>2. Occurs(tasks[w], c)
  BY OccursTail DEF CoInv, CoTyped
<1>3. At(c, "task", w)
  BY <1>2 DEF At
<1>4. Held(c)
  BY <1>1, <1>3, TokenFacts DEF Held, Kinds, Sites
<1>5. FallingAsleep(c)
  BY <1>1, <1>4 DEF CoInv, HeldIffAsleep
<1>6. state[c] = "RUNNING"
  BY <1>1, <1>5, TokenFacts DEF FallingAsleep, CoInv, Running
<1> QED
  BY <1>1, <1>6

\* The steps of run() and of idle() in which no coroutine is switched or moved.
LEMMA IdleQuiet ==
  ASSUME CoInv, NEW w \in Workers,
         \/ RunStart(w) \/ EnterIdle(w) \/ Quit(w)
         \/ GetExpire(w) \/ HasTask(w) \/ IdleExit(w) \/ KeepGoing(w) \/ SetPolling(w) \/ EpollWait(w)
  PROVE  CoInv'
<1> USE DEF workerVars, coVars, timerVars
<1>1. CoTyped /\ OneToken /\ ReadyParked
  BY DEF CoInv
<1>2. tasks' = tasks
  <2>1. CASE EnterIdle(w) \/ Quit(w)
    <3>1. tasks[w] = <<>> /\ DropHead(w)
      BY <2>1, NothingMeansEmpty DEF EnterIdle, Quit
    <3> QED
      BY <1>1, <3>1 DEF DropHead, CoTyped
  <2>2. CASE ~(EnterIdle(w) \/ Quit(w))
    BY <2>2 DEF RunStart, GetExpire, HasTask, IdleExit, KeepGoing, SetPolling, EpollWait
  <2> QED
    BY <2>1, <2>2
<1>3. /\ UNCHANGED <<parked, timers, fn, state, cur, coFunc, due, eventfd>>
      /\ \E l \in Labels \ {"run", "armed"} : pc' = [pc EXCEPT ![w] = l]
      /\ pc[w] \in Labels \ {"run", "armed"}
  BY DEF RunStart, EnterIdle, Quit, GetExpire, HasTask, IdleExit, KeepGoing, SetPolling,
         EpollWait, Labels
<1>4. ready' \in [Workers -> [evfd : BOOLEAN, io : SUBSET Cos]] /\ ReadyParked'
  <2>1. CASE UNCHANGED ready
    BY <1>1, <1>3, <2>1 DEF CoTyped, ReadyParked
  <2>2. CASE EpollWait(w)
    <3>1. PICK io \in SUBSET parked[w] : ready' = [ready EXCEPT ![w] = [evfd |-> eventfd[w], io |-> io]]
      BY <2>2 DEF EpollWait
    <3> QED
      BY <1>1, <1>3, <3>1 DEF CoTyped, ReadyParked
  <2> QED
    BY <2>1, <2>2 DEF RunStart, EnterIdle, Quit, GetExpire, HasTask, IdleExit, KeepGoing, SetPolling
<1>5. pc' \in [Workers -> Labels] /\ \A v \in Workers : pc'[v] # pc[v] =>
         pc[v] \notin {"run", "armed"} /\ pc'[v] \notin {"run", "armed"}
  BY <1>1, <1>3 DEF CoTyped
<1> QED
  BY <1>1, <1>2, <1>3, <1>4, <1>5, QuietStep DEF CoTyped, OneToken


\* The head of a queue is taken.
LEMMA Popped ==
  ASSUME CoTyped, OneToken, NEW w \in Workers, tasks[w] # <<>>,
         tasks' = [tasks EXCEPT ![w] = Tail(@)]
  PROVE  /\ Head(tasks[w]) \in Cos \cup Func
         /\ tasks' \in [Workers -> Seq(Cos \cup Func)]
         /\ \A e \in Tokens, v \in Workers :
              /\ Occurs(tasks'[v], e) <=> Occurs(tasks[v], e) /\ ~(v = w /\ e = Head(tasks[w]))
              /\ AtMostOnce(tasks'[v], e)
         /\ Head(tasks[w]) \in Tokens => At(Head(tasks[w]), "task", w)
<1>1. tasks[w] \in Seq(Cos \cup Func) /\ Head(tasks[w]) \in Cos \cup Func /\ Tail(tasks[w]) \in Seq(Cos \cup Func)
  BY HeadTailProperties DEF CoTyped
<1>2. tasks' \in [Workers -> Seq(Cos \cup Func)]
  BY <1>1 DEF CoTyped
<1>3. \A v \in Workers : tasks'[v] = IF v = w THEN Tail(tasks[w]) ELSE tasks[v]
  BY DEF CoTyped
<1>4. ASSUME NEW e \in Tokens, NEW v \in Workers
      PROVE  /\ Occurs(tasks'[v], e) <=> Occurs(tasks[v], e) /\ ~(v = w /\ e = Head(tasks[w]))
             /\ AtMostOnce(tasks'[v], e)
  <2>1. AtMostOnce(tasks[v], e) /\ AtMostOnce(tasks[w], e)
    BY DEF OneToken
  <2>2. /\ Occurs(tasks[w], e) <=> Head(tasks[w]) = e \/ Occurs(Tail(tasks[w]), e)
        /\ AtMostOnce(Tail(tasks[w]), e)
        /\ Head(tasks[w]) = e => ~Occurs(Tail(tasks[w]), e)
    BY <1>1, <2>1, OccursTail
  <2> QED
    BY <1>3, <2>1, <2>2
<1>5. Occurs(tasks[w], Head(tasks[w]))
  BY <1>1, OccursTail
<1> QED
  BY <1>1, <1>2, <1>4, <1>5 DEF At

\* Tasks are added at the end of a queue.
LEMMA Pushed ==
  ASSUME CoTyped, OneToken, NEW w \in Workers, NEW s \in Seq(Cos \cup Func),
         tasks' = [tasks EXCEPT ![w] = @ \o s],
         \A e \in Tokens : AtMostOnce(s, e) /\ (Occurs(s, e) => ~Occurs(tasks[w], e))
  PROVE  /\ tasks' \in [Workers -> Seq(Cos \cup Func)]
         /\ \A e \in Tokens, v \in Workers :
              /\ Occurs(tasks'[v], e) <=> Occurs(tasks[v], e) \/ (v = w /\ Occurs(s, e))
              /\ AtMostOnce(tasks'[v], e)
<1>1. tasks[w] \in Seq(Cos \cup Func)
  BY DEF CoTyped
<1>2. tasks' \in [Workers -> Seq(Cos \cup Func)]
  <2>1. tasks[w] \o s \in Seq(Cos \cup Func)
    BY <1>1, ConcatProperties
  <2> QED
    BY <2>1 DEF CoTyped
<1>3. \A v \in Workers : tasks'[v] = IF v = w THEN tasks[w] \o s ELSE tasks[v]
  BY DEF CoTyped
<1>4. ASSUME NEW e \in Tokens, NEW v \in Workers
      PROVE  /\ Occurs(tasks'[v], e) <=> Occurs(tasks[v], e) \/ (v = w /\ Occurs(s, e))
             /\ AtMostOnce(tasks'[v], e)
  <2>1. AtMostOnce(tasks[v], e) /\ AtMostOnce(tasks[w], e) /\ AtMostOnce(s, e)
    BY DEF OneToken
  <2>2. /\ Occurs(tasks[w] \o s, e) <=> Occurs(tasks[w], e) \/ Occurs(s, e)
        /\ AtMostOnce(tasks[w], e) /\ AtMostOnce(s, e) /\ ~(Occurs(tasks[w], e) /\ Occurs(s, e))
             => AtMostOnce(tasks[w] \o s, e)
    BY <1>1, OccursConcat
  <2> QED
    BY <1>3, <2>1, <2>2
<1> QED
  BY <1>2, <1>4

\* The coroutine that a worker runs, before it arms a timer, has no token.
LEMMA RunningFacts ==
  ASSUME CoInv, NEW w \in Workers, pc[w] = "run"
  PROVE  /\ cur[w] \in Cos /\ state[cur[w]] = "RUNNING" /\ ~Held(cur[w]) /\ ~Asleep(cur[w])
         /\ \A v \in Workers : cur[v] = cur[w] => v = w
<1>1. cur[w] \in Cos /\ state[cur[w]] = "RUNNING" /\ \A v \in Workers : cur[v] = cur[w] => v = w
  BY DEF CoInv, CoTyped, Running
<1>2. ~Asleep(cur[w])
  BY <1>1 DEF Asleep, FallingAsleep
<1>3. ~Held(cur[w])
  BY <1>1, <1>2 DEF CoInv, HeldIffAsleep, Asleep
<1> QED
  BY <1>1, <1>2, <1>3

\* A worker switches to a coroutine that no worker is in.
LEMMA SwitchIn ==
  ASSUME CoTyped, Running, NEW w \in Workers, NEW c0 \in Cos, pc[w] = "take",
         \A v \in Workers : cur[v] # c0,
         pc' = [pc EXCEPT ![w] = "run"], cur' = [cur EXCEPT ![w] = c0],
         state' = [state EXCEPT ![c0] = "RUNNING"],
         \A c \in Cos : c # c0 => fn'[c] = fn[c]
  PROVE  /\ Running'
         /\ pc' \in [Workers -> Labels] /\ cur' \in [Workers -> Cos \cup {None}] /\ state' \in [Cos -> States]
         /\ cur[w] = None /\ \A v \in Workers : cur'[v] = IF v = w THEN c0 ELSE cur[v]
         /\ \A c \in Cos : state'[c] = IF c = c0 THEN "RUNNING" ELSE state[c]
         /\ \A c \in Cos \ {c0} : Asleep(c)' <=> Asleep(c)
         /\ ~Asleep(c0)'
         /\ \A v \in Workers : (pc'[v] = "armed" <=> pc[v] = "armed") /\ (pc[v] = "armed" => cur'[v] = cur[v])
<1>1. /\ \A v \in Workers : pc'[v] = (IF v = w THEN "run" ELSE pc[v]) /\ cur'[v] = (IF v = w THEN c0 ELSE cur[v])
      /\ \A c \in Cos : state'[c] = IF c = c0 THEN "RUNNING" ELSE state[c]
      /\ cur[w] = None
  BY ZenonT(60) DEF CoTyped, Running
<1>2. \A v \in Workers : cur[v] \in Cos \cup {None}
  BY DEF CoTyped
<1>3. c0 # None /\ \A c \in Cos : c # None
  BY TokenFacts
<1>4. \A v \in Workers : (pc'[v] = "armed" <=> pc[v] = "armed") /\ (pc[v] = "armed" => v # w /\ cur'[v] = cur[v])
  BY <1>1
<1>5. Running'
  <2>1. \A v \in Workers : cur'[v] # None <=> pc'[v] \in {"run", "armed"}
    BY <1>1, <1>3 DEF Running
  <2>2. \A v \in Workers : cur'[v] # None => state'[cur'[v]] = "RUNNING"
    BY <1>1, <1>2, <1>3 DEF Running
  <2>3. ASSUME NEW c \in Cos, state'[c] = "RUNNING" PROVE \E v \in Workers : cur'[v] = c
    <3>1. CASE c = c0
      BY <1>1, <3>1
    <3>2. CASE c # c0
      <4>1. PICK v \in Workers : cur[v] = c
        BY <1>1, <2>3, <3>2 DEF Running
      <4> QED
        BY <1>1, <1>3, <4>1
    <3> QED
      BY <3>1, <3>2
  <2>4. \A u, v \in Workers : cur'[u] = cur'[v] /\ cur'[v] # None => u = v
    BY <1>1 DEF Running
  <2>5. \A v \in Workers : pc'[v] = "armed" => fn'[cur'[v]] \in Funcs
    <3> SUFFICES ASSUME NEW v \in Workers, pc'[v] = "armed" PROVE fn'[cur'[v]] \in Funcs
      OBVIOUS
    <3>1. pc[v] = "armed" /\ cur'[v] = cur[v] /\ cur[v] \in Cos /\ cur[v] # c0
      BY <1>2, <1>4 DEF Running
    <3>2. fn[cur[v]] \in Funcs
      BY <3>1 DEF Running
    <3> QED
      BY <3>1, <3>2
  <2>6. \A c \in Cos : fn'[c] \in Wakes => state'[c] = "RUNNING"
    BY <1>1 DEF Running
  <2> QED
    BY <2>1, <2>2, <2>3, <2>4, <2>5, <2>6 DEF Running
<1>6. \A c \in Cos \ {c0} : Asleep(c)' <=> Asleep(c)
  BY <1>1, <1>4 DEF Asleep, FallingAsleep
<1>7. ~Asleep(c0)'
  BY <1>1, <1>4 DEF Asleep, FallingAsleep
<1>8. pc' \in [Workers -> Labels] /\ cur' \in [Workers -> Cos \cup {None}] /\ state' \in [Cos -> States]
  BY DEF CoTyped, Labels, States
<1> QED
  BY <1>1, <1>4, <1>5, <1>6, <1>7, <1>8

\* A worker comes back to run() from a coroutine.
SwitchesOut(w, c0) ==
  /\ c0 = cur[w] /\ pc[w] \in {"run", "armed"}
  /\ pc' = [pc EXCEPT ![w] = "take"] /\ cur' = [cur EXCEPT ![w] = None]
  /\ state'[c0] # "RUNNING" /\ \A c \in Cos : c # c0 => state'[c] = state[c]
  /\ fn'[c0] \notin Wakes /\ \A c \in Cos : c # c0 => fn'[c] = fn[c]

\* A worker that leaves its coroutine runs nothing.
LEMMA SwitchOut ==
  ASSUME CoTyped, Running, NEW w \in Workers, NEW c0, SwitchesOut(w, c0)
  PROVE  /\ Running'
         /\ pc' \in [Workers -> Labels] /\ cur' \in [Workers -> Cos \cup {None}]
         /\ c0 \in Cos /\ \A v \in Workers : cur'[v] = IF v = w THEN None ELSE cur[v]
         /\ \A c \in Cos \ {c0} : Asleep(c)' <=> Asleep(c)
         /\ Asleep(c0)' <=> state'[c0] = "SUSPEND"
         /\ \A v \in Workers : pc'[v] = "armed" => v # w /\ pc[v] = "armed" /\ cur'[v] = cur[v] /\ cur[v] # c0
<1> USE DEF SwitchesOut
<1>0. c0 \in Cos /\ \A v \in Workers : cur[v] = c0 => v = w
  BY DEF CoTyped, Running
<1>1. /\ \A v \in Workers : pc'[v] = (IF v = w THEN "take" ELSE pc[v]) /\ cur'[v] = (IF v = w THEN None ELSE cur[v])
  BY <1>0 DEF CoTyped
<1>2. \A v \in Workers : cur[v] \in Cos \cup {None}
  BY DEF CoTyped
<1>3. \A c \in Cos : c # None
  BY TokenFacts
<1>4. \A v \in Workers : pc'[v] = "armed" => v # w /\ pc[v] = "armed" /\ cur'[v] = cur[v] /\ cur[v] # c0
  BY <1>0, <1>1
<1>5. Running'
  <2>1. \A v \in Workers : cur'[v] # None <=> pc'[v] \in {"run", "armed"}
    BY <1>1 DEF Running
  <2>2. \A v \in Workers : cur'[v] # None => state'[cur'[v]] = "RUNNING"
    BY <1>0, <1>1, <1>2 DEF Running
  <2>3. ASSUME NEW c \in Cos, state'[c] = "RUNNING" PROVE \E v \in Workers : cur'[v] = c
    <3>1. c # c0 /\ state[c] = "RUNNING"
      BY <1>1, <2>3
    <3>2. PICK v \in Workers : cur[v] = c
      BY <3>1 DEF Running
    <3> QED
      BY <1>1, <3>1, <3>2
  <2>4. \A u, v \in Workers : cur'[u] = cur'[v] /\ cur'[v] # None => u = v
    BY <1>1 DEF Running
  <2>5. \A v \in Workers : pc'[v] = "armed" => fn'[cur'[v]] \in Funcs
    <3> SUFFICES ASSUME NEW v \in Workers, pc'[v] = "armed" PROVE fn'[cur'[v]] \in Funcs
      OBVIOUS
    <3>1. pc[v] = "armed" /\ cur'[v] = cur[v] /\ cur[v] \in Cos /\ cur[v] # c0
      BY <1>2, <1>4 DEF Running
    <3>2. fn[cur[v]] \in Funcs
      BY <3>1 DEF Running
    <3> QED
      BY <3>1, <3>2
  <2>6. \A c \in Cos : fn'[c] \in Wakes => state'[c] = "RUNNING"
    BY <1>1 DEF Running
  <2> QED
    BY <2>1, <2>2, <2>3, <2>4, <2>5, <2>6 DEF Running
<1>6. \A c \in Cos \ {c0} : Asleep(c)' <=> Asleep(c)
  <2>1. \A v \in Workers : cur[v] # c0 /\ pc[v] = "armed" => pc'[v] = "armed" /\ cur'[v] = cur[v]
    BY <1>1
  <2> QED
    BY <1>1, <1>4, <2>1 DEF Asleep, FallingAsleep
<1>7. Asleep(c0)' <=> state'[c0] = "SUSPEND"
  <2>1. Asleep(c0)' <=> state'[c0] = "SUSPEND" \/ \E v \in Workers : pc'[v] = "armed" /\ cur'[v] = c0
    BY DEF Asleep, FallingAsleep
  <2> QED
    BY <1>0, <1>1, <1>4, <2>1
<1>8. pc' \in [Workers -> Labels] /\ cur' \in [Workers -> Cos \cup {None}]
  BY DEF CoTyped, Labels
<1> QED
  BY <1>0, <1>1, <1>4, <1>5, <1>6, <1>7, <1>8

\* What is left to show of a step once its effect on each coroutine is known.
LEMMA Moved ==
  ASSUME CoInv, CoTyped', Running', Spares', ReadyParked', \A c \in Cos : GoodMove(c),
         \A e \in Tokens : AtMostOnce(timers', e) /\ \A w \in Workers : AtMostOnce(tasks'[w], e)
  PROVE  CoInv'
<1>1. \A v \in Workers : pc'[v] = "armed" => cur'[v] \in Cos
  BY DEF CoTyped, Running
<1>2. OneToken' /\ HeldIffAsleep' /\ WokenAtHome'
  BY <1>1, GoodMoves DEF CoInv
<1> QED
  BY <1>2 DEF CoInv

\* A coroutine in a queue is suspended once its worker gets to it.
LEMMA HeadSuspended ==
  ASSUME CoInv, NEW w \in Workers, pc[w] = "take", tasks[w] # <<>>, NEW c0 \in Cos, c0 = Head(tasks[w])
  PROVE  state[c0] = "SUSPEND" /\ \A v \in Workers : cur[v] # c0
<1>1. CoTyped /\ Running /\ HeldIffAsleep /\ WokenAtHome
  BY DEF CoInv
<1>2. c0 \in Tokens /\ Owner(c0) = c0 /\ c0 # None
  BY TokenFacts
<1>3. At(c0, "task", w)
  <2>1. Occurs(tasks[w], c0)
    BY <1>1, OccursTail DEF CoTyped
  <2> QED
    BY <2>1 DEF At
<1>4. Held(c0)
  BY <1>2, <1>3 DEF Held, Kinds, Sites
<1>5. ASSUME NEW v \in Workers, pc[v] = "armed", cur[v] = c0 PROVE FALSE
  <2>1. v = w
    BY <1>1, <1>2, <1>3, <1>5 DEF WokenAtHome, Kinds, Sites
  <2> QED
    BY <1>5, <2>1
<1>6. state[c0] = "SUSPEND"
  BY <1>1, <1>4, <1>5 DEF HeldIffAsleep, FallingAsleep
<1> QED
  BY <1>1, <1>2, <1>6 DEF Running

\* The worker resumes a coroutine from its queue.
LEMMA TakeCoStep == ASSUME CoInv, NEW w \in Workers, TakeCo(w) PROVE CoInv'
<1>c. PICK c0 : c0 = Head(tasks[w])
  OBVIOUS
<1>1. CoTyped /\ Running /\ OneToken /\ HeldIffAsleep /\ WokenAtHome /\ Spares /\ ReadyParked
  BY DEF CoInv
<1>2. /\ pc[w] = "take" /\ tasks[w] # <<>> /\ c0 \in Cos
      /\ state' = [state EXCEPT ![c0] = "RUNNING"] /\ cur' = [cur EXCEPT ![w] = c0]
      /\ tasks' = [tasks EXCEPT ![w] = Tail(@)] /\ pc' = [pc EXCEPT ![w] = "run"]
      /\ UNCHANGED <<ready, parked, coFunc, fn, timers, due, eventfd>>
  BY <1>c DEF TakeCo, timerVars
<1>3. /\ tasks' \in [Workers -> Seq(Cos \cup Func)] /\ At(c0, "task", w)
      /\ \A e \in Tokens, v \in Workers :
           /\ Occurs(tasks'[v], e) <=> Occurs(tasks[v], e) /\ ~(v = w /\ e = c0)
           /\ AtMostOnce(tasks'[v], e)
  BY <1>c, <1>1, <1>2, Popped, TokenFacts
<1>4. c0 \in Tokens /\ Owner(c0) = c0 /\ c0 # None
  BY <1>2, TokenFacts
<1>5. state[c0] = "SUSPEND" /\ \A v \in Workers : cur[v] # c0
  BY <1>c, <1>2, HeadSuspended
<1>a. /\ Running'
      /\ pc' \in [Workers -> Labels] /\ cur' \in [Workers -> Cos \cup {None}] /\ state' \in [Cos -> States]
      /\ cur[w] = None /\ \A v \in Workers : cur'[v] = IF v = w THEN c0 ELSE cur[v]
      /\ \A c \in Cos : state'[c] = IF c = c0 THEN "RUNNING" ELSE state[c]
      /\ \A c \in Cos \ {c0} : Asleep(c)' <=> Asleep(c)
      /\ ~Asleep(c0)'
      /\ \A v \in Workers : (pc'[v] = "armed" <=> pc[v] = "armed") /\ (pc[v] = "armed" => cur'[v] = cur[v])
  BY <1>1, <1>2, <1>5, SwitchIn
<1>6. CoTyped'
  BY <1>1, <1>2, <1>3, <1>a DEF CoTyped
<1>8. Spares'
  <2>1. \A v \in Workers : coFunc[v] \in Cos \cup {None} /\ coFunc' = coFunc
    BY <1>1, <1>2 DEF CoTyped
  <2> QED
    BY <1>1, <1>5, <1>a, <2>1 DEF Spares
<1>9. ReadyParked'
  BY <1>1, <1>2 DEF ReadyParked
<1>10. \A e \in Tokens, k \in Kinds, x \in Sites :
         At(e, k, x)' <=> At(e, k, x) /\ ~(e = c0 /\ k = "task" /\ x = w)
  BY <1>2, <1>3 DEF At
<1>13. ASSUME NEW c \in Cos PROVE GoodMove(c)
  <2>1. CASE c = c0
    <3>1. Gone(c)
      <4> SUFFICES ASSUME NEW e \in Tokens, NEW k \in Kinds, NEW x \in Sites, Owner(e) = c, At(e, k, x)'
                   PROVE  FALSE
        BY DEF Gone
      <4>1. At(e, k, x) /\ ~(e = c0 /\ k = "task" /\ x = w)
        BY <1>10
      <4>2. "task" \in Kinds /\ w \in Sites
        BY DEF Kinds, Sites
      <4> QED
        BY <1>1, <1>3, <1>4, <2>1, <4>1, <4>2 DEF OneToken
    <3> QED
      BY <1>a, <2>1, <3>1 DEF GoodMove
  <2>2. CASE c # c0
    <3>1. Same(c)
      BY <1>4, <1>10, <2>2 DEF Same
    <3> QED
      BY <1>a, <2>2, <3>1 DEF GoodMove
  <2> QED
    BY <2>1, <2>2
<1>14. \A e \in Tokens : AtMostOnce(timers', e) /\ \A v \in Workers : AtMostOnce(tasks'[v], e)
  BY <1>1, <1>2, <1>3 DEF OneToken
<1> QED
  BY <1>6, <1>a, <1>8, <1>9, <1>13, <1>14, Moved

\* The running function returns or throws, and nothing holds its coroutine.
LEMMA FinishStep == ASSUME CoInv, NEW w \in Workers, Finish(w) PROVE CoInv'
<1>1. CoTyped /\ Running /\ OneToken /\ HeldIffAsleep /\ WokenAtHome /\ Spares /\ ReadyParked
  BY DEF CoInv
<1>c. PICK c0 : c0 = cur[w]
  OBVIOUS
<1>2. PICK s :
         /\ s \in {"DONE", "EXCEPT"} /\ state' = [state EXCEPT ![c0] = s]
         /\ fn' = IF s = "DONE" THEN [fn EXCEPT ![c0] = None] ELSE fn
  BY <1>c DEF Finish
<1>3. /\ pc[w] = "run" /\ fn[c0] \in Funcs \cup {None}
      /\ pc' = [pc EXCEPT ![w] = "take"] /\ cur' = [cur EXCEPT ![w] = None]
      /\ UNCHANGED <<ready, parked, coFunc, tasks, timers, due, eventfd>>
  BY <1>c DEF Finish, timerVars
<1>4. c0 \in Cos /\ state[c0] = "RUNNING" /\ ~Held(c0) /\ ~Asleep(c0) /\ \A v \in Workers : cur[v] = c0 => v = w
  BY <1>c, <1>3, RunningFacts
<1>5. /\ fn' \in [Cos -> Func \cup {None}] /\ \A c \in Cos : c # c0 => fn'[c] = fn[c]
      /\ fn'[c0] \in Funcs \cup {None}
  BY <1>1, <1>2, <1>3, <1>4 DEF CoTyped
<1>6. fn'[c0] \notin Wakes /\ fn[c0] \notin Wakes
  BY <1>3, <1>5, TokenFacts
<1>b. /\ state' \in [Cos -> States] /\ state'[c0] \in {"DONE", "EXCEPT"}
      /\ \A c \in Cos : c # c0 => state'[c] = state[c]
  BY <1>1, <1>2, <1>4 DEF CoTyped, States
<1>d. SwitchesOut(w, c0)
  BY <1>c, <1>3, <1>5, <1>6, <1>b DEF SwitchesOut
<1>a. /\ Running'
      /\ pc' \in [Workers -> Labels] /\ cur' \in [Workers -> Cos \cup {None}]
      /\ \A v \in Workers : cur'[v] = IF v = w THEN None ELSE cur[v]
      /\ \A c \in Cos \ {c0} : Asleep(c)' <=> Asleep(c)
      /\ Asleep(c0)' <=> state'[c0] = "SUSPEND"
      /\ \A v \in Workers : pc'[v] = "armed" => v # w /\ pc[v] = "armed" /\ cur'[v] = cur[v] /\ cur[v] # c0
  BY <1>1, <1>d, SwitchOut
<1>7. CoTyped'
  BY <1>1, <1>3, <1>5, <1>a, <1>b DEF CoTyped
<1>8. Spares'
  <2>1. \A v \in Workers : coFunc[v] \in Cos \cup {None} /\ coFunc' = coFunc
    BY <1>1, <1>3 DEF CoTyped
  <2> QED
    BY <1>1, <1>c, <1>4, <1>a, <1>b, <2>1 DEF Spares
<1>9. ReadyParked'
  BY <1>1, <1>3 DEF ReadyParked
<1>10. \A e \in Tokens, k \in Kinds, x \in Sites : At(e, k, x)' <=> At(e, k, x)
  BY <1>3, <1>5, <1>6 DEF At
<1>11. ASSUME NEW c \in Cos PROVE GoodMove(c)
  <2>1. Same(c)
    BY <1>10 DEF Same
  <2>2. Asleep(c)' <=> Asleep(c)
    BY <1>4, <1>a, <1>b
  <2> QED
    BY <2>1, <2>2, <1>a DEF GoodMove
<1>12. \A e \in Tokens : AtMostOnce(timers', e) /\ \A v \in Workers : AtMostOnce(tasks'[v], e)
  BY <1>1, <1>3 DEF OneToken
<1> QED
  BY <1>7, <1>a, <1>8, <1>9, <1>11, <1>12, Moved

\* The two ways to yield have this in common.
LEMMA SuspendFacts ==
  ASSUME CoInv, NEW w \in Workers, NEW c0, c0 = cur[w], pc[w] \in {"run", "armed"},
         fn[c0] \in Funcs, Suspend(w)
  PROVE  /\ Running' /\ Spares' /\ c0 \in Cos /\ UNCHANGED fn
         /\ pc' \in [Workers -> Labels] /\ cur' \in [Workers -> Cos \cup {None}] /\ state' \in [Cos -> States]
         /\ coFunc' \in [Workers -> Cos \cup {None}]
         /\ \A c \in Cos \ {c0} : Asleep(c)' <=> Asleep(c)
         /\ Asleep(c0)'
         /\ \A v \in Workers : pc'[v] = "armed" => v # w /\ pc[v] = "armed" /\ cur'[v] = cur[v] /\ cur[v] # c0
<1>1. CoTyped /\ Running /\ Spares
  BY DEF CoInv
<1>2. /\ state' = [state EXCEPT ![c0] = "SUSPEND"] /\ coFunc' = [coFunc EXCEPT ![w] = SpareAfterYield(w)]
      /\ cur' = [cur EXCEPT ![w] = None] /\ pc' = [pc EXCEPT ![w] = "take"] /\ fn' = fn
  BY DEF Suspend
<1>3. fn'[c0] \notin Wakes
  BY <1>2, TokenFacts
<1>0. c0 \in Cos
  BY <1>1 DEF CoTyped, Running
<1>b. /\ state' \in [Cos -> States] /\ state'[c0] = "SUSPEND"
      /\ \A c \in Cos : c # c0 => state'[c] = state[c]
  BY <1>0, <1>1, <1>2 DEF CoTyped, States
<1>d. SwitchesOut(w, c0)
  BY <1>2, <1>3, <1>b DEF SwitchesOut
<1>a. /\ Running'
      /\ pc' \in [Workers -> Labels] /\ cur' \in [Workers -> Cos \cup {None}]
      /\ \A v \in Workers : cur'[v] = IF v = w THEN None ELSE cur[v]
      /\ \A c \in Cos \ {c0} : Asleep(c)' <=> Asleep(c)
      /\ Asleep(c0)' <=> state'[c0] = "SUSPEND"
      /\ \A v \in Workers : pc'[v] = "armed" => v # w /\ pc[v] = "armed" /\ cur'[v] = cur[v] /\ cur[v] # c0
  BY <1>1, <1>d, SwitchOut
<1>4. \A v \in Workers : coFunc'[v] = IF v = w /\ coFunc[v] = c0 THEN None ELSE coFunc[v]
  BY <1>1, <1>2 DEF SpareAfterYield, CoTyped
<1>5. coFunc' \in [Workers -> Cos \cup {None}]
  BY <1>1, <1>2 DEF SpareAfterYield, CoTyped
<1>6. state[c0] = "RUNNING" /\ \A v \in Workers : cur[v] = c0 => v = w
  BY <1>0, <1>1, TokenFacts DEF Running
<1>7. \A v \in Workers : coFunc[v] \in Cos \cup {None} /\ cur[v] \in Cos \cup {None}
  BY <1>1 DEF CoTyped
<1>8. Spares'
  BY <1>0, <1>1, <1>a, <1>b, <1>4, <1>6, <1>7 DEF Spares
<1> QED
  BY <1>0, <1>2, <1>a, <1>b, <1>5, <1>8

\* A sleeper yields after it has armed its timer.
LEMMA SleepYieldStep == ASSUME CoInv, NEW w \in Workers, SleepYield(w) PROVE CoInv'
<1>1. CoTyped /\ Running /\ OneToken /\ HeldIffAsleep /\ WokenAtHome /\ Spares /\ ReadyParked
  BY DEF CoInv
<1>c. PICK c0 : c0 = cur[w]
  OBVIOUS
<1>2. pc[w] = "armed" /\ Suspend(w) /\ UNCHANGED <<ready, parked, tasks, timers, due, eventfd>>
  BY DEF SleepYield, timerVars
<1>3. fn[c0] \in Funcs
  BY <1>1, <1>2, <1>c DEF Running
<1>a. /\ Running' /\ Spares' /\ c0 \in Cos /\ UNCHANGED fn
      /\ pc' \in [Workers -> Labels] /\ cur' \in [Workers -> Cos \cup {None}] /\ state' \in [Cos -> States]
      /\ coFunc' \in [Workers -> Cos \cup {None}]
      /\ \A c \in Cos \ {c0} : Asleep(c)' <=> Asleep(c)
      /\ Asleep(c0)'
      /\ \A v \in Workers : pc'[v] = "armed" => v # w /\ pc[v] = "armed" /\ cur'[v] = cur[v] /\ cur[v] # c0
  BY <1>c, <1>2, <1>3, SuspendFacts
<1>4. CoTyped'
  BY <1>1, <1>2, <1>a DEF CoTyped
<1>5. ReadyParked'
  BY <1>1, <1>2 DEF ReadyParked
<1>6. \A e \in Tokens, k \in Kinds, x \in Sites : At(e, k, x)' <=> At(e, k, x)
  BY <1>2, <1>a DEF At
<1>7. Asleep(c0)
  BY <1>c, <1>2 DEF Asleep, FallingAsleep
<1>8. ASSUME NEW c \in Cos PROVE GoodMove(c)
  <2>1. Same(c)
    BY <1>6 DEF Same
  <2>2. Asleep(c)' <=> Asleep(c)
    BY <1>7, <1>a
  <2> QED
    BY <2>1, <2>2, <1>a DEF GoodMove
<1>9. \A e \in Tokens : AtMostOnce(timers', e) /\ \A v \in Workers : AtMostOnce(tasks'[v], e)
  BY <1>1, <1>2 DEF OneToken
<1> QED
  BY <1>a, <1>4, <1>5, <1>8, <1>9, Moved

\* A coroutine registers with the poller and yields.
LEMMA ParkIOStep == ASSUME CoInv, NEW w \in Workers, ParkIO(w) PROVE CoInv'
<1>1. CoTyped /\ Running /\ OneToken /\ HeldIffAsleep /\ WokenAtHome /\ Spares /\ ReadyParked
  BY DEF CoInv
<1>c. PICK c0 : c0 = cur[w]
  OBVIOUS
<1>2. /\ pc[w] = "run" /\ fn[c0] \in Funcs /\ Suspend(w)
      /\ parked' = [parked EXCEPT ![w] = @ \cup {c0}]
      /\ UNCHANGED <<ready, tasks, timers, due, eventfd>>
  BY <1>c DEF ParkIO, CanYield, timerVars
<1>a. /\ Running' /\ Spares' /\ c0 \in Cos /\ UNCHANGED fn
      /\ pc' \in [Workers -> Labels] /\ cur' \in [Workers -> Cos \cup {None}] /\ state' \in [Cos -> States]
      /\ coFunc' \in [Workers -> Cos \cup {None}]
      /\ \A c \in Cos \ {c0} : Asleep(c)' <=> Asleep(c)
      /\ Asleep(c0)'
      /\ \A v \in Workers : pc'[v] = "armed" => v # w /\ pc[v] = "armed" /\ cur'[v] = cur[v] /\ cur[v] # c0
  BY <1>c, <1>2, SuspendFacts
<1>3. ~Held(c0)
  BY <1>c, <1>2, RunningFacts
<1>4. /\ parked' \in [Workers -> SUBSET Cos]
      /\ \A v \in Workers : parked'[v] = IF v = w THEN parked[v] \cup {c0} ELSE parked[v]
  BY <1>1, <1>2, <1>a DEF CoTyped
<1>5. CoTyped'
  BY <1>1, <1>2, <1>4, <1>a DEF CoTyped
<1>6. ReadyParked'
  BY <1>1, <1>2, <1>4 DEF ReadyParked
<1>7. \A e \in Tokens, k \in Kinds, x \in Sites :
        At(e, k, x)' <=> At(e, k, x) \/ (e = c0 /\ k = "io" /\ x = w)
  BY <1>2, <1>4, <1>a DEF At
<1>8. c0 \in Tokens /\ Owner(c0) = c0 /\ "io" \in Kinds /\ w \in Sites
  BY <1>a, TokenFacts DEF Kinds, Sites
<1>9. ASSUME NEW c \in Cos PROVE GoodMove(c)
  <2>1. CASE c = c0
    <3>1. Now(c, c0, "io", w)
      BY <1>3, <1>7, <1>8, <2>1 DEF Now, Held
    <3> QED
      BY <3>1, <1>8, <1>a, <2>1 DEF GoodMove
  <2>2. CASE c # c0
    <3>1. Same(c)
      BY <1>7, <1>8, <2>2 DEF Same
    <3> QED
      BY <3>1, <1>a, <2>2 DEF GoodMove
  <2> QED
    BY <2>1, <2>2
<1>10. \A e \in Tokens : AtMostOnce(timers', e) /\ \A v \in Workers : AtMostOnce(tasks'[v], e)
  BY <1>1, <1>2 DEF OneToken
<1> QED
  BY <1>a, <1>5, <1>6, <1>9, <1>10, Moved

\* sleep() adds the timer whose function will queue the sleeper again.
LEMMA SleepArmStep == ASSUME CoInv, NEW w \in Workers, SleepArm(w) PROVE CoInv'
<1>1. CoTyped /\ Running /\ OneToken /\ HeldIffAsleep /\ WokenAtHome /\ Spares /\ ReadyParked
  BY DEF CoInv
<1>c. PICK c0 : c0 = cur[w]
  OBVIOUS
<1>2. /\ pc[w] = "run" /\ fn[c0] \in Funcs /\ pc' = [pc EXCEPT ![w] = "armed"]
      /\ UNCHANGED <<ready, tasks, eventfd, parked, cur, coFunc, state, fn>>
  BY <1>c DEF SleepArm, CanYield, coVars
<1>3. c0 \in Cos /\ state[c0] = "RUNNING" /\ ~Held(c0) /\ ~Asleep(c0) /\ \A v \in Workers : cur[v] = c0 => v = w
  BY <1>c, <1>2, RunningFacts
<1>d. PICK f : f = [co |-> c0, home |-> w]
  OBVIOUS
<1>4. f \in Wakes /\ f \in Tokens /\ Owner(f) = c0 /\ f.home = w /\ f \notin Cos
  BY <1>3, <1>d, TokenFacts DEF Wakes
<1>5. PICK i \in 1 .. Len(timers) + 1 :
         timers' = InsertAt(timers, i, f) /\ due' = IF i <= due THEN due + 1 ELSE due
  BY <1>c, <1>d DEF SleepArm
<1>6. timers \in Seq(Wakes) /\ due \in 0 .. Len(timers) /\ Len(timers) \in Nat
  BY <1>1 DEF CoTyped
<1>7. \A e : /\ timers' \in Seq(Wakes) /\ Len(timers') = Len(timers) + 1
             /\ Occurs(timers', e) <=> Occurs(timers, e) \/ f = e
             /\ AtMostOnce(timers, e) /\ (f = e => ~Occurs(timers, e)) => AtMostOnce(timers', e)
  BY <1>4, <1>5, <1>6, OccursInsertAt
<1>8. due' \in 0 .. Len(timers')
  BY <1>5, <1>6, <1>7
<1>9. \A v \in Workers : pc'[v] = IF v = w THEN "armed" ELSE pc[v]
  BY <1>1, <1>2 DEF CoTyped
<1>10. CoTyped'
  <2>1. pc' \in [Workers -> Labels]
    BY <1>1, <1>2 DEF CoTyped, Labels
  <2> QED
    BY <1>1, <1>2, <1>7, <1>8, <2>1 DEF CoTyped
<1>11. Running'
  BY <1>1, <1>c, <1>2, <1>9 DEF Running
<1>12. Spares' /\ ReadyParked'
  BY <1>1, <1>2 DEF Spares, ReadyParked
<1>13. \A e \in Tokens, k \in Kinds, x \in Sites :
         At(e, k, x)' <=> At(e, k, x) \/ (e = f /\ k = "timer" /\ x = None)
  BY <1>2, <1>7 DEF At
<1>14. "timer" \in Kinds /\ None \in Sites
  BY DEF Kinds, Sites
<1>15. ASSUME NEW c \in Cos PROVE GoodMove(c)
  <2>1. CASE c = c0
    <3>1. Now(c, f, "timer", None)
      BY <1>3, <1>4, <1>13, <1>14, <2>1 DEF Now, Held
    <3>2. Asleep(c)'
      BY <1>c, <1>2, <1>9, <2>1 DEF Asleep, FallingAsleep
    <3>3. \A v \in Workers : pc'[v] = "armed" /\ cur'[v] = c => v = w
      BY <1>2, <1>3, <2>1
    <3> QED
      BY <3>1, <3>2, <3>3, <1>4, <1>14, <2>1 DEF GoodMove
  <2>2. CASE c # c0
    <3>1. Same(c)
      BY <1>4, <1>13, <2>2 DEF Same
    <3>2. Asleep(c)' <=> Asleep(c)
      BY <1>c, <1>2, <1>9, <2>2 DEF Asleep, FallingAsleep
    <3> QED
      BY <3>1, <3>2, <1>c, <1>2, <1>9, <2>2 DEF GoodMove
  <2> QED
    BY <2>1, <2>2
<1>16. \A e \in Tokens : AtMostOnce(timers', e) /\ \A v \in Workers : AtMostOnce(tasks'[v], e)
  <2>1. ~Occurs(timers, f)
    BY <1>3, <1>4, <1>14 DEF Held, At
  <2> QED
    BY <1>1, <1>2, <1>7, <2>1 DEF OneToken
<1> QED
  BY <1>10, <1>11, <1>12, <1>15, <1>16, Moved

\* A wake-up function queues its sleeper on the sleeper's own worker.
LEMMA RunWakeStep == ASSUME CoInv, NEW w \in Workers, RunWake(w) PROVE CoInv'
<1>1. CoTyped /\ Running /\ OneToken /\ HeldIffAsleep /\ WokenAtHome /\ Spares /\ ReadyParked
  BY DEF CoInv
<1>c. PICK c0 : c0 = cur[w]
  OBVIOUS
<1>d. PICK f : f = fn[c0]
  OBVIOUS
<1>2. /\ pc[w] = "run" /\ f \in Wakes
      /\ tasks' = [tasks EXCEPT ![f.home] = Append(@, f.co)] /\ fn' = [fn EXCEPT ![c0] = None]
      /\ UNCHANGED <<pc, ready, eventfd, parked, cur, coFunc, state, timers, due>>
  BY <1>c, <1>d DEF RunWake, AddTask, PushBack, workerVars, timerVars
<1>3. c0 \in Cos /\ state[c0] = "RUNNING" /\ ~Held(c0) /\ ~Asleep(c0) /\ \A v \in Workers : cur[v] = c0 => v = w
  BY <1>c, <1>2, RunningFacts
<1>e. PICK c2, h : c2 = f.co /\ h = f.home
  OBVIOUS
<1>4. f \in Tokens /\ Owner(f) = c2 /\ c2 \in Cos /\ h \in Workers /\ f \notin Cos
  BY <1>2, <1>e, TokenFacts
<1>5. c2 \in Tokens /\ Owner(c2) = c2 /\ c2 \notin Wakes /\ c2 \in Cos \cup Func
  BY <1>4, TokenFacts
<1>6. "body" \in Kinds /\ "task" \in Kinds /\ h \in Sites /\ c0 \in Sites
  BY <1>3, <1>4 DEF Kinds, Sites
<1>7. At(f, "body", c0)
  BY <1>2, <1>3, <1>d DEF At
<1>8. \A e \in Tokens, k \in Kinds, x \in Sites :
        Owner(e) = c2 /\ At(e, k, x) => e = f /\ k = "body" /\ x = c0
  BY <1>1, <1>4, <1>6, <1>7 DEF OneToken
<1>9. \A v \in Workers : ~Occurs(tasks[v], c2)
  <2> SUFFICES ASSUME NEW v \in Workers, Occurs(tasks[v], c2) PROVE FALSE
    OBVIOUS
  <2>1. At(c2, "task", v) /\ v \in Sites
    BY DEF At, Sites
  <2> QED
    BY <1>5, <1>6, <1>8, <2>1
<1>10. /\ tasks' \in [Workers -> Seq(Cos \cup Func)]
       /\ \A e \in Tokens, v \in Workers :
            /\ Occurs(tasks'[v], e) <=> Occurs(tasks[v], e) \/ (v = h /\ e = c2)
            /\ AtMostOnce(tasks'[v], e)
  <2>1. tasks[h] \in Seq(Cos \cup Func)
    BY <1>1, <1>4 DEF CoTyped
  <2>2. tasks' \in [Workers -> Seq(Cos \cup Func)]
    BY <1>1, <1>2, <1>e, <1>4, <1>5, <2>1, AppendProperties DEF CoTyped
  <2>3. \A v \in Workers : tasks'[v] = IF v = h THEN Append(tasks[h], c2) ELSE tasks[v]
    BY <1>1, <1>2, <1>e, <1>4 DEF CoTyped
  <2>4. \A e \in Tokens, v \in Workers : AtMostOnce(tasks[v], e)
    BY <1>1 DEF OneToken
  <2>5. \A e : /\ Occurs(Append(tasks[h], c2), e) <=> Occurs(tasks[h], e) \/ c2 = e
               /\ AtMostOnce(tasks[h], e) /\ (c2 = e => ~Occurs(tasks[h], e)) => AtMostOnce(Append(tasks[h], c2), e)
    BY <1>5, <2>1, OccursAppend
  <2> QED
    BY <1>4, <1>9, <2>2, <2>3, <2>4, <2>5
<1>11. /\ fn' \in [Cos -> Func \cup {None}]
       /\ \A c \in Cos : fn'[c] = IF c = c0 THEN None ELSE fn[c]
  BY <1>1, <1>2, <1>3 DEF CoTyped
<1>12. None \notin Wakes /\ f \notin Funcs
  BY <1>2, TokenFacts
<1>13. CoTyped'
  BY <1>1, <1>2, <1>10, <1>11 DEF CoTyped
<1>14. Running'
  <2>1. \A v \in Workers : pc[v] = "armed" => cur[v] \in Cos /\ cur[v] # c0
    BY <1>1, <1>2, <1>3 DEF Running, CoTyped
  <2> QED
    BY <1>1, <1>2, <1>11, <1>12, <2>1 DEF Running
<1>15. Spares' /\ ReadyParked'
  BY <1>1, <1>2 DEF Spares, ReadyParked
<1>16. \A e \in Tokens, k \in Kinds, x \in Sites :
         At(e, k, x)' <=> \/ At(e, k, x) /\ ~(e = f /\ k = "body" /\ x = c0)
                          \/ e = c2 /\ k = "task" /\ x = h
  <2> SUFFICES ASSUME NEW e \in Tokens, NEW k \in Kinds, NEW x \in Sites
               PROVE  At(e, k, x)' <=> \/ At(e, k, x) /\ ~(e = f /\ k = "body" /\ x = c0)
                                       \/ e = c2 /\ k = "task" /\ x = h
    OBVIOUS
  <2>1. CASE k = "body"
    BY <1>d, <1>11, <1>12, <2>1 DEF At
  <2>2. CASE k = "task"
    BY <1>4, <1>10, <2>2 DEF At
  <2>3. CASE k \in {"io", "timer"}
    BY <1>2, <2>3 DEF At
  <2> QED
    BY <2>1, <2>2, <2>3 DEF Kinds
<1>17. \A c \in Cos : Asleep(c)' <=> Asleep(c)
  BY <1>2 DEF Asleep, FallingAsleep
<1>18. Asleep(c2)
  BY <1>1, <1>4, <1>6, <1>7 DEF HeldIffAsleep, Held, Asleep
<1>19. ASSUME NEW c \in Cos PROVE GoodMove(c)
  <2>1. CASE c = c2
    <3>1. Now(c, c2, "task", h)
      BY <1>5, <1>8, <1>16, <2>1 DEF Now
    <3>2. ASSUME NEW v \in Workers, pc'[v] = "armed" /\ cur'[v] = c PROVE h = v
      BY <1>1, <1>2, <1>e, <1>4, <1>6, <1>7, <2>1, <3>2 DEF WokenAtHome
    <3> QED
      BY <3>1, <3>2, <1>4, <1>5, <1>6, <1>17, <1>18, <2>1 DEF GoodMove
  <2>2. CASE c # c2
    <3>1. Same(c)
      BY <1>4, <1>5, <1>16, <2>2 DEF Same
    <3> QED
      BY <3>1, <1>2, <1>17 DEF GoodMove
  <2> QED
    BY <2>1, <2>2
<1>20. \A e \in Tokens : AtMostOnce(timers', e) /\ \A v \in Workers : AtMostOnce(tasks'[v], e)
  BY <1>1, <1>2, <1>10 DEF OneToken
<1> QED
  BY <1>13, <1>14, <1>15, <1>19, <1>20, Moved

\* p is where token e is in place <<k, x>>, as an element of Wakers.
Locates(p, e, k, x) ==
  \/ k = "io" /\ p = <<"io", x>>
  \/ k = "timer" /\ \E i \in DOMAIN timers : timers[i] = e /\ p = <<"timer", i>>
  \/ k = "task" /\ \E i \in DOMAIN tasks[x] : tasks[x][i] = e /\ p = <<"task", x, i>>
  \/ k = "body" /\ p = <<"body", x>>

InIO(c) == {<<"io", v>> : v \in {v \in Workers : c \in parked[v]}}
InTimers(c) == {<<"timer", i>> : i \in {i \in DOMAIN timers : timers[i].co = c}}
InTasks(c) ==
  UNION {{<<"task", v, i>> : i \in {i \in DOMAIN tasks[v] :
                   \/ tasks[v][i] = c
                   \/ tasks[v][i] \in Wakes /\ tasks[v][i].co = c}} : v \in Workers}
InBodies(c) ==
  {<<"body", d>> : d \in {d \in Cos : state[d] = "RUNNING" /\ fn[d] \in Wakes /\ fn[d].co = c}}

\* A waker is in one of four kinds of places.
LEMMA WakerParts ==
  ASSUME NEW c, NEW p
  PROVE  p \in Wakers(c) <=> p \in InIO(c) \/ p \in InTimers(c) \/ p \in InTasks(c) \/ p \in InBodies(c)
<1>1. Wakers(c) = InIO(c) \cup InTimers(c) \cup InTasks(c) \cup InBodies(c)
  BY Zenon DEF Wakers, InIO, InTimers, InTasks, InBodies
<1> QED
  BY <1>1

\* Every waker that OneWaker counts is a token of the invariant.
LEMMA WakerIsToken ==
  ASSUME CoTyped, NEW c \in Cos, NEW p \in Wakers(c)
  PROVE  \E e \in Tokens, k \in Kinds, x \in Sites : Owner(e) = c /\ At(e, k, x) /\ Locates(p, e, k, x)
<1>1. CASE \E v \in Workers : c \in parked[v] /\ p = <<"io", v>>
  <2>1. PICK v \in Workers : c \in parked[v] /\ p = <<"io", v>>
    BY <1>1
  <2>2. At(c, "io", v) /\ Locates(p, c, "io", v) /\ "io" \in Kinds /\ v \in Sites
    BY <2>1 DEF At, Locates, Kinds, Sites
  <2> QED
    BY <2>2, TokenFacts
<1>2. CASE \E i \in DOMAIN timers : timers[i].co = c /\ p = <<"timer", i>>
  <2>1. PICK i \in DOMAIN timers : timers[i].co = c /\ p = <<"timer", i>>
    BY <1>2
  <2>2. PICK e : e = timers[i]
    OBVIOUS
  <2>3. e \in Wakes /\ Occurs(timers, e)
    BY <2>2, ElementOfSeq DEF CoTyped, Occurs
  <2>4. At(e, "timer", None) /\ Locates(p, e, "timer", None) /\ "timer" \in Kinds /\ None \in Sites
    BY <2>1, <2>2, <2>3 DEF At, Locates, Kinds, Sites
  <2> QED
    BY <2>1, <2>2, <2>3, <2>4, TokenFacts
<1>3. CASE \E v \in Workers : \E i \in DOMAIN tasks[v] :
             /\ tasks[v][i] = c \/ (tasks[v][i] \in Wakes /\ tasks[v][i].co = c)
             /\ p = <<"task", v, i>>
  <2>1. PICK v \in Workers : \E i \in DOMAIN tasks[v] :
             /\ tasks[v][i] = c \/ (tasks[v][i] \in Wakes /\ tasks[v][i].co = c)
             /\ p = <<"task", v, i>>
    BY <1>3
  <2>2. PICK i \in DOMAIN tasks[v] : /\ tasks[v][i] = c \/ (tasks[v][i] \in Wakes /\ tasks[v][i].co = c)
                                     /\ p = <<"task", v, i>>
    BY <2>1
  <2>3. PICK e : e = tasks[v][i]
    OBVIOUS
  <2>4. e \in Tokens /\ Owner(e) = c
    BY <2>2, <2>3, TokenFacts
  <2>5. Occurs(tasks[v], e)
    BY <2>3 DEF Occurs
  <2>6. At(e, "task", v) /\ Locates(p, e, "task", v) /\ "task" \in Kinds /\ v \in Sites
    BY <2>2, <2>3, <2>5 DEF At, Locates, Kinds, Sites
  <2> QED
    BY <2>4, <2>6
<1>4. CASE \E d \in Cos : fn[d] \in Wakes /\ fn[d].co = c /\ p = <<"body", d>>
  <2>1. PICK d \in Cos : fn[d] \in Wakes /\ fn[d].co = c /\ p = <<"body", d>>
    BY <1>4
  <2>2. PICK e : e = fn[d]
    OBVIOUS
  <2>3. At(e, "body", d) /\ Locates(p, e, "body", d) /\ "body" \in Kinds /\ d \in Sites
    BY <2>1, <2>2 DEF At, Locates, Kinds, Sites
  <2> QED
    BY <2>1, <2>2, <2>3, TokenFacts
<1>5. p \in InIO(c) \/ p \in InTimers(c) \/ p \in InTasks(c) \/ p \in InBodies(c)
  BY WakerParts
<1>6. \/ \E v \in Workers : c \in parked[v] /\ p = <<"io", v>>
      \/ \E i \in DOMAIN timers : timers[i].co = c /\ p = <<"timer", i>>
      \/ \E v \in Workers : \E i \in DOMAIN tasks[v] :
             /\ tasks[v][i] = c \/ (tasks[v][i] \in Wakes /\ tasks[v][i].co = c)
             /\ p = <<"task", v, i>>
      \/ \E d \in Cos : fn[d] \in Wakes /\ fn[d].co = c /\ p = <<"body", d>>
  <2>1. CASE p \in InIO(c)
    BY <2>1 DEF InIO
  <2>2. CASE p \in InTimers(c)
    BY <2>2 DEF InTimers
  <2>3. CASE p \in InTasks(c)
    BY <2>3 DEF InTasks
  <2>4. CASE p \in InBodies(c)
    BY <2>4 DEF InBodies
  <2> QED
    BY <1>5, <2>1, <2>2, <2>3, <2>4
<1> QED
  BY <1>1, <1>2, <1>3, <1>4, <1>6

\* A coroutine is held in the model's sense when it has a token.
LEMMA HeldMeansWaker ==
  ASSUME CoTyped, Running, NEW c \in Cos
  PROVE  Wakers(c) = {} <=> ~Held(c)
<1>1. ASSUME Wakers(c) # {} PROVE Held(c)
  <2>1. PICK p : p \in Wakers(c)
    BY <1>1
  <2> QED
    BY <2>1, WakerIsToken DEF Held
<1>2. ASSUME Held(c) PROVE \E p : p \in Wakers(c)
  <2>1. PICK e \in Tokens, k \in Kinds, x \in Sites : Owner(e) = c /\ At(e, k, x)
    BY <1>2 DEF Held
  <2>2. CASE k = "io"
    <3>1. x \in Workers /\ e \in parked[x] /\ e \in Cos /\ e = c
      BY <2>1, <2>2, TokenFacts DEF At, CoTyped
    <3>2. <<"io", x>> \in Wakers(c)
      BY <3>1, WakerParts DEF InIO
    <3> QED
      BY <3>2
  <2>3. CASE k = "timer"
    <3>1. PICK i \in DOMAIN timers : timers[i] = e
      BY <2>1, <2>3 DEF At, Occurs
    <3>2. e \in Wakes
      BY <3>1, ElementOfSeq DEF CoTyped
    <3>3. timers[i].co = c
      BY <2>1, <3>1, <3>2, TokenFacts
    <3>4. <<"timer", i>> \in Wakers(c)
      BY <3>3, WakerParts DEF InTimers
    <3> QED
      BY <3>4
  <2>4. CASE k = "task"
    <3>1. x \in Workers /\ Occurs(tasks[x], e)
      BY <2>1, <2>4 DEF At
    <3>2. PICK i \in DOMAIN tasks[x] : tasks[x][i] = e
      BY <3>1 DEF Occurs
    <3>3. tasks[x][i] = c \/ (tasks[x][i] \in Wakes /\ tasks[x][i].co = c)
      BY <2>1, <3>2, TokenFacts DEF Tokens
    <3>4. <<"task", x, i>> \in Wakers(c)
      BY <3>1, <3>3, WakerParts DEF InTasks
    <3> QED
      BY <3>4
  <2>5. CASE k = "body"
    <3>1. x \in Cos /\ fn[x] = e /\ e \in Wakes
      BY <2>1, <2>5 DEF At
    <3>2. state[x] = "RUNNING" /\ fn[x].co = c
      BY <2>1, <3>1, TokenFacts DEF Running
    <3>3. <<"body", x>> \in Wakers(c)
      BY <3>1, <3>2, WakerParts DEF InBodies
    <3> QED
      BY <3>3
  <2> QED
    BY <2>2, <2>3, <2>4, <2>5 DEF Kinds
<1> QED
  BY <1>1, <1>2

\* The tokens of a coroutine are in one place only.
LEMMA WakerUnique ==
  ASSUME CoTyped, OneToken, NEW c \in Cos, NEW p \in Wakers(c), NEW q \in Wakers(c)
  PROVE  p = q
<1>1. PICK e \in Tokens, k \in Kinds, x \in Sites : Owner(e) = c /\ At(e, k, x) /\ Locates(p, e, k, x)
  BY WakerIsToken
<1>2. PICK f \in Tokens, l \in Kinds, y \in Sites : Owner(f) = c /\ At(f, l, y) /\ Locates(q, f, l, y)
  BY WakerIsToken
<1>3. e = f /\ k = l /\ x = y
  BY <1>1, <1>2 DEF OneToken
<1>4. Locates(p, e, k, x) /\ Locates(q, e, k, x)
  BY <1>1, <1>2, <1>3
<1>5. CASE k \in {"io", "body"}
  BY <1>4, <1>5 DEF Locates
<1>6. CASE k = "timer"
  <2>1. PICK i \in DOMAIN timers : timers[i] = e /\ p = <<"timer", i>>
    BY <1>4, <1>6 DEF Locates
  <2>2. PICK j \in DOMAIN timers : timers[j] = e /\ q = <<"timer", j>>
    BY <1>4, <1>6 DEF Locates
  <2>3. AtMostOnce(timers, e)
    BY DEF OneToken
  <2>4. i = j
    BY <2>1, <2>2, <2>3 DEF AtMostOnce
  <2> QED
    BY <2>1, <2>2, <2>4
<1>7. CASE k = "task"
  <2>1. PICK i \in DOMAIN tasks[x] : tasks[x][i] = e /\ p = <<"task", x, i>>
    BY <1>4, <1>7 DEF Locates
  <2>2. PICK j \in DOMAIN tasks[x] : tasks[x][j] = e /\ q = <<"task", x, j>>
    BY <1>4, <1>7 DEF Locates
  <2>3. AtMostOnce(tasks[x], e)
    BY <1>1, <1>7 DEF OneToken, At
  <2>4. i = j
    BY <2>1, <2>2, <2>3 DEF AtMostOnce
  <2> QED
    BY <2>1, <2>2, <2>4
<1> QED
  BY <1>5, <1>6, <1>7 DEF Kinds

\* The coroutine a function is run in: the spare, or an unreferenced one.
LEMMA FuncCoroutine ==
  ASSUME CoInv, NEW w \in Workers, TakeFunc(w)
  PROVE  \E c1 \in Cos :
           /\ coFunc' = [coFunc EXCEPT ![w] = c1] /\ cur' = [cur EXCEPT ![w] = c1]
           /\ state' = [state EXCEPT ![c1] = "RUNNING"] /\ fn' = [fn EXCEPT ![c1] = Head(tasks[w])]
           /\ ~Held(c1) /\ \A v \in Workers : cur[v] # c1 /\ (coFunc[v] = c1 => v = w)
<1>1. CoTyped /\ Running /\ HeldIffAsleep /\ Spares
  BY DEF CoInv
<1> DEFINE fresh == {c \in Cos : Unreferenced(c)}
           c1 == IF coFunc[w] # None THEN coFunc[w] ELSE CHOOSE d \in fresh : TRUE
<1>2. /\ coFunc[w] = None => fresh # {}
      /\ coFunc' = [coFunc EXCEPT ![w] = c1] /\ cur' = [cur EXCEPT ![w] = c1]
      /\ state' = [state EXCEPT ![c1] = "RUNNING"] /\ fn' = [fn EXCEPT ![c1] = Head(tasks[w])]
      /\ pc[w] = "take"
  BY DEF TakeFunc
<1>3. CASE coFunc[w] # None
  <2>1. c1 = coFunc[w] /\ c1 \in Cos /\ \A v \in Workers : coFunc[v] = c1 => v = w
    BY <1>1, <1>3 DEF CoTyped, Spares
  <2> HIDE DEF c1
  <2>2. cur[w] = None
    BY <1>1, <1>2 DEF Running
  <2>3. state[c1] \in {"DONE", "EXCEPT"}
    BY <1>1, <1>3, <2>1, <2>2 DEF Spares
  <2>4. \A v \in Workers : cur[v] # c1
    BY <1>1, <2>1, <2>3, TokenFacts DEF Running
  <2>5. ~Held(c1)
    BY <1>1, <2>1, <2>3, <2>4 DEF HeldIffAsleep, FallingAsleep
  <2> QED
    BY <1>2, <2>1, <2>4, <2>5
<1>4. CASE coFunc[w] = None
  <2>1. c1 \in fresh
    BY <1>2, <1>4
  <2>2. c1 \in Cos /\ Unreferenced(c1)
    BY <2>1
  <2> HIDE DEF c1
  <2>3. ~Held(c1)
    BY <1>1, <2>2, HeldMeansWaker DEF Unreferenced
  <2> QED
    BY <1>2, <2>2, <2>3 DEF Unreferenced
<1> QED
  BY <1>3, <1>4

\* The worker gives a function to the spare or to a new coroutine.
LEMMA TakeFuncStep == ASSUME CoInv, NEW w \in Workers, TakeFunc(w) PROVE CoInv'
<1>1. CoTyped /\ Running /\ OneToken /\ HeldIffAsleep /\ WokenAtHome /\ Spares /\ ReadyParked
  BY DEF CoInv
<1>c. PICK c1 \in Cos :
           /\ coFunc' = [coFunc EXCEPT ![w] = c1] /\ cur' = [cur EXCEPT ![w] = c1]
           /\ state' = [state EXCEPT ![c1] = "RUNNING"] /\ fn' = [fn EXCEPT ![c1] = Head(tasks[w])]
           /\ ~Held(c1) /\ \A v \in Workers : cur[v] # c1 /\ (coFunc[v] = c1 => v = w)
  BY FuncCoroutine
<1>d. PICK h : h = Head(tasks[w])
  OBVIOUS
<1>2. /\ pc[w] = "take" /\ tasks[w] # <<>> /\ h \in Func
      /\ tasks' = [tasks EXCEPT ![w] = Tail(@)] /\ pc' = [pc EXCEPT ![w] = "run"]
      /\ UNCHANGED <<ready, parked, timers, due, eventfd>>
  BY <1>d DEF TakeFunc, timerVars
<1>3. /\ tasks' \in [Workers -> Seq(Cos \cup Func)] /\ (h \in Tokens => At(h, "task", w))
      /\ \A e \in Tokens, v \in Workers :
           /\ Occurs(tasks'[v], e) <=> Occurs(tasks[v], e) /\ ~(v = w /\ e = h)
           /\ AtMostOnce(tasks'[v], e)
  BY <1>d, <1>1, <1>2, Popped
<1>4. fn' \in [Cos -> Func \cup {None}] /\ \A c \in Cos : fn'[c] = IF c = c1 THEN h ELSE fn[c]
  BY <1>1, <1>c, <1>d, <1>2 DEF CoTyped
<1>5. /\ coFunc' \in [Workers -> Cos \cup {None}]
      /\ \A v \in Workers : coFunc'[v] = IF v = w THEN c1 ELSE coFunc[v]
      /\ \A v \in Workers : coFunc[v] \in Cos \cup {None}
  BY <1>1, <1>c DEF CoTyped
<1>6. /\ \A v \in Workers : cur[v] # c1
      /\ cur' = [cur EXCEPT ![w] = c1] /\ state' = [state EXCEPT ![c1] = "RUNNING"]
      /\ pc[w] = "take" /\ pc' = [pc EXCEPT ![w] = "run"]
      /\ \A c \in Cos : c # c1 => fn'[c] = fn[c]
  BY <1>c, <1>2, <1>4
<1>a. /\ Running'
      /\ pc' \in [Workers -> Labels] /\ cur' \in [Workers -> Cos \cup {None}] /\ state' \in [Cos -> States]
      /\ cur[w] = None /\ \A v \in Workers : cur'[v] = IF v = w THEN c1 ELSE cur[v]
      /\ \A c \in Cos : state'[c] = IF c = c1 THEN "RUNNING" ELSE state[c]
      /\ \A c \in Cos \ {c1} : Asleep(c)' <=> Asleep(c)
      /\ ~Asleep(c1)'
      /\ \A v \in Workers : (pc'[v] = "armed" <=> pc[v] = "armed") /\ (pc[v] = "armed" => cur'[v] = cur[v])
  BY <1>1, <1>6, SwitchIn
<1>7. CoTyped'
  BY <1>1, <1>2, <1>3, <1>4, <1>5, <1>a DEF CoTyped
<1>8. Spares'
  <2>1. \A v \in Workers : coFunc[v] = c1 => v = w
    BY <1>c
  <2> QED
    BY <1>1, <1>5, <1>a, <2>1 DEF Spares
<1>9. ReadyParked'
  BY <1>1, <1>2 DEF ReadyParked
<1>10. fn[c1] \notin Wakes
  BY <1>1, <1>6 DEF Running
<1>11. \A e \in Tokens, k \in Kinds, x \in Sites :
         At(e, k, x)' <=> \/ At(e, k, x) /\ ~(e = h /\ k = "task" /\ x = w)
                          \/ e = h /\ h \in Wakes /\ k = "body" /\ x = c1
  <2> SUFFICES ASSUME NEW e \in Tokens, NEW k \in Kinds, NEW x \in Sites
               PROVE  At(e, k, x)' <=> \/ At(e, k, x) /\ ~(e = h /\ k = "task" /\ x = w)
                                       \/ e = h /\ h \in Wakes /\ k = "body" /\ x = c1
    OBVIOUS
  <2>1. CASE k = "body"
    BY <1>4, <1>10, <2>1 DEF At
  <2>2. CASE k = "task"
    BY <1>3, <2>2 DEF At
  <2>3. CASE k \in {"io", "timer"}
    BY <1>2, <2>3 DEF At
  <2> QED
    BY <2>1, <2>2, <2>3 DEF Kinds
<1>12. "body" \in Kinds /\ "task" \in Kinds /\ w \in Sites /\ c1 \in Sites
  BY DEF Kinds, Sites
<1>13. ~Asleep(c1)
  BY <1>1, <1>c DEF HeldIffAsleep, Asleep
<1>14. ASSUME NEW c \in Cos PROVE GoodMove(c)
  <2>1. CASE h \in Wakes /\ c = h.co
    <3>1. h \in Tokens /\ h \notin Cos /\ Owner(h) = c
      BY <2>1, TokenFacts
    <3>2. At(h, "task", w)
      BY <1>3, <3>1
    <3>3. Held(c) /\ c # c1
      BY <1>c, <1>12, <3>1, <3>2 DEF Held
    <3>4. Asleep(c)'
      BY <1>1, <1>a, <3>3 DEF HeldIffAsleep, Asleep
    <3>5. Now(c, h, "body", c1)
      <4> SUFFICES ASSUME NEW e \in Tokens, NEW k \in Kinds, NEW x \in Sites, Owner(e) = c
                   PROVE  At(e, k, x)' <=> e = h /\ k = "body" /\ x = c1
        BY DEF Now
      <4>1. At(e, k, x) => e = h /\ k = "task" /\ x = w
        BY <1>1, <1>12, <3>1, <3>2 DEF OneToken
      <4> QED
        BY <1>11, <2>1, <4>1
    <3>6. \A v \in Workers : pc'[v] = "armed" /\ cur'[v] = c => h.home = v
      BY <1>1, <1>12, <1>a, <3>1, <3>2 DEF WokenAtHome
    <3> QED
      BY <3>1, <3>4, <3>5, <3>6, <1>12 DEF GoodMove
  <2>2. CASE ~(h \in Wakes /\ c = h.co)
    <3>1. \A e \in Tokens : Owner(e) = c => e # h
      BY <1>2, <2>2, TokenFacts DEF Func
    <3>2. Same(c)
      BY <1>11, <3>1 DEF Same
    <3>3. Asleep(c)' <=> Asleep(c)
      BY <1>13, <1>a
    <3> QED
      BY <3>2, <3>3, <1>a DEF GoodMove
  <2> QED
    BY <2>1, <2>2
<1>15. \A e \in Tokens : AtMostOnce(timers', e) /\ \A v \in Workers : AtMostOnce(tasks'[v], e)
  BY <1>1, <1>2, <1>3 DEF OneToken
<1> QED
  BY <1>7, <1>a, <1>8, <1>9, <1>14, <1>15, Moved

\* The poller takes the expired wake-ups into its worker's queue.
LEMMA ExpiredStep == ASSUME CoInv, NEW w \in Workers, Expired(w) PROVE CoInv'
<1>1. CoTyped /\ Running /\ OneToken /\ HeldIffAsleep /\ WokenAtHome /\ Spares /\ ReadyParked
  BY DEF CoInv
<1>c. PICK p, q : p = SubSeq(timers, 1, due) /\ q = SubSeq(timers, due + 1, Len(timers))
  OBVIOUS
<1>2. /\ pc[w] = "expired" /\ tasks' = [tasks EXCEPT ![w] = @ \o p] /\ timers' = q /\ due' = 0
      /\ pc' = [pc EXCEPT ![w] = "events"]
      /\ UNCHANGED <<ready, eventfd, parked, cur, coFunc, state, fn>>
  BY <1>c DEF Expired, NotDue, coVars
<1>3. timers \in Seq(Wakes) /\ due \in 0 .. Len(timers)
  BY <1>1 DEF CoTyped
<1>4. \A e : /\ p \in Seq(Wakes) /\ q \in Seq(Wakes)
             /\ Occurs(timers, e) <=> Occurs(p, e) \/ Occurs(q, e)
             /\ AtMostOnce(timers, e) => /\ AtMostOnce(p, e) /\ AtMostOnce(q, e)
                                         /\ ~(Occurs(p, e) /\ Occurs(q, e))
  BY <1>c, <1>3, OccursSplit
<1>5. \A e \in Tokens : AtMostOnce(timers, e)
  BY <1>1 DEF OneToken
<1>6. "timer" \in Kinds /\ "task" \in Kinds /\ w \in Sites /\ None \in Sites
  BY DEF Kinds, Sites
<1>7. ASSUME NEW e \in Tokens, Occurs(p, e)
      PROVE  ~Occurs(tasks[w], e) /\ At(e, "timer", None) /\ e \in Wakes /\ ~Occurs(q, e)
  <2>1. Occurs(timers, e) /\ ~Occurs(q, e)
    BY <1>4, <1>5, <1>7
  <2>2. At(e, "timer", None)
    BY <2>1 DEF At
  <2>3. ~At(e, "task", w)
    BY <1>1, <1>6, <2>2 DEF OneToken
  <2>4. e \in Wakes
    BY <1>4, <1>7, ElementOfSeq DEF Occurs
  <2> QED
    BY <2>1, <2>2, <2>3, <2>4 DEF At
<1>8. p \in Seq(Cos \cup Func)
  <2>1. Wakes \subseteq Cos \cup Func
    BY DEF Func
  <2> QED
    BY <1>4, <2>1
<1>9. /\ tasks' \in [Workers -> Seq(Cos \cup Func)]
      /\ \A e \in Tokens, v \in Workers :
            /\ Occurs(tasks'[v], e) <=> Occurs(tasks[v], e) \/ (v = w /\ Occurs(p, e))
            /\ AtMostOnce(tasks'[v], e)
  BY <1>1, <1>2, <1>4, <1>5, <1>7, <1>8, Pushed
<1>10. \A v \in Workers : pc'[v] = IF v = w THEN "events" ELSE pc[v]
  BY <1>1, <1>2 DEF CoTyped
<1>11. CoTyped'
  <2>1. pc' \in [Workers -> Labels]
    BY <1>1, <1>2 DEF CoTyped, Labels
  <2>2. timers' \in Seq(Wakes) /\ due' \in 0 .. Len(timers')
    BY <1>2, <1>4
  <2> QED
    BY <1>1, <1>2, <1>9, <2>1, <2>2 DEF CoTyped
<1>12. Running' /\ Spares' /\ ReadyParked'
  BY <1>1, <1>2, <1>10 DEF Running, Spares, ReadyParked
<1>13. \A c \in Cos : Asleep(c)' <=> Asleep(c)
  BY <1>2, <1>10 DEF Asleep, FallingAsleep
<1>14. \A e \in Tokens, k \in Kinds, x \in Sites :
         At(e, k, x)' <=> \/ At(e, k, x) /\ ~(k = "timer" /\ Occurs(p, e))
                          \/ k = "task" /\ x = w /\ Occurs(p, e)
  <2> SUFFICES ASSUME NEW e \in Tokens, NEW k \in Kinds, NEW x \in Sites
               PROVE  At(e, k, x)' <=> \/ At(e, k, x) /\ ~(k = "timer" /\ Occurs(p, e))
                                       \/ k = "task" /\ x = w /\ Occurs(p, e)
    OBVIOUS
  <2>1. CASE k = "timer"
    BY <1>2, <1>4, <1>7, <2>1 DEF At
  <2>2. CASE k = "task"
    BY <1>9, <2>2 DEF At
  <2>3. CASE k \in {"io", "body"}
    BY <1>2, <2>3 DEF At
  <2> QED
    BY <2>1, <2>2, <2>3 DEF Kinds
<1>15. ASSUME NEW c \in Cos PROVE GoodMove(c)
  <2>1. ASSUME NEW f \in Tokens, Owner(f) = c, Occurs(p, f) PROVE GoodMove(c)
    <3>1. At(f, "timer", None) /\ f \in Wakes /\ f \notin Cos
      BY <1>7, <2>1, TokenFacts
    <3>2. Asleep(c)'
      BY <1>1, <1>6, <1>13, <2>1, <3>1 DEF HeldIffAsleep, Held, Asleep
    <3>3. Now(c, f, "task", w)
      <4> SUFFICES ASSUME NEW e \in Tokens, NEW k \in Kinds, NEW x \in Sites, Owner(e) = c
                   PROVE  At(e, k, x)' <=> e = f /\ k = "task" /\ x = w
        BY DEF Now
      <4>1. At(e, k, x) => e = f /\ k = "timer" /\ x = None
        BY <1>1, <1>6, <2>1, <3>1 DEF OneToken
      <4>2. Occurs(p, e) => e = f
        BY <1>1, <1>6, <1>7, <2>1, <3>1 DEF OneToken
      <4> QED
        BY <1>14, <2>1, <4>1, <4>2
    <3>4. \A v \in Workers : pc'[v] = "armed" /\ cur'[v] = c => f.home = v
      BY <1>1, <1>2, <1>6, <1>10, <2>1, <3>1 DEF WokenAtHome
    <3> QED
      BY <1>6, <2>1, <3>1, <3>2, <3>3, <3>4 DEF GoodMove
  <2>2. CASE \A f \in Tokens : Owner(f) = c => ~Occurs(p, f)
    <3>1. Same(c)
      BY <1>14, <2>2 DEF Same
    <3> QED
      BY <1>2, <1>10, <1>13, <3>1 DEF GoodMove
  <2> QED
    BY <2>1, <2>2
<1>16. \A e \in Tokens : AtMostOnce(timers', e) /\ \A v \in Workers : AtMostOnce(tasks'[v], e)
  BY <1>2, <1>4, <1>5, <1>9
<1> QED
  BY <1>11, <1>12, <1>15, <1>16, Moved

\* The poller queues the coroutines whose descriptors are ready.
LEMMA EventsStep == ASSUME CoInv, NEW w \in Workers, Events(w) PROVE CoInv'
<1>1. CoTyped /\ Running /\ OneToken /\ HeldIffAsleep /\ WokenAtHome /\ Spares /\ ReadyParked
  BY DEF CoInv
<1>c. PICK R : R = ready[w].io
  OBVIOUS
<1>2. PICK p \in SetToSeqs(R) : tasks' = [tasks EXCEPT ![w] = @ \o p]
  BY <1>c DEF Events
<1>3. /\ pc[w] = "events" /\ parked' = [parked EXCEPT ![w] = @ \ R]
      /\ eventfd' = [eventfd EXCEPT ![w] = @ /\ ~ready[w].evfd]
      /\ ready' = [ready EXCEPT ![w] = NoEvents]
      /\ pc' = [pc EXCEPT ![w] = "take"]
      /\ UNCHANGED <<cur, coFunc, state, fn, timers, due>>
  BY <1>c DEF Events, coVars, timerVars
<1>4. R \subseteq parked[w] /\ R \subseteq Cos
  BY <1>1, <1>c DEF ReadyParked, CoTyped
<1>5. IsFiniteSet(R)
  BY <1>4, WorkerAssumption, FS_Subset
<1>6. \A e : p \in Seq(R) /\ (Occurs(p, e) <=> e \in R) /\ AtMostOnce(p, e)
  BY <1>2, <1>5, OccursPermutation
<1>7. "io" \in Kinds /\ "task" \in Kinds /\ w \in Sites
  BY DEF Kinds, Sites
<1>8. ASSUME NEW c \in R
      PROVE  c \in Cos /\ c \in Tokens /\ Owner(c) = c /\ At(c, "io", w) /\ ~Occurs(tasks[w], c)
  <2>1. c \in Cos /\ c \in Tokens /\ Owner(c) = c /\ At(c, "io", w)
    BY <1>4, TokenFacts DEF At
  <2>2. ~At(c, "task", w)
    BY <1>1, <1>7, <2>1 DEF OneToken
  <2> QED
    BY <2>1, <2>2 DEF At
<1>9. p \in Seq(Cos \cup Func)
  BY <1>4, <1>6
<1>10. /\ tasks' \in [Workers -> Seq(Cos \cup Func)]
       /\ \A e \in Tokens, v \in Workers :
            /\ Occurs(tasks'[v], e) <=> Occurs(tasks[v], e) \/ (v = w /\ Occurs(p, e))
            /\ AtMostOnce(tasks'[v], e)
  BY <1>1, <1>2, <1>6, <1>8, <1>9, Pushed
<1>11. \A v \in Workers : pc'[v] = IF v = w THEN "take" ELSE pc[v]
  BY <1>1, <1>3 DEF CoTyped
<1>12. /\ parked' \in [Workers -> SUBSET Cos]
       /\ \A v \in Workers : parked'[v] = IF v = w THEN parked[v] \ R ELSE parked[v]
  BY <1>1, <1>3 DEF CoTyped
<1>13. /\ ready' \in [Workers -> [evfd : BOOLEAN, io : SUBSET Cos]]
       /\ \A v \in Workers : ready'[v] = IF v = w THEN NoEvents ELSE ready[v]
  BY <1>1, <1>3 DEF CoTyped, NoEvents
<1>14. eventfd' \in [Workers -> BOOLEAN]
  <2>1. (eventfd[w] /\ ~ready[w].evfd) \in BOOLEAN
    OBVIOUS
  <2> QED
    BY <1>1, <1>3, <2>1 DEF CoTyped
<1>15. CoTyped'
  <2>1. pc' \in [Workers -> Labels]
    BY <1>1, <1>3 DEF CoTyped, Labels
  <2> QED
    BY <1>1, <1>3, <1>10, <1>12, <1>13, <1>14, <2>1 DEF CoTyped
<1>16. Running' /\ Spares'
  BY <1>1, <1>3, <1>11 DEF Running, Spares
<1>17. ReadyParked'
  BY <1>1, <1>12, <1>13 DEF ReadyParked, NoEvents
<1>18. \A c \in Cos : Asleep(c)' <=> Asleep(c)
  BY <1>3, <1>11 DEF Asleep, FallingAsleep
<1>19. \A e \in Tokens, k \in Kinds, x \in Sites :
         At(e, k, x)' <=> \/ At(e, k, x) /\ ~(k = "io" /\ x = w /\ e \in R)
                          \/ k = "task" /\ x = w /\ e \in R
  <2> SUFFICES ASSUME NEW e \in Tokens, NEW k \in Kinds, NEW x \in Sites
               PROVE  At(e, k, x)' <=> \/ At(e, k, x) /\ ~(k = "io" /\ x = w /\ e \in R)
                                       \/ k = "task" /\ x = w /\ e \in R
    OBVIOUS
  <2>1. CASE k = "io"
    BY <1>12, <2>1 DEF At
  <2>2. CASE k = "task"
    BY <1>6, <1>10, <2>2 DEF At
  <2>3. CASE k \in {"timer", "body"}
    BY <1>3, <2>3 DEF At
  <2> QED
    BY <2>1, <2>2, <2>3 DEF Kinds
<1>20. ASSUME NEW c \in Cos PROVE GoodMove(c)
  <2>1. CASE c \in R
    <3>1. c \in Tokens /\ Owner(c) = c /\ At(c, "io", w)
      BY <1>8, <2>1
    <3>2. Asleep(c)'
      BY <1>1, <1>7, <1>18, <3>1 DEF HeldIffAsleep, Held, Asleep
    <3>3. Now(c, c, "task", w)
      <4> SUFFICES ASSUME NEW e \in Tokens, NEW k \in Kinds, NEW x \in Sites, Owner(e) = c
                   PROVE  At(e, k, x)' <=> e = c /\ k = "task" /\ x = w
        BY DEF Now
      <4>1. At(e, k, x) => e = c /\ k = "io" /\ x = w
        BY <1>1, <1>7, <3>1 DEF OneToken
      <4>2. e \in R => e = c
        BY <1>8
      <4> QED
        BY <1>19, <2>1, <4>1, <4>2
    <3>4. \A v \in Workers : ~(pc'[v] = "armed" /\ cur'[v] = c)
      BY <1>1, <1>3, <1>7, <1>11, <3>1 DEF WokenAtHome
    <3> QED
      BY <1>7, <3>1, <3>2, <3>3, <3>4 DEF GoodMove
  <2>2. CASE c \notin R
    <3>1. \A e \in Tokens : Owner(e) = c => e \notin R
      BY <1>8, <2>2
    <3>2. Same(c)
      BY <1>19, <3>1 DEF Same
    <3> QED
      BY <1>3, <1>11, <1>18, <3>2 DEF GoodMove
  <2> QED
    BY <2>1, <2>2
<1>21. \A e \in Tokens : AtMostOnce(timers', e) /\ \A v \in Workers : AtMostOnce(tasks'[v], e)
  BY <1>1, <1>3, <1>10 DEF OneToken
<1> QED
  BY <1>15, <1>16, <1>17, <1>20, <1>21, Moved

-----------------------------------------------------------------------------
(* The theorems about coroutines *)

\* Every step of a worker.
LEMMA WorkerStepCo == ASSUME CoInv, NEW w \in Workers, WorkerStep(w) PROVE CoInv'
<1>1. CASE \/ RunStart(w) \/ EnterIdle(w) \/ Quit(w)
           \/ GetExpire(w) \/ HasTask(w) \/ IdleExit(w) \/ KeepGoing(w) \/ SetPolling(w) \/ EpollWait(w)
  BY <1>1, IdleQuiet
<1>2. CASE TakeCo(w)
  BY <1>2, TakeCoStep
<1>3. CASE TakeFunc(w)
  BY <1>3, TakeFuncStep
<1>4. CASE Finish(w)
  BY <1>4, FinishStep
<1>5. CASE RunWake(w)
  BY <1>5, RunWakeStep
<1>6. CASE ParkIO(w)
  BY <1>6, ParkIOStep
<1>7. CASE SleepArm(w)
  BY <1>7, SleepArmStep
<1>8. CASE SleepYield(w)
  BY <1>8, SleepYieldStep
<1>9. CASE Expired(w)
  BY <1>9, ExpiredStep
<1>10. CASE Events(w)
  BY <1>10, EventsStep
<1> QED
  BY <1>1, <1>2, <1>3, <1>4, <1>5, <1>6, <1>7, <1>8, <1>9, <1>10
  DEF WorkerStep, RunLoop, Body, IdleLoop

\* Every step of workers and of the threads around them.
LEMMA CoInvNext == CoInv /\ [Next]_vars => CoInv'
<1> SUFFICES ASSUME CoInv, [Next]_vars PROVE CoInv'
  OBVIOUS
<1>1. CASE \E w \in Workers : WorkerStep(w)
  BY <1>1, WorkerStepCo
<1>2. CASE \/ \E t \in Threads : Notify(t) \/ \E w \in Workers, f \in Funcs : Post(t, w, f)
           \/ \E t \in Threads, w \in Workers : WorkerStop(t, w)
           \/ Tick
           \/ UNCHANGED vars
  BY <1>2, OthersQuiet
<1>3. Posters \subseteq Threads
  BY DEF Threads
<1> QED
  BY <1>1, <1>2, <1>3 DEF Next

\* The same with the scheduler's own steps.
LEMMA CoInvSchNext == CoInv /\ [SchNext]_allVars => CoInv'
<1> SUFFICES ASSUME CoInv, [SchNext]_allVars PROVE CoInv'
  OBVIOUS
<1>1. CASE \E w \in Workers : WorkerStep(w)
  BY <1>1, WorkerStepCo
<1>2. CASE \/ \E t \in Threads : Notify(t) \/ \E w \in Workers, f \in Funcs : Post(t, w, f)
           \/ \E t \in Threads, w \in Workers : WorkerStop(t, w)
           \/ Tick
           \/ UNCHANGED vars
  BY <1>2, OthersQuiet
<1>3. CASE \E w \in Workers : Step(w)
  BY <1>1, <1>3 DEF Step
<1>4. CASE \E t \in Threads, w \in Workers, f \in Funcs : SchPost(t, w, f)
  BY <1>2, <1>4 DEF SchPost
<1>5. CASE \E t \in Threads : StopEnter(t) \/ StopJoin(t)
  BY <1>2, <1>5 DEF StopEnter, StopJoin
<1>6. ASSUME NEW t \in Threads, StopWorker(t) PROVE CoInv'
  <2>1. PICK v : v = Head(stopping[t].todo)
    OBVIOUS
  <2>2. WorkerStop(t, v)
    BY <1>6, <2>1 DEF StopWorker
  <2>3. UNCHANGED <<pc, ready, tasks, eventfd, parked, cur, coFunc, state, fn, timers, due>>
    BY <2>2 DEF WorkerStop, coVars, timerVars
  <2> QED
    BY <2>3, QuietStep DEF CoInv, CoTyped, OneToken, ReadyParked
<1>7. CASE StartAsync \/ InitDone \/ JoinAll \/ \E w \in ThreadWorkers : InitSpawn(w)
  BY <1>2, <1>7 DEF StartAsync, InitDone, JoinAll, InitSpawn
<1>8. CASE UNCHANGED allVars
  BY <1>2, <1>8 DEF allVars
<1> QED
  BY <1>2, <1>3, <1>4, <1>5, <1>6, <1>7, <1>8 DEF SchNext, StopStep

\* At the start there is no token anywhere.
LEMMA CoInvInit == Init => CoInv
<1> SUFFICES ASSUME Init PROVE CoInv
  OBVIOUS
<1> USE DEF Init
<1>1. CoTyped
  <2>1. <<>> \in Seq(Cos \cup Func) /\ <<>> \in Seq(Wakes) /\ Len(<<>>) = 0
    BY EmptySeq
  <2>2. tasks \in [Workers -> Seq(Cos \cup Func)] /\ timers \in Seq(Wakes) /\ due \in 0 .. Len(timers)
    BY <2>1
  <2>3. ready \in [Workers -> [evfd : BOOLEAN, io : SUBSET Cos]] /\ eventfd \in [Workers -> BOOLEAN]
    BY DEF NoEvents
  <2> QED
    BY <2>2, <2>3 DEF CoTyped, Labels, States
<1>2. Running
  BY TokenFacts DEF Running
<1>3. \A e \in Tokens, k \in Kinds, x \in Sites : ~At(e, k, x)
  BY TokenFacts DEF At, Occurs
<1>4. OneToken
  BY <1>3 DEF OneToken, AtMostOnce
<1>5. HeldIffAsleep
  BY <1>3 DEF HeldIffAsleep, Held, FallingAsleep
<1>6. WokenAtHome /\ Spares /\ ReadyParked
  BY DEF WokenAtHome, Spares, ReadyParked, NoEvents
<1> QED
  BY <1>1, <1>2, <1>4, <1>5, <1>6 DEF CoInv

\* One token per suspended coroutine is one waker.
LEMMA CoInvOneWaker == CoInv => OneWaker
<1> SUFFICES ASSUME CoInv, NEW c \in Cos
             PROVE  Cardinality(Wakers(c)) = IF state[c] = "SUSPEND" \/ FallingAsleep(c) THEN 1 ELSE 0
  BY DEF OneWaker
<1>1. CoTyped /\ Running /\ OneToken
  BY DEF CoInv
<1>2. Wakers(c) = {} <=> ~(state[c] = "SUSPEND" \/ FallingAsleep(c))
  BY <1>1, HeldMeansWaker DEF CoInv, HeldIffAsleep
<1>3. CASE Wakers(c) = {}
  BY <1>2, <1>3, FS_EmptySet
<1>4. CASE Wakers(c) # {}
  <2>1. PICK p : p \in Wakers(c)
    BY <1>4
  <2>2. Wakers(c) = {p}
    BY <1>1, <2>1, WakerUnique
  <2>3. Cardinality({p}) = 1
    BY FS_Singleton
  <2> QED
    BY <1>2, <1>4, <2>2, <2>3
<1> QED
  BY <1>3, <1>4

\* A spare that is not running is finished and nothing holds it.
LEMMA CoInvSpare == CoInv => SpareIsDone
<1> SUFFICES ASSUME CoInv, NEW w \in Workers, coFunc[w] # None /\ coFunc[w] # cur[w]
             PROVE  /\ state[coFunc[w]] \in {"DONE", "EXCEPT"}
                    /\ Wakers(coFunc[w]) = {}
                    /\ \A v \in Workers \ {w} : coFunc[v] # coFunc[w]
  BY DEF SpareIsDone
<1>c. PICK c : c = coFunc[w]
  OBVIOUS
<1>1. CoTyped /\ Running /\ HeldIffAsleep /\ Spares
  BY DEF CoInv
<1>2. c \in Cos /\ state[c] \in {"DONE", "EXCEPT"} /\ \A v \in Workers \ {w} : coFunc[v] # coFunc[w]
  BY <1>c, <1>1 DEF CoTyped, Spares
<1>3. ~FallingAsleep(c)
  BY <1>1, <1>2, TokenFacts DEF FallingAsleep, Running
<1>4. Wakers(c) = {}
  BY <1>1, <1>2, <1>3, HeldMeansWaker DEF HeldIffAsleep
<1> QED
  BY <1>c, <1>2, <1>4

\* A suspended coroutine is held by exactly one IOEvent, timer, wake-up function or
\* queue, and no other coroutine by any, for every number of workers, posters,
\* functions and coroutines, and however stop() interleaves with them.
THEOREM OneWakerAlways == SchSpec => []OneWaker
<1>1. SchInit => CoInv
  BY CoInvInit DEF SchInit
<1> QED
  BY <1>1, CoInvSchNext, CoInvOneWaker, PTL DEF SchSpec

\* The coroutine that run() keeps for the next function has finished, no other
\* worker keeps it, and nothing can resume it.
THEOREM SpareAlwaysDone == SchSpec => []SpareIsDone
<1>1. SchInit => CoInv
  BY CoInvInit DEF SchInit
<1> QED
  BY <1>1, CoInvSchNext, CoInvSpare, PTL DEF SchSpec

\* The same of the workers without a scheduler around them.
THEOREM WorkersAlone == Spec => [](OneWaker /\ SpareIsDone)
<1> QED
  BY CoInvInit, CoInvNext, CoInvOneWaker, CoInvSpare, PTL DEF Spec

-----------------------------------------------------------------------------
(* The functions in a queue *)

Parts(q) == [i \in DOMAIN q |-> IF q[i] \in Funcs THEN <<q[i]>> ELSE <<>>]

\* The functions of a queue, as a sequence of short sequences.
LEMMA PartsType ==
  ASSUME NEW S, NEW q \in Seq(S)
  PROVE  /\ Parts(q) \in Seq(Seq(S)) /\ Len(Parts(q)) = Len(q)
         /\ \A i \in 1 .. Len(q) : Parts(q)[i] = IF q[i] \in Funcs THEN <<q[i]>> ELSE <<>>
<1>1. DOMAIN q = 1 .. Len(q) /\ Len(q) \in Nat /\ \A i \in 1 .. Len(q) : q[i] \in S
  BY ElementOfSeq
<1>2. \A i \in 1 .. Len(q) : (IF q[i] \in Funcs THEN <<q[i]>> ELSE <<>>) \in Seq(S)
  BY <1>1
<1>3. Parts(q) \in [1 .. Len(q) -> Seq(S)]
  BY <1>1, <1>2 DEF Parts
<1>4. Parts(q) \in Seq(Seq(S)) /\ Len(Parts(q)) = Len(q)
  BY <1>1, <1>3, IsASeq, LenProperties
<1> QED
  BY <1>1, <1>4 DEF Parts

\* Only functions that are in the queue, in their order.
LEMMA FuncsInType ==
  ASSUME NEW S, NEW q \in Seq(S)
  PROVE  /\ FuncsIn(q) \in Seq(S)
         /\ \A f : Occurs(FuncsIn(q), f) => Occurs(q, f) /\ f \in Funcs
<1>1. FuncsIn(q) = FlattenSeq(Parts(q))
  BY Zenon DEF FuncsIn, Parts
<1>2. FuncsIn(q) \in Seq(S)
  BY <1>1, PartsType, FlattenType
<1>3. PICK T : T = {q[i] : i \in DOMAIN q} \cap Funcs
  OBVIOUS
<1>4. FuncsIn(q) \in Seq(T)
  <2>1. DOMAIN q = 1 .. Len(q) /\ Len(q) \in Nat
    OBVIOUS
  <2>2. \A i \in DOMAIN q : (IF q[i] \in Funcs THEN <<q[i]>> ELSE <<>>) \in Seq(T)
    <3> SUFFICES ASSUME NEW i \in DOMAIN q PROVE (IF q[i] \in Funcs THEN <<q[i]>> ELSE <<>>) \in Seq(T)
      OBVIOUS
    <3>1. q[i] \in Funcs => q[i] \in T
      BY <1>3
    <3> QED
      BY <3>1
  <2>3. Parts(q) \in [1 .. Len(q) -> Seq(T)]
    BY <2>1, <2>2 DEF Parts
  <2>4. Parts(q) \in Seq(Seq(T))
    BY <2>1, <2>3, IsASeq
  <2> QED
    BY <1>1, <2>4, FlattenType
<1>5. ASSUME NEW f, Occurs(FuncsIn(q), f) PROVE Occurs(q, f) /\ f \in Funcs
  <2>1. f \in T
    BY <1>4, <1>5, ElementOfSeq DEF Occurs
  <2> QED
    BY <1>3, <2>1 DEF Occurs
<1> QED
  BY <1>2, <1>5

\* An empty queue holds no function.
LEMMA FuncsInEmpty == FuncsIn(<<>>) = <<>>
<1>1. Parts(<<>>) \in Seq(Seq(Funcs)) /\ Len(Parts(<<>>)) = 0
  <2>1. <<>> \in Seq(Funcs) /\ Len(<<>>) = 0
    BY EmptySeq
  <2> QED
    BY <2>1, PartsType
<1>2. Parts(<<>>) = <<>>
  BY <1>1, EmptySeq
<1> QED
  BY <1>2, FlattenEmpty DEF FuncsIn, Parts

\* A task behind the queue: its function comes last.
LEMMA FuncsInAppend ==
  ASSUME NEW S, NEW q \in Seq(S), NEW x \in S
  PROVE  FuncsIn(Append(q, x)) = IF x \in Funcs THEN Append(FuncsIn(q), x) ELSE FuncsIn(q)
<1> DEFINE r == Append(q, x)
           p == IF x \in Funcs THEN <<x>> ELSE <<>>
<1>1. r \in Seq(S) /\ Len(r) = Len(q) + 1 /\ (\A i \in 1 .. Len(q) : r[i] = q[i]) /\ r[Len(q) + 1] = x
  BY AppendProperties
<1>2. p \in Seq(S) /\ Len(q) \in Nat
  OBVIOUS
<1> HIDE DEF r
<1>3. /\ Parts(q) \in Seq(Seq(S)) /\ Len(Parts(q)) = Len(q)
      /\ \A i \in 1 .. Len(q) : Parts(q)[i] = IF q[i] \in Funcs THEN <<q[i]>> ELSE <<>>
  BY PartsType
<1>4. /\ Parts(r) \in Seq(Seq(S)) /\ Len(Parts(r)) = Len(r)
      /\ \A i \in 1 .. Len(r) : Parts(r)[i] = IF r[i] \in Funcs THEN <<r[i]>> ELSE <<>>
  BY <1>1, PartsType
<1>5. Parts(r) = Append(Parts(q), p)
  <2>1. /\ Append(Parts(q), p) \in Seq(Seq(S)) /\ Len(Append(Parts(q), p)) = Len(q) + 1
        /\ \A i \in 1 .. Len(q) : Append(Parts(q), p)[i] = Parts(q)[i]
        /\ Append(Parts(q), p)[Len(q) + 1] = p
    BY <1>2, <1>3, AppendProperties
  <2>2. \A i \in 1 .. Len(q) + 1 : Parts(r)[i] = Append(Parts(q), p)[i]
    <3> SUFFICES ASSUME NEW i \in 1 .. Len(q) + 1 PROVE Parts(r)[i] = Append(Parts(q), p)[i]
      OBVIOUS
    <3>1. CASE i = Len(q) + 1
      BY <1>1, <1>4, <2>1, <3>1
    <3>2. CASE i # Len(q) + 1
      <4>1. i \in 1 .. Len(q) /\ i \in 1 .. Len(r)
        BY <1>1, <1>2, <3>2
      <4> QED
        BY <1>1, <1>3, <1>4, <2>1, <4>1, ZenonT(60)
    <3> QED
      BY <3>1, <3>2
  <2> HIDE DEF p
  <2> QED
    BY <1>1, <1>4, <2>1, <2>2, SeqEqual
<1>6. FuncsIn(r) = FuncsIn(q) \o p
  <2> HIDE DEF p
  <2>1. FlattenSeq(Append(Parts(q), p)) = FlattenSeq(Parts(q)) \o p
    BY <1>2, <1>3, FlattenAppend
  <2> QED
    BY <1>5, <2>1 DEF FuncsIn, Parts
<1>7. FuncsIn(q) \in Seq(S)
  BY FuncsInType
<1>8. FuncsIn(q) \o <<x>> = Append(FuncsIn(q), x) /\ FuncsIn(q) \o <<>> = FuncsIn(q)
  BY <1>7
<1> QED
  BY <1>6, <1>8 DEF r

\* The first task leaves: so does its function, if it is one.
LEMMA FuncsInTail ==
  ASSUME NEW S, NEW q \in Seq(S), q # <<>>
  PROVE  IF Head(q) \in Funcs
           THEN FuncsIn(q) # <<>> /\ Head(FuncsIn(q)) = Head(q) /\ Tail(FuncsIn(q)) = FuncsIn(Tail(q))
           ELSE FuncsIn(q) = FuncsIn(Tail(q))
<1> DEFINE r == Tail(q)
           x == Head(q)
           p == IF x \in Funcs THEN <<x>> ELSE <<>>
<1>1. /\ r \in Seq(S) /\ Len(q) = Len(r) + 1 /\ Len(r) \in Nat /\ x \in S
      /\ q[1] = x /\ \A i \in 2 .. Len(q) : q[i] = r[i - 1]
  BY HeadTailProperties
<1>2. p \in Seq(S)
  BY <1>1
<1> HIDE DEF r, x
<1>3. /\ Parts(q) \in Seq(Seq(S)) /\ Len(Parts(q)) = Len(q)
      /\ \A i \in 1 .. Len(q) : Parts(q)[i] = IF q[i] \in Funcs THEN <<q[i]>> ELSE <<>>
  BY PartsType
<1>4. /\ Parts(r) \in Seq(Seq(S)) /\ Len(Parts(r)) = Len(r)
      /\ \A i \in 1 .. Len(r) : Parts(r)[i] = IF r[i] \in Funcs THEN <<r[i]>> ELSE <<>>
  BY <1>1, PartsType
<1>5. Parts(q) = <<p>> \o Parts(r)
  <2> HIDE DEF p
  <2>0. <<p>> \in Seq(Seq(S)) /\ Len(<<p>>) = 1 /\ <<p>>[1] = p
    BY <1>2
  <2>1. /\ <<p>> \o Parts(r) \in Seq(Seq(S)) /\ Len(<<p>> \o Parts(r)) = Len(r) + 1
        /\ \A i \in 1 .. Len(r) + 1 : (<<p>> \o Parts(r))[i] = IF i <= 1 THEN <<p>>[i] ELSE Parts(r)[i - 1]
    BY <1>1, <1>4, <2>0, ConcatProperties
  <2>2. \A i \in 1 .. Len(r) + 1 : Parts(q)[i] = (<<p>> \o Parts(r))[i]
    <3> SUFFICES ASSUME NEW i \in 1 .. Len(r) + 1 PROVE Parts(q)[i] = (<<p>> \o Parts(r))[i]
      OBVIOUS
    <3>1. CASE i = 1
      <4>1. Parts(q)[1] = p
        BY <1>1, <1>3 DEF p
      <4>2. (<<p>> \o Parts(r))[1] = p
        BY <1>1, <2>0, <2>1
      <4> QED
        BY <3>1, <4>1, <4>2
    <3>2. CASE i # 1
      <4>1. i \in 1 .. Len(q) /\ i \in 2 .. Len(q) /\ i - 1 \in 1 .. Len(r) /\ ~(i <= 1)
        BY <1>1, <3>2
      <4> QED
        BY <1>1, <1>3, <1>4, <2>1, <4>1
    <3> QED
      BY <3>1, <3>2
  <2>3. Len(Parts(q)) = Len(<<p>> \o Parts(r)) /\ \A i \in 1 .. Len(Parts(q)) : Parts(q)[i] = (<<p>> \o Parts(r))[i]
    BY <1>1, <1>3, <2>1, <2>2
  <2>4. Parts(q) \in Seq(Seq(S)) /\ <<p>> \o Parts(r) \in Seq(Seq(S))
    BY <1>3, <2>1
  <2> QED
    BY <2>3, <2>4, SeqEqual, Zenon
<1>6. FuncsIn(q) = p \o FuncsIn(r)
  <2> HIDE DEF p
  <2>1. FlattenSeq(<<p>> \o Parts(r)) = p \o FlattenSeq(Parts(r))
    BY <1>2, <1>4, FlattenFirst
  <2> QED
    BY <1>5, <2>1 DEF FuncsIn, Parts
<1>7. FuncsIn(r) \in Seq(S)
  BY <1>1, FuncsInType
<1>8. <<>> \o FuncsIn(r) = FuncsIn(r)
  BY <1>7
<1>9. <<x>> \o FuncsIn(r) # <<>> /\ Head(<<x>> \o FuncsIn(r)) = x /\ Tail(<<x>> \o FuncsIn(r)) = FuncsIn(r)
  BY <1>1, <1>7
<1> QED
  BY <1>6, <1>8, <1>9 DEF r, x

\* Tasks that are no functions make no difference.
LEMMA FuncsInConcat ==
  ASSUME NEW S, NEW q \in Seq(S), NEW t \in Seq(S), \A i \in 1 .. Len(t) : t[i] \notin Funcs
  PROVE  FuncsIn(q \o t) = FuncsIn(q)
<1> DEFINE Bad == {k \in Nat : \E s \in Seq(S) : /\ Len(s) = k /\ \A i \in 1 .. k : s[i] \notin Funcs
                                                 /\ FuncsIn(q \o s) # FuncsIn(q)}
<1> SUFFICES ASSUME Bad # {} PROVE FALSE
  <2>1. Len(t) \in Nat
    OBVIOUS
  <2> QED
    BY <2>1, Zenon
<1>1. Bad \subseteq Nat
  OBVIOUS
<1>2. PICK k \in Bad : \A j \in Bad : k <= j
  BY <1>1, LeastNatural, Zenon
<1>3. PICK s \in Seq(S) : Len(s) = k /\ (\A i \in 1 .. k : s[i] \notin Funcs) /\ FuncsIn(q \o s) # FuncsIn(q)
  BY <1>2
<1>4. k \in Nat
  BY <1>3
<1>5. k # 0
  <2> SUFFICES ASSUME k = 0 PROVE FALSE
    OBVIOUS
  <2>1. s = <<>>
    BY <1>3, EmptySeq
  <2>2. q \o s = q
    BY <2>1
  <2> QED
    BY <1>3, <2>2
<1> DEFINE r == SubSeq(s, 1, k - 1)
<1>6. r \in Seq(S) /\ Len(r) = k - 1 /\ k - 1 \in Nat /\ \A i \in 1 .. k - 1 : r[i] = s[i]
  BY <1>3, <1>4, <1>5
<1>7. s[k] \in S /\ s[k] \notin Funcs
  BY <1>3, <1>4, <1>5, ElementOfSeq
<1>8. s = Append(r, s[k])
  <2>1. Append(r, s[k]) \in Seq(S) /\ Len(Append(r, s[k])) = k
    BY <1>4, <1>6, <1>7
  <2>2. \A i \in 1 .. k : s[i] = Append(r, s[k])[i]
    BY <1>4, <1>6, <1>7
  <2> QED
    BY <1>3, <2>1, <2>2, SeqEqual
<1> HIDE DEF r
<1>9. q \o s = Append(q \o r, s[k]) /\ q \o r \in Seq(S)
  <2> HIDE DEF Bad
  <2>1. r \in Seq(S)
    BY <1>6
  <2>2. q \o Append(r, s[k]) = Append(q \o r, s[k]) /\ q \o r \in Seq(S)
    BY <1>7, <2>1, ConcatAppend
  <2> QED
    BY <1>8, <2>2, Zenon
<1>10. FuncsIn(q \o s) = FuncsIn(q \o r)
  BY <1>7, <1>9, FuncsInAppend
<1>11. FuncsIn(q \o r) # FuncsIn(q) /\ \A i \in 1 .. k - 1 : r[i] \notin Funcs
  BY <1>3, <1>4, <1>6, <1>10
<1>12. k - 1 \in Bad
  BY <1>6, <1>11
<1> HIDE DEF Bad
<1> QED
  BY <1>2, <1>4, <1>12

-----------------------------------------------------------------------------
(* The workers implement RunQueue *)

\* Coroutine c is in the middle of f.
Runs(c, f) == fn[c] = f /\ state[c] \in {"RUNNING", "SUSPEND"}

\* A function is posted before it is anywhere else, and is in one queue, once, or
\* in one coroutine that has not finished it.
FuncInv ==
  /\ \A f \in Funcs, w \in Workers : Occurs(tasks[w], f) => f \in posted
  /\ \A f \in Funcs, c \in Cos : Runs(c, f) => f \in posted
  /\ finished \subseteq posted
  /\ \A f \in Funcs, v, w \in Workers : Occurs(tasks[v], f) /\ Occurs(tasks[w], f) => v = w
  /\ \A f \in Funcs, w \in Workers : AtMostOnce(tasks[w], f)
  /\ \A f \in Funcs, w \in Workers, c \in Cos : ~(Occurs(tasks[w], f) /\ Runs(c, f))
  /\ \A f \in Funcs, c, d \in Cos : Runs(c, f) /\ Runs(d, f) => c = d

AbsVars == <<Queues, Live, finished>>

\* A step that moves no function.
LEMMA FuncQuiet ==
  ASSUME FuncInv, UNCHANGED <<posted, finished>>,
         \A w \in Workers : FuncsIn(tasks'[w]) = FuncsIn(tasks[w]),
         \A f \in Funcs, w \in Workers : /\ Occurs(tasks'[w], f) <=> Occurs(tasks[w], f)
                                         /\ AtMostOnce(tasks'[w], f),
         \A f \in Funcs, c \in Cos : Runs(c, f)' <=> Runs(c, f)
  PROVE  FuncInv' /\ UNCHANGED AbsVars
<1>1. FuncInv'
  BY DEF FuncInv
<1>2. Queues' = Queues
  BY DEF Queues
<1>3. Live = {f \in Funcs : \E c \in Cos : Runs(c, f)}
  BY DEF Live, Runs
<1>4. Live' = {f \in Funcs : \E c \in Cos : Runs(c, f)'}
  BY DEF Live, Runs
<1>5. Live' = Live
  BY <1>3, <1>4
<1> QED
  BY <1>1, <1>2, <1>5 DEF AbsVars

\* The same, where tasks that are no functions are added to a queue.
LEMMA FuncQuietPush ==
  ASSUME FuncInv, CoTyped, UNCHANGED <<posted, finished>>, NEW w \in Workers, NEW s \in Seq(Cos \cup Func),
         tasks' = [tasks EXCEPT ![w] = @ \o s], \A i \in 1 .. Len(s) : s[i] \notin Funcs,
         \A f \in Funcs, c \in Cos : Runs(c, f)' <=> Runs(c, f)
  PROVE  FuncInv' /\ UNCHANGED AbsVars
<1>1. \A v \in Workers : tasks'[v] = IF v = w THEN tasks[w] \o s ELSE tasks[v]
  BY DEF CoTyped
<1>2. tasks[w] \in Seq(Cos \cup Func)
  BY DEF CoTyped
<1>3. FuncsIn(tasks[w] \o s) = FuncsIn(tasks[w])
  BY <1>2, FuncsInConcat
<1>4. \A f \in Funcs : ~Occurs(s, f)
  BY DEF Occurs
<1>5. \A f \in Funcs : AtMostOnce(s, f)
  BY <1>4 DEF Occurs, AtMostOnce
<1>6. ASSUME NEW f \in Funcs, NEW v \in Workers
      PROVE  (Occurs(tasks'[v], f) <=> Occurs(tasks[v], f)) /\ AtMostOnce(tasks'[v], f)
  <2>1. AtMostOnce(tasks[v], f) /\ AtMostOnce(tasks[w], f)
    BY DEF FuncInv
  <2>2. /\ Occurs(tasks[w] \o s, f) <=> Occurs(tasks[w], f) \/ Occurs(s, f)
        /\ AtMostOnce(tasks[w], f) /\ AtMostOnce(s, f) /\ ~(Occurs(tasks[w], f) /\ Occurs(s, f))
             => AtMostOnce(tasks[w] \o s, f)
    BY <1>2, OccursConcat
  <2> QED
    BY <1>1, <1>4, <1>5, <2>1, <2>2
<1> QED
  BY <1>1, <1>3, <1>6, FuncQuiet

\* The head of a queue is taken.
LEMMA FuncPopped ==
  ASSUME FuncInv, CoTyped, NEW w \in Workers, tasks[w] # <<>>, tasks' = [tasks EXCEPT ![w] = Tail(@)]
  PROVE  /\ \A f \in Funcs, v \in Workers :
              /\ Occurs(tasks'[v], f) <=> Occurs(tasks[v], f) /\ ~(v = w /\ f = Head(tasks[w]))
              /\ AtMostOnce(tasks'[v], f)
         /\ Occurs(tasks[w], Head(tasks[w]))
         /\ \A v \in Workers : v # w => tasks'[v] = tasks[v]
         /\ tasks'[w] = Tail(tasks[w])
         /\ Head(tasks[w]) \notin Funcs => \A v \in Workers : FuncsIn(tasks'[v]) = FuncsIn(tasks[v])
         /\ Head(tasks[w]) \in Funcs =>
              /\ FuncsIn(tasks[w]) # <<>> /\ Head(FuncsIn(tasks[w])) = Head(tasks[w])
              /\ Tail(FuncsIn(tasks[w])) = FuncsIn(Tail(tasks[w]))
<1>1. tasks[w] \in Seq(Cos \cup Func)
  BY DEF CoTyped
<1>2. \A v \in Workers : tasks'[v] = IF v = w THEN Tail(tasks[w]) ELSE tasks[v]
  BY DEF CoTyped
<1>3. IF Head(tasks[w]) \in Funcs
        THEN /\ FuncsIn(tasks[w]) # <<>> /\ Head(FuncsIn(tasks[w])) = Head(tasks[w])
             /\ Tail(FuncsIn(tasks[w])) = FuncsIn(Tail(tasks[w]))
        ELSE FuncsIn(tasks[w]) = FuncsIn(Tail(tasks[w]))
  BY <1>1, FuncsInTail
<1>4. ASSUME NEW f \in Funcs, NEW v \in Workers
      PROVE  /\ Occurs(tasks'[v], f) <=> Occurs(tasks[v], f) /\ ~(v = w /\ f = Head(tasks[w]))
             /\ AtMostOnce(tasks'[v], f)
  <2>1. AtMostOnce(tasks[v], f) /\ AtMostOnce(tasks[w], f)
    BY DEF FuncInv
  <2>2. /\ Occurs(tasks[w], f) <=> Head(tasks[w]) = f \/ Occurs(Tail(tasks[w]), f)
        /\ AtMostOnce(Tail(tasks[w]), f)
        /\ Head(tasks[w]) = f => ~Occurs(Tail(tasks[w]), f)
    BY <1>1, <2>1, OccursTail
  <2> QED
    BY <1>2, <2>1, <2>2
<1>5. Occurs(tasks[w], Head(tasks[w]))
  BY <1>1, OccursTail
<1>6. Head(tasks[w]) \notin Funcs => \A v \in Workers : FuncsIn(tasks'[v]) = FuncsIn(tasks[v])
  BY <1>2, <1>3
<1> QED
  BY <1>2, <1>3, <1>4, <1>5, <1>6

\* notify(), stop(), the passing of time, and the steps of run() and idle() that
\* leave the queues alone.
LEMMA StillSteps ==
  ASSUME FuncInv, UNCHANGED <<tasks, state, fn, posted, finished>>
  PROVE  FuncInv' /\ [Abstract!Next]_AbsVars
<1>1. \A f \in Funcs, c \in Cos : Runs(c, f)' <=> Runs(c, f)
  BY DEF Runs
<1>2. \A f \in Funcs, w \in Workers : AtMostOnce(tasks[w], f)
  BY DEF FuncInv
<1> QED
  BY <1>1, <1>2, FuncQuiet

\* Worker::addTask(func) is Add.
LEMMA PostAdds ==
  ASSUME CoTyped, FuncInv, NEW t \in Threads, NEW w \in Workers, NEW f \in Funcs, Post(t, w, f)
  PROVE  FuncInv' /\ [Abstract!Next]_AbsVars
<1>1. /\ f \notin posted /\ posted' = posted \cup {f} /\ UNCHANGED <<state, fn, finished>>
      /\ tasks' = [tasks EXCEPT ![w] = Append(@, f)]
  BY DEF Post, AddTask, PushBack, coVars
<1>2. tasks[w] \in Seq(Cos \cup Func) /\ f \in Cos \cup Func
  BY DEF CoTyped, Func
<1>3. \A v \in Workers : tasks'[v] = IF v = w THEN Append(tasks[w], f) ELSE tasks[v]
  BY <1>1 DEF CoTyped
<1>4. \A g : /\ Occurs(Append(tasks[w], f), g) <=> Occurs(tasks[w], g) \/ f = g
             /\ AtMostOnce(tasks[w], g) /\ (f = g => ~Occurs(tasks[w], g)) => AtMostOnce(Append(tasks[w], f), g)
  BY <1>2, OccursAppend
<1>5. (\A v \in Workers : ~Occurs(tasks[v], f)) /\ (\A c \in Cos : ~Runs(c, f)) /\ f \notin finished
  BY <1>1 DEF FuncInv
<1>6. \A c \in Cos, g \in Funcs : Runs(c, g)' <=> Runs(c, g)
  BY <1>1 DEF Runs
<1>7. \A g \in Funcs, v \in Workers : /\ Occurs(tasks'[v], g) <=> Occurs(tasks[v], g) \/ (v = w /\ g = f)
                                      /\ AtMostOnce(tasks'[v], g)
  <2>1. \A g \in Funcs, v \in Workers : AtMostOnce(tasks[v], g)
    BY DEF FuncInv
  <2> QED
    BY <1>3, <1>4, <1>5, <2>1
<1>8. FuncInv'
  BY <1>1, <1>5, <1>6, <1>7 DEF FuncInv
<1>9. Live' = Live
  <2>1. Live = {g \in Funcs : \E c \in Cos : Runs(c, g)} /\ Live' = {g \in Funcs : \E c \in Cos : Runs(c, g)'}
    BY DEF Live, Runs
  <2> QED
    BY <1>6, <2>1
<1>10. Queues' = [Queues EXCEPT ![w] = Append(@, f)]
  <2>1. FuncsIn(Append(tasks[w], f)) = Append(FuncsIn(tasks[w]), f)
    BY <1>2, FuncsInAppend
  <2> QED
    BY <1>3, <2>1 DEF Queues
<1>11. ~Abstract!Known(f)
  <2>1. f \notin Live
    BY <1>5 DEF Live, Runs
  <2>2. ASSUME NEW v \in Workers, NEW i \in DOMAIN Queues[v], Queues[v][i] = f PROVE FALSE
    <3>1. Occurs(FuncsIn(tasks[v]), f)
      BY <2>2 DEF Queues, Occurs
    <3>2. tasks[v] \in Seq(Cos \cup Func)
      BY DEF CoTyped
    <3> QED
      BY <1>5, <3>1, <3>2, FuncsInType
  <2> QED
    BY <1>5, <2>1, <2>2 DEF Abstract!Known
<1>12. Abstract!Add(w, f)
  BY <1>1, <1>9, <1>10, <1>11 DEF Abstract!Add
<1> QED
  BY <1>8, <1>12 DEF Abstract!Next

\* A coroutine is taken from the queue: no function moves.
LEMMA TakeCoStarts ==
  ASSUME CoInv, FuncInv, NEW w \in Workers, TakeCo(w)
  PROVE  FuncInv' /\ [Abstract!Next]_AbsVars
<1>1. CoTyped
  BY DEF CoInv
<1>c. PICK c0 : c0 = Head(tasks[w])
  OBVIOUS
<1>2. /\ pc[w] = "take" /\ tasks[w] # <<>> /\ c0 \in Cos /\ state' = [state EXCEPT ![c0] = "RUNNING"]
      /\ tasks' = [tasks EXCEPT ![w] = Tail(@)] /\ UNCHANGED <<fn, posted, finished>>
  BY <1>c DEF TakeCo, history
<1>3. state[c0] = "SUSPEND" /\ c0 \notin Funcs
  BY <1>c, <1>2, HeadSuspended, TokenFacts
<1>4. \A f \in Funcs, c \in Cos : Runs(c, f)' <=> Runs(c, f)
  BY <1>1, <1>2, <1>3 DEF Runs, CoTyped
<1>5. /\ \A v \in Workers : FuncsIn(tasks'[v]) = FuncsIn(tasks[v])
      /\ \A f \in Funcs, v \in Workers : /\ Occurs(tasks'[v], f) <=> Occurs(tasks[v], f)
                                         /\ AtMostOnce(tasks'[v], f)
  BY <1>c, <1>1, <1>2, <1>3, FuncPopped
<1> QED
  BY <1>2, <1>4, <1>5, FuncQuiet

\* A function is taken from the queue: Start; a wake-up is no function.
LEMMA TakeFuncStarts ==
  ASSUME CoInv, FuncInv, NEW w \in Workers, TakeFunc(w)
  PROVE  FuncInv' /\ [Abstract!Next]_AbsVars
<1>1. CoTyped /\ Running /\ HeldIffAsleep
  BY DEF CoInv
<1>c. PICK c1 \in Cos :
           /\ state' = [state EXCEPT ![c1] = "RUNNING"] /\ fn' = [fn EXCEPT ![c1] = Head(tasks[w])]
           /\ ~Held(c1) /\ \A v \in Workers : cur[v] # c1
  BY FuncCoroutine
<1>d. PICK h : h = Head(tasks[w])
  OBVIOUS
<1>2. /\ tasks[w] # <<>> /\ h \in Func
      /\ tasks' = [tasks EXCEPT ![w] = Tail(@)] /\ UNCHANGED <<posted, finished>>
  BY <1>d DEF TakeFunc, history
<1>3. \A f : ~Runs(c1, f)
  BY <1>1, <1>c DEF Running, HeldIffAsleep, Runs
<1>4. \A c \in Cos, f \in Funcs : Runs(c, f)' <=> Runs(c, f) \/ (c = c1 /\ f = h)
  BY <1>1, <1>c, <1>d, <1>3 DEF Runs, CoTyped
<1>5. /\ \A f \in Funcs, v \in Workers :
              /\ Occurs(tasks'[v], f) <=> Occurs(tasks[v], f) /\ ~(v = w /\ f = h)
              /\ AtMostOnce(tasks'[v], f)
      /\ Occurs(tasks[w], h)
      /\ \A v \in Workers : v # w => tasks'[v] = tasks[v]
      /\ tasks'[w] = Tail(tasks[w])
      /\ h \notin Funcs => \A v \in Workers : FuncsIn(tasks'[v]) = FuncsIn(tasks[v])
      /\ h \in Funcs => /\ FuncsIn(tasks[w]) # <<>> /\ Head(FuncsIn(tasks[w])) = h
                        /\ Tail(FuncsIn(tasks[w])) = FuncsIn(Tail(tasks[w]))
  BY <1>d, <1>1, <1>2, FuncPopped
<1>6. CASE h \notin Funcs
  BY <1>2, <1>4, <1>5, <1>6, FuncQuiet
<1>7. CASE h \in Funcs
  <2>1. FuncInv'
    BY <1>2, <1>4, <1>5, <1>7 DEF FuncInv
  <2>2. Live' = Live \cup {h}
    <3>1. Live = {g \in Funcs : \E c \in Cos : Runs(c, g)} /\ Live' = {g \in Funcs : \E c \in Cos : Runs(c, g)'}
      BY DEF Live, Runs
    <3> QED
      BY <1>4, <1>7, <3>1
  <2>3. Queues' = [Queues EXCEPT ![w] = Tail(@)] /\ Queues[w] # <<>> /\ Head(Queues[w]) = h
    BY <1>5, <1>7 DEF Queues
  <2>4. Abstract!Start(w)
    BY <1>2, <2>2, <2>3 DEF Abstract!Start
  <2> QED
    BY <2>1, <2>4 DEF Abstract!Next
<1> QED
  BY <1>6, <1>7

\* A function returns or throws: End.
LEMMA FinishEnds ==
  ASSUME CoInv, FuncInv, NEW w \in Workers, Finish(w)
  PROVE  FuncInv' /\ [Abstract!Next]_AbsVars
<1>1. CoTyped
  BY DEF CoInv
<1>c. PICK c0 : c0 = cur[w]
  OBVIOUS
<1>d. PICK f : f = fn[c0]
  OBVIOUS
<1>2. PICK s : /\ s \in {"DONE", "EXCEPT"} /\ state' = [state EXCEPT ![c0] = s]
               /\ fn' = IF s = "DONE" THEN [fn EXCEPT ![c0] = None] ELSE fn
  BY <1>c DEF Finish
<1>3. /\ pc[w] = "run" /\ f \in Funcs \cup {None} /\ finished' = finished \cup ({f} \ {None})
      /\ UNCHANGED <<tasks, posted>>
  BY <1>c, <1>d DEF Finish
<1>4. c0 \in Cos /\ state[c0] = "RUNNING"
  BY <1>c, <1>3, RunningFacts
<1>5. \A c \in Cos, g \in Funcs : Runs(c, g)' <=> Runs(c, g) /\ c # c0
  BY <1>1, <1>2, <1>4 DEF Runs, CoTyped
<1>6. \A g \in Funcs : Runs(c0, g) <=> g = f
  BY <1>d, <1>4 DEF Runs
<1>7. Queues' = Queues
  BY <1>3 DEF Queues
<1>8. Live = {g \in Funcs : \E c \in Cos : Runs(c, g)} /\ Live' = {g \in Funcs : \E c \in Cos : Runs(c, g)'}
  BY DEF Live, Runs
<1>9. CASE f \in Funcs
  <2>1. f # None /\ finished' = finished \cup {f} /\ f \in posted
    BY <1>3, <1>4, <1>6, <1>9, TokenFacts DEF FuncInv
  <2>2. FuncInv'
    BY <1>3, <1>5, <2>1 DEF FuncInv
  <2>3. f \in Live /\ Live' = Live \ {f}
    BY <1>4, <1>5, <1>6, <1>8, <1>9 DEF FuncInv
  <2>4. Abstract!End(f)
    BY <1>7, <2>1, <2>3 DEF Abstract!End
  <2> QED
    BY <1>9, <2>2, <2>4 DEF Abstract!Next
<1>10. CASE f = None
  <2>1. finished' = finished /\ f \notin Funcs
    BY <1>3, <1>10, TokenFacts
  <2>2. \A c \in Cos, g \in Funcs : Runs(c, g)' <=> Runs(c, g)
    BY <1>5, <1>6, <2>1
  <2>3. \A g \in Funcs, v \in Workers : AtMostOnce(tasks[v], g)
    BY DEF FuncInv
  <2> QED
    BY <1>3, <2>1, <2>2, <2>3, FuncQuiet
<1> QED
  BY <1>3, <1>9, <1>10

\* A coroutine that yields is still in the middle of its function.
LEMMA YieldKeeps ==
  ASSUME CoInv, FuncInv, NEW w \in Workers, ParkIO(w) \/ SleepYield(w)
  PROVE  FuncInv' /\ [Abstract!Next]_AbsVars
<1>1. CoTyped /\ Running
  BY DEF CoInv
<1>c. PICK c0 : c0 = cur[w]
  OBVIOUS
<1>2. /\ pc[w] \in {"run", "armed"} /\ state' = [state EXCEPT ![c0] = "SUSPEND"]
      /\ UNCHANGED <<fn, tasks, posted, finished>>
  BY <1>c DEF ParkIO, SleepYield, CanYield, Suspend, history
<1>3. c0 \in Cos /\ state[c0] = "RUNNING"
  BY <1>1, <1>c, <1>2 DEF CoTyped, Running
<1>4. \A f \in Funcs, c \in Cos : Runs(c, f)' <=> Runs(c, f)
  BY <1>1, <1>2, <1>3 DEF Runs, CoTyped
<1>5. \A f \in Funcs, v \in Workers : AtMostOnce(tasks[v], f)
  BY DEF FuncInv
<1> QED
  BY <1>2, <1>4, <1>5, FuncQuiet

\* Wake-ups and coroutines that are queued are no functions.
LEMMA WakesAreNoFuncs ==
  ASSUME CoInv, FuncInv, NEW w \in Workers, RunWake(w) \/ Expired(w) \/ Events(w)
  PROVE  FuncInv' /\ [Abstract!Next]_AbsVars
<1>1. CoTyped /\ Running /\ ReadyParked
  BY DEF CoInv
<1>2. CASE RunWake(w)
  <2>c. PICK c0 : c0 = cur[w]
    OBVIOUS
  <2>d. PICK f : f = fn[c0]
    OBVIOUS
  <2>e. PICK c2, h : c2 = f.co /\ h = f.home
    OBVIOUS
  <2>1. /\ f \in Wakes /\ fn' = [fn EXCEPT ![c0] = None]
        /\ tasks' = [tasks EXCEPT ![h] = Append(@, c2)]
        /\ UNCHANGED <<state, posted, finished>> /\ pc[w] = "run"
    BY <1>2, <2>c, <2>d, <2>e DEF RunWake, AddTask, PushBack, history
  <2>2. c2 \in Cos /\ h \in Workers /\ c2 \notin Funcs /\ f \notin Funcs /\ None \notin Funcs
    BY <2>1, <2>e, TokenFacts
  <2>3. c0 \in Cos
    BY <2>c, <2>1, RunningFacts
  <2>4. \A g \in Funcs, c \in Cos : Runs(c, g)' <=> Runs(c, g)
    BY <1>1, <2>d, <2>1, <2>2, <2>3 DEF Runs, CoTyped
  <2>5. tasks[h] \in Seq(Cos \cup Func) /\ <<c2>> \in Seq(Cos \cup Func)
    BY <1>1, <2>2 DEF CoTyped
  <2>6. Append(tasks[h], c2) = tasks[h] \o <<c2>>
    BY <2>2, <2>5, AppendIsConcat
  <2>7. tasks' = [tasks EXCEPT ![h] = @ \o <<c2>>]
    BY <2>1, <2>6
  <2>8. \A i \in 1 .. Len(<<c2>>) : <<c2>>[i] \notin Funcs
    BY <2>2
  <2> QED
    BY <1>1, <2>1, <2>2, <2>4, <2>5, <2>7, <2>8, FuncQuietPush
<1>3. CASE Expired(w)
  <2>c. PICK p : p = SubSeq(timers, 1, due)
    OBVIOUS
  <2>1. tasks' = [tasks EXCEPT ![w] = @ \o p] /\ UNCHANGED <<fn, state, posted, finished>>
    BY <1>3, <2>c DEF Expired, coVars, history
  <2>2. p \in Seq(Wakes)
    BY <1>1, <2>c, OccursSplit DEF CoTyped
  <2>3. p \in Seq(Cos \cup Func)
    BY <2>2 DEF Func
  <2>4. \A i \in 1 .. Len(p) : p[i] \notin Funcs
    BY <2>2, ElementOfSeq, TokenFacts
  <2>5. \A g \in Funcs, c \in Cos : Runs(c, g)' <=> Runs(c, g)
    BY <2>1 DEF Runs
  <2> QED
    BY <1>1, <2>1, <2>3, <2>4, <2>5, FuncQuietPush
<1>4. CASE Events(w)
  <2>c. PICK R : R = ready[w].io
    OBVIOUS
  <2>1. PICK p \in SetToSeqs(R) : tasks' = [tasks EXCEPT ![w] = @ \o p]
    BY <1>4, <2>c DEF Events
  <2>2. UNCHANGED <<fn, state, posted, finished>>
    BY <1>4 DEF Events, coVars, history
  <2>3. R \subseteq Cos
    BY <1>1, <2>c DEF CoTyped
  <2>4. p \in Seq(R)
    BY <2>1, <2>3, WorkerAssumption, FS_Subset, OccursPermutation
  <2>5. p \in Seq(Cos \cup Func)
    BY <2>3, <2>4
  <2>6. \A i \in 1 .. Len(p) : p[i] \notin Funcs
    BY <2>3, <2>4, ElementOfSeq, TokenFacts
  <2>7. \A g \in Funcs, c \in Cos : Runs(c, g)' <=> Runs(c, g)
    BY <2>2 DEF Runs
  <2> QED
    BY <1>1, <2>1, <2>2, <2>5, <2>6, <2>7, FuncQuietPush
<1> QED
  BY <1>2, <1>3, <1>4

\* A worker's step is a step of RunQueue or moves no function.
LEMMA WorkerStepRuns ==
  ASSUME CoInv, FuncInv, NEW w \in Workers, WorkerStep(w)
  PROVE  FuncInv' /\ [Abstract!Next]_AbsVars
<1>1. CASE EnterIdle(w) \/ Quit(w)
  <2>1. tasks[w] = <<>> /\ DropHead(w) /\ CoTyped
    BY <1>1, NothingMeansEmpty DEF EnterIdle, Quit, CoInv
  <2>2. tasks' = tasks
    BY <2>1 DEF DropHead, CoTyped
  <2> QED
    BY <1>1, <2>2, StillSteps DEF EnterIdle, Quit, coVars, history
<1>2. CASE \/ RunStart(w) \/ SleepArm(w)
           \/ GetExpire(w) \/ HasTask(w) \/ IdleExit(w) \/ KeepGoing(w) \/ SetPolling(w) \/ EpollWait(w)
  <2>1. UNCHANGED <<tasks, state, fn, posted, finished>>
    BY <1>2 DEF RunStart, SleepArm, GetExpire, HasTask, IdleExit, KeepGoing, SetPolling, EpollWait,
                coVars, history
  <2> QED
    BY <2>1, StillSteps
<1>3. CASE TakeCo(w)
  BY <1>3, TakeCoStarts
<1>4. CASE TakeFunc(w)
  BY <1>4, TakeFuncStarts
<1>5. CASE Finish(w)
  BY <1>5, FinishEnds
<1>6. CASE ParkIO(w) \/ SleepYield(w)
  BY <1>6, YieldKeeps
<1>7. CASE RunWake(w) \/ Expired(w) \/ Events(w)
  BY <1>7, WakesAreNoFuncs
<1> QED
  BY <1>1, <1>2, <1>3, <1>4, <1>5, <1>6, <1>7 DEF WorkerStep, RunLoop, Body, IdleLoop

\* Notifications, stop() and time move no function.
LEMMA OthersRun ==
  ASSUME CoTyped, FuncInv,
         \/ \E t \in Threads : Notify(t)
         \/ \E t \in Threads : \E w : WorkerStop(t, w)
         \/ Tick
         \/ UNCHANGED vars
  PROVE  FuncInv' /\ [Abstract!Next]_AbsVars
<1>1. UNCHANGED <<tasks, state, fn, posted, finished>>
  BY DEF Notify, NotifyCheck, NotifyWrite, WorkerStop, Tick, vars, coVars, history
<1> QED
  BY <1>1, StillSteps

\* At the start all queues are empty.
LEMMA FuncInvInit == Init => FuncInv /\ Abstract!Init
<1> SUFFICES ASSUME Init PROVE FuncInv /\ Abstract!Init
  OBVIOUS
<1> USE DEF Init
<1>1. \A f \in Funcs, c \in Cos : ~Runs(c, f)
  BY DEF Runs
<1>2. \A f \in Funcs, w \in Workers : ~Occurs(tasks[w], f) /\ AtMostOnce(tasks[w], f)
  BY DEF Occurs, AtMostOnce
<1>3. FuncInv
  BY <1>1, <1>2 DEF FuncInv
<1>4. Queues = [w \in Workers |-> <<>>]
  BY FuncsInEmpty DEF Queues
<1>5. Live = {}
  BY <1>1 DEF Live, Runs
<1> QED
  BY <1>3, <1>4, <1>5 DEF Abstract!Init

\* Every function that addTask got is started by its worker, in order, and ends at
\* most once: the workers implement RunQueue, whatever their number, wherever the
\* coroutines yield, however the timers expire and whenever stop() comes.
THEOREM ImplementsRunQueue == Spec => RunsInOrder
<1>1. CoInv /\ FuncInv /\ [Next]_vars => FuncInv' /\ [Abstract!Next]_<<Queues, Live, finished>>
  <2> SUFFICES ASSUME CoInv, FuncInv, [Next]_vars PROVE FuncInv' /\ [Abstract!Next]_AbsVars
    BY DEF AbsVars
  <2>1. CASE \E w \in Workers : WorkerStep(w)
    BY <2>1, WorkerStepRuns
  <2>2. CASE \E t \in Threads, w \in Workers, f \in Funcs : Post(t, w, f)
    BY <2>2, PostAdds DEF CoInv
  <2>3. CASE \/ \E t \in Threads : Notify(t)
             \/ \E t \in Posters, w \in Workers : WorkerStop(t, w)
             \/ Tick
             \/ UNCHANGED vars
    BY <2>3, OthersRun DEF CoInv, Threads
  <2> QED
    BY <2>1, <2>2, <2>3 DEF Next
<1> QED
  BY <1>1, FuncInvInit, CoInvInit, CoInvNext, PTL DEF Spec, RunsInOrder, Abstract!Spec

\* The same when the scheduler starts and stops the workers.
THEOREM SchedulerRunsInOrder == SchSpec => RunsInOrder
<1>1. CoInv /\ FuncInv /\ [SchNext]_allVars => FuncInv' /\ [Abstract!Next]_<<Queues, Live, finished>>
  <2> SUFFICES ASSUME CoInv, FuncInv, [SchNext]_allVars PROVE FuncInv' /\ [Abstract!Next]_AbsVars
    BY DEF AbsVars
  <2>1. CASE \E w \in Workers : WorkerStep(w)
    BY <2>1, WorkerStepRuns
  <2>2. CASE \E t \in Threads, w \in Workers, f \in Funcs : Post(t, w, f)
    BY <2>2, PostAdds DEF CoInv
  <2>3. CASE \/ \E t \in Threads : Notify(t)
             \/ \E t \in Threads : \E w : WorkerStop(t, w)
             \/ Tick
             \/ UNCHANGED vars
    BY <2>3, OthersRun DEF CoInv
  <2>4. CASE \E t \in Threads : StopEnter(t) \/ StopStep(t)
    BY <2>3, <2>4 DEF StopEnter, StopStep, StopWorker, StopJoin
  <2>5. CASE StartAsync \/ InitDone \/ JoinAll \/ (\E w \in ThreadWorkers : InitSpawn(w)) \/ UNCHANGED allVars
    BY <2>3, <2>5 DEF StartAsync, InitDone, JoinAll, InitSpawn, allVars
  <2>6. CASE (\E w \in Workers : Step(w)) \/ \E t \in Threads, w \in Workers, f \in Funcs : SchPost(t, w, f)
    BY <2>1, <2>2, <2>6 DEF Step, SchPost
  <2> QED
    BY <2>3, <2>4, <2>5, <2>6 DEF SchNext
<1>2. SchInit => Init
  BY DEF SchInit
<1> QED
  BY <1>1, <1>2, FuncInvInit, CoInvInit, CoInvSchNext, PTL DEF SchSpec, RunsInOrder, Abstract!Spec
=============================================================================
