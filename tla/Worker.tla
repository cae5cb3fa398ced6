------------------------------- MODULE Worker -------------------------------
(***************************************************************************)
(* The workers of a scheduler: Worker::run, idle, canStop, addTask, stop   *)
(* and notify, the part of Epoller::wait and Epoller::notify that decides  *)
(* whether a sleeping worker is woken, Coroutine::resume/yield/Entry and   *)
(* the reuse of a finished coroutine, and the hooked sleep() calls.        *)
(*                                                                         *)
(* A worker is one thread.  Everything its coroutines do between two       *)
(* accesses to state other threads can see is one step; taking the worker  *)
(* mutex, reading polling_, writing the eventfd, and each of the three     *)
(* reads of canStop are steps of their own.                                *)
(*                                                                         *)
(* Time is abstract: timers_ is the sequence of armed wake-ups ordered by  *)
(* expire_, and its first `due' entries have expired.  A timer may be      *)
(* inserted anywhere, which covers every choice of intervals.              *)
(***************************************************************************)
EXTENDS Naturals, Sequences, FiniteSets, SequencesExt

CONSTANTS
  Workers,        \* Worker objects, each run by a thread of its own
  ThreadWorkers,  \* the ones owned by Scheduler::threads_ (not mainWorker_)
  Posters,        \* threads that are not workers and call addTask and stop
  Funcs,          \* functions handed to addTask, each at most once
  Cos,            \* coroutine identities, recycled when unreferenced
  MaxNaps,        \* bound on the number of sleep() calls
  None            \* nullptr

\* A task is a coroutine, a function or a wake-up (see Wakes).
ASSUME WorkerAssumption ==
  /\ ThreadWorkers \subseteq Workers
  /\ MaxNaps \in Nat
  /\ IsFiniteSet(Workers) /\ IsFiniteSet(Cos) /\ IsFiniteSet(Funcs)
  /\ Workers \cap Posters = {}
  /\ Cos \cap Funcs = {}
  /\ None \notin Cos \cup Funcs
  /\ \A x \in Cos \cup Funcs \cup {None} : x \notin [co : Cos, home : Workers]

VARIABLES
  pc,        \* where the worker's thread is
  tasks,     \* Worker::tasks_
  running,   \* Worker::running_
  idle,      \* Worker::idle_
  idleDone,  \* the idle coroutine's state is DONE
  polling,   \* Epoller::polling_
  eventfd,   \* the eventfd counter is not zero
  noTimer,   \* idle()'s timeout == -1; FALSE once out of scope
  hasTask,   \* canStop's has_task; FALSE once out of scope
  ready,     \* what epoll_wait returned
  parked,    \* coroutines held by the worker's IOEvents
  cur,       \* t_curCoroutine, None for the main coroutine
  coFunc,    \* the spare coroutine of Worker::run
  state,     \* Coroutine::state_
  fn,        \* Coroutine::func_
  timers,    \* TimeManager::timers_, by expire_
  due,       \* how many of them have expired
  call,      \* notify() calls a thread still has to make
  naps,      \* sleep() calls made so far
  posted,    \* functions handed to addTask
  finished   \* functions that returned or threw

workerVars == <<pc, running, idle, idleDone, polling, noTimer, hasTask, ready>>
coVars     == <<cur, coFunc, state, fn>>
timerVars  == <<timers, due, naps>>
history    == <<posted, finished>>
vars == <<workerVars, tasks, eventfd, parked, coVars, timerVars, call, history>>

Threads == Workers \cup Posters

\* sleep() binds Worker::addTask to its worker and its coroutine.
Wakes == [co : Cos, home : Workers]
Func  == Funcs \cup Wakes

IdleCall == [todo |-> <<>>, hit |-> FALSE]
NoEvents == [evfd |-> FALSE, io |-> {}]

-----------------------------------------------------------------------------
\* The TimeManager mutex is held while timerInsertAtFront notifies.
TimerLockFree == \A v \in Workers : ~(pc[v] = "armed" /\ call[v] # IdleCall)

\* A shared_ptr to coroutine c is held by a queue, a timer, an IOEvent, the
\* body of a wake-up that has not run, or a spare.
Wakers(c) ==
  {<<"io", v>> : v \in {v \in Workers : c \in parked[v]}}
  \cup {<<"timer", i>> : i \in {i \in DOMAIN timers : timers[i].co = c}}
  \cup (UNION {{<<"task", v, i>> : i \in {i \in DOMAIN tasks[v] :
                   \/ tasks[v][i] = c
                   \/ tasks[v][i] \in Wakes /\ tasks[v][i].co = c}} : v \in Workers})
  \cup {<<"body", d>> : d \in {d \in Cos : state[d] = "RUNNING" /\ fn[d] \in Wakes
                                           /\ fn[d].co = c}}

\* A coroutine that is suspended holds itself, on its own stack.
Unreferenced(c) ==
  /\ state[c] # "SUSPEND" /\ Wakers(c) = {}
  /\ \A v \in Workers : cur[v] # c /\ coFunc[v] # c

Init ==
  /\ pc = [w \in Workers |-> "start"]
  /\ tasks = [w \in Workers |-> <<>>]
  /\ running = [w \in Workers |-> FALSE]
  /\ idle = [w \in Workers |-> FALSE]
  /\ idleDone = [w \in Workers |-> FALSE]
  /\ polling = [w \in Workers |-> FALSE]
  /\ eventfd = [w \in Workers |-> FALSE]
  /\ noTimer = [w \in Workers |-> FALSE]
  /\ hasTask = [w \in Workers |-> FALSE]
  /\ ready = [w \in Workers |-> NoEvents]
  /\ parked = [w \in Workers |-> {}]
  /\ cur = [w \in Workers |-> None]
  /\ coFunc = [w \in Workers |-> None]
  /\ state = [c \in Cos |-> "INIT"]
  /\ fn = [c \in Cos |-> None]
  /\ timers = <<>> /\ due = 0 /\ naps = 0
  /\ call = [t \in Threads |-> IdleCall]
  /\ posted = {} /\ finished = {}

-----------------------------------------------------------------------------
(* Worker::addTask and Worker::notify, from any thread *)

\* Mutant of PushBack: the task is put at the front of the queue.
PushFront(queue, task) == <<task>> \o queue

PushBack(queue, task) == Append(queue, task)

\* addTask under the worker mutex, and whether notify() has to follow.
AddTask(t, w, task) ==
  /\ tasks' = [tasks EXCEPT ![w] = PushBack(@, task)]
  /\ call' = IF tasks[w] = <<>> \/ idle[w]
               THEN [call EXCEPT ![t].todo = <<w>>]
               ELSE call

\* Threads outside the scheduler, and coroutines, add functions.
Post(t, w, f) ==
  /\ f \notin posted
  /\ call[t] = IdleCall
  /\ t \in Workers => pc[t] = "run" /\ fn[cur[t]] \in Funcs
  /\ AddTask(t, w, f)
  /\ posted' = posted \cup {f}
  /\ UNCHANGED <<workerVars, eventfd, parked, coVars, timerVars, finished>>

\* Epoller::notify reads polling_ ...; timerInsertAtFront asks isIdle first.
NotifyCheck(t) ==
  /\ call[t].todo # <<>> /\ ~call[t].hit
  /\ LET w == Head(call[t].todo)
         inTimer == t \in Workers /\ pc[t] = "armed"
     IN call' = IF polling[w] /\ (inTimer => idle[w])
                  THEN [call EXCEPT ![t].hit = TRUE]
                  ELSE [call EXCEPT ![t].todo = Tail(@)]
  /\ UNCHANGED <<workerVars, tasks, eventfd, parked, coVars, timerVars, history>>

\* ... and writes the eventfd if it was set.
NotifyWrite(t) ==
  /\ call[t].hit
  /\ eventfd' = [eventfd EXCEPT ![Head(call[t].todo)] = TRUE]
  /\ call' = [call EXCEPT ![t] = [todo |-> Tail(@.todo), hit |-> FALSE]]
  /\ UNCHANGED <<workerVars, tasks, parked, coVars, timerVars, history>>

\* Worker::stop.
WorkerStop(t, w) ==
  /\ call[t] = IdleCall
  /\ running' = [running EXCEPT ![w] = FALSE]
  /\ call' = [call EXCEPT ![t].todo = <<w>>]
  /\ UNCHANGED <<pc, idle, idleDone, polling, noTimer, hasTask, ready, tasks,
                 eventfd, parked, coVars, timerVars, history>>

-----------------------------------------------------------------------------
(* Worker::run *)

RunStart(w) ==
  /\ pc[w] = "start"
  /\ pc' = [pc EXCEPT ![w] = "take"]
  /\ running' = [running EXCEPT ![w] = TRUE]
  /\ UNCHANGED <<idle, idleDone, polling, noTimer, hasTask, ready, tasks, eventfd,
                 parked, coVars, timerVars, call, history>>

\* The task at the head of the queue is taken and resumed: a coroutine ...
TakeCo(w) ==
  /\ pc[w] = "take" /\ tasks[w] # <<>>
  /\ LET c == Head(tasks[w]) IN
       /\ c \in Cos /\ state[c] \notin {"DONE", "EXCEPT"}
       /\ state' = [state EXCEPT ![c] = "RUNNING"]
       /\ cur' = [cur EXCEPT ![w] = c]
  /\ tasks' = [tasks EXCEPT ![w] = Tail(@)]
  /\ pc' = [pc EXCEPT ![w] = "run"]
  /\ UNCHANGED <<running, idle, idleDone, polling, noTimer, hasTask, ready, eventfd,
                 parked, coFunc, fn, timerVars, call, history>>

\* ... or a function, in the spare coroutine or in a new one.
TakeFunc(w) ==
  /\ pc[w] = "take" /\ tasks[w] # <<>> /\ Head(tasks[w]) \in Func
  /\ LET fresh == {c \in Cos : Unreferenced(c)}
         c == IF coFunc[w] # None THEN coFunc[w] ELSE CHOOSE d \in fresh : TRUE
     IN /\ coFunc[w] = None => fresh # {}
        /\ coFunc' = [coFunc EXCEPT ![w] = c]
        /\ cur' = [cur EXCEPT ![w] = c]
        /\ state' = [state EXCEPT ![c] = "RUNNING"]
        /\ fn' = [fn EXCEPT ![c] = Head(tasks[w])]
  /\ tasks' = [tasks EXCEPT ![w] = Tail(@)]
  /\ pc' = [pc EXCEPT ![w] = "run"]
  /\ UNCHANGED <<running, idle, idleDone, polling, noTimer, hasTask, ready, eventfd,
                 parked, timerVars, call, history>>

\* Nothing to resume: the queue is empty, or its head is a finished coroutine.
NothingToResume(w) ==
  tasks[w] # <<>> =>
    Head(tasks[w]) \in Cos /\ state[Head(tasks[w])] \in {"DONE", "EXCEPT"}

DropHead(w) == tasks' = [tasks EXCEPT ![w] = IF @ = <<>> THEN @ ELSE Tail(@)]

EnterIdle(w) ==
  /\ pc[w] = "take" /\ NothingToResume(w) /\ ~idleDone[w]
  /\ DropHead(w)
  /\ idle' = [idle EXCEPT ![w] = TRUE]
  /\ pc' = [pc EXCEPT ![w] = "getExpire"]
  /\ UNCHANGED <<running, idleDone, polling, noTimer, hasTask, ready, eventfd,
                 parked, coVars, timerVars, call, history>>

Quit(w) ==
  /\ pc[w] = "take" /\ NothingToResume(w) /\ idleDone[w]
  /\ DropHead(w)
  /\ pc' = [pc EXCEPT ![w] = "exit"]
  /\ UNCHANGED <<running, idle, idleDone, polling, noTimer, hasTask, ready, eventfd,
                 parked, coVars, timerVars, call, history>>

-----------------------------------------------------------------------------
(* What the resumed coroutine does *)

\* Coroutine::Entry after func_ returned or threw.
Finish(w) ==
  /\ pc[w] = "run" /\ call[w] = IdleCall /\ fn[cur[w]] \in Funcs \cup {None}
  /\ \E end \in {"DONE", "EXCEPT"} :
       /\ fn[cur[w]] = None => end = "DONE"
       /\ state' = [state EXCEPT ![cur[w]] = end]
       /\ fn' = IF end = "DONE" THEN [fn EXCEPT ![cur[w]] = None] ELSE fn
  /\ finished' = finished \cup ({fn[cur[w]]} \ {None})
  /\ cur' = [cur EXCEPT ![w] = None]
  /\ pc' = [pc EXCEPT ![w] = "take"]
  /\ UNCHANGED <<running, idle, idleDone, polling, noTimer, hasTask, ready, tasks,
                 eventfd, parked, coFunc, timerVars, call, posted>>

\* The body of a wake-up function: Worker::addTask(co) on the sleeper's worker.
RunWake(w) ==
  /\ pc[w] = "run" /\ fn[cur[w]] \in Wakes
  /\ AddTask(w, fn[cur[w]].home, fn[cur[w]].co)
  /\ fn' = [fn EXCEPT ![cur[w]] = None]
  /\ UNCHANGED <<workerVars, eventfd, parked, cur, coFunc, state, timerVars, history>>

\* Mutant of SpareAfterYield: run() keeps the suspended coroutine for reuse.
KeepSpare(w) == coFunc[w]

\* run() gives up its spare coroutine when it comes back suspended.
SpareAfterYield(w) == IF coFunc[w] = cur[w] THEN None ELSE coFunc[w]

\* YieldToSuspend, and the return to run().
Suspend(w) ==
  /\ state' = [state EXCEPT ![cur[w]] = "SUSPEND"]
  /\ coFunc' = [coFunc EXCEPT ![w] = SpareAfterYield(w)]
  /\ cur' = [cur EXCEPT ![w] = None]
  /\ pc' = [pc EXCEPT ![w] = "take"]
  /\ UNCHANGED fn

CanYield(w) == pc[w] = "run" /\ call[w] = IdleCall /\ fn[cur[w]] \in Funcs

\* A socket call that would block: AddEvent, then yield.
ParkIO(w) ==
  /\ CanYield(w)
  /\ parked' = [parked EXCEPT ![w] = @ \cup {cur[w]}]
  /\ Suspend(w)
  /\ UNCHANGED <<running, idle, idleDone, polling, noTimer, hasTask, ready, tasks,
                 eventfd, timerVars, call, history>>

\* sleep(): addTimer, timerInsertAtFront if the timer is the first ...
SleepArm(w) ==
  /\ CanYield(w) /\ TimerLockFree /\ naps < MaxNaps
  /\ naps' = naps + 1
  /\ \E i \in 1 .. Len(timers) + 1 :
       /\ timers' = InsertAt(timers, i, [co |-> cur[w], home |-> w])
       /\ due' = IF i <= due THEN due + 1 ELSE due
       /\ call' = IF i = 1 THEN [call EXCEPT ![w].todo = SetToSeq(ThreadWorkers)]
                           ELSE call
  /\ pc' = [pc EXCEPT ![w] = "armed"]
  /\ UNCHANGED <<running, idle, idleDone, polling, noTimer, hasTask, ready, tasks,
                 eventfd, parked, coVars, history>>

\* ... then YieldToSuspend.
SleepYield(w) ==
  /\ pc[w] = "armed" /\ call[w] = IdleCall
  /\ Suspend(w)
  /\ UNCHANGED <<running, idle, idleDone, polling, noTimer, hasTask, ready, tasks,
                 eventfd, parked, timerVars, call, history>>

-----------------------------------------------------------------------------
(* Worker::idle, canStop and Epoller::wait, in the idle coroutine *)

GetExpire(w) ==
  /\ pc[w] = "getExpire" /\ TimerLockFree
  /\ noTimer' = [noTimer EXCEPT ![w] = timers = <<>>]
  /\ pc' = [pc EXCEPT ![w] = "hasTask"]
  /\ UNCHANGED <<running, idle, idleDone, polling, hasTask, ready, tasks, eventfd,
                 parked, coVars, timerVars, call, history>>

HasTask(w) ==
  /\ pc[w] = "hasTask"
  /\ hasTask' = [hasTask EXCEPT ![w] = tasks[w] # <<>>]
  /\ pc' = [pc EXCEPT ![w] = "canStop"]
  /\ UNCHANGED <<running, idle, idleDone, polling, noTimer, ready, tasks, eventfd,
                 parked, coVars, timerVars, call, history>>

\* Mutant of CanStop: pending timers are ignored too.
CanStopWithTimer(w) == ~running[w] /\ ~hasTask[w]

\* canStop's answer; coroutines waiting for IO are ignored.
CanStop(w) == ~running[w] /\ ~hasTask[w] /\ noTimer[w]

\* The idle coroutine returns: its state becomes DONE.
IdleExit(w) ==
  /\ pc[w] = "canStop" /\ CanStop(w)
  /\ idleDone' = [idleDone EXCEPT ![w] = TRUE]
  /\ idle' = [idle EXCEPT ![w] = FALSE]
  /\ pc' = [pc EXCEPT ![w] = "take"]
  /\ noTimer' = [noTimer EXCEPT ![w] = FALSE]
  /\ UNCHANGED <<running, polling, hasTask, ready, tasks, eventfd, parked,
                 coVars, timerVars, call, history>>

\* canStop is false; polling_ is not set yet.
KeepGoing(w) ==
  /\ pc[w] = "canStop" /\ ~CanStop(w)
  /\ pc' = [pc EXCEPT ![w] = "enterWait"]
  /\ hasTask' = [hasTask EXCEPT ![w] = FALSE]
  /\ UNCHANGED <<running, idle, idleDone, polling, noTimer, ready, tasks,
                 eventfd, parked, coVars, timerVars, call, history>>

SetPolling(w) ==
  /\ pc[w] = "enterWait"
  /\ polling' = [polling EXCEPT ![w] = TRUE]
  /\ pc' = [pc EXCEPT ![w] = "wait"]
  /\ UNCHANGED <<running, idle, idleDone, noTimer, hasTask, ready, tasks, eventfd,
                 parked, coVars, timerVars, call, history>>

\* Mutant of Timeout: without a timer, epoll_wait is called with -1.
TimeoutUncapped(w) == IF noTimer[w] THEN "never" ELSE "next timer"

\* What wait() makes of the time to the next timer: kMaxTimeout when there is
\* none, at most kMaxTimeout otherwise.
Timeout(w) == IF noTimer[w] THEN "kMaxTimeout" ELSE "next timer"

\* epoll_wait returns what is ready, or nothing on a timeout; polling_ is cleared.
EpollWait(w) ==
  /\ pc[w] = "wait"
  /\ \E io \in SUBSET parked[w] :
       /\ eventfd[w] \/ io # {} \/ Timeout(w) # "never"
       /\ ready' = [ready EXCEPT ![w] = [evfd |-> eventfd[w], io |-> io]]
  /\ polling' = [polling EXCEPT ![w] = FALSE]
  /\ pc' = [pc EXCEPT ![w] = "expired"]
  /\ noTimer' = [noTimer EXCEPT ![w] = FALSE]
  /\ UNCHANGED <<running, idle, idleDone, hasTask, tasks, eventfd, parked,
                 coVars, timerVars, call, history>>

\* Mutant of NotDue: the expired timers are not erased.
NothingErased == timers

\* What expiredFunctions leaves in timers_.
NotDue == SubSeq(timers, due + 1, Len(timers))

\* expiredFunctions, then addTask(begin, end): the notify() it makes under the
\* worker mutex finds polling_ cleared.
Expired(w) ==
  /\ pc[w] = "expired" /\ TimerLockFree
  /\ tasks' = [tasks EXCEPT ![w] = @ \o SubSeq(timers, 1, due)]
  /\ timers' = NotDue
  /\ due' = 0
  /\ pc' = [pc EXCEPT ![w] = "events"]
  /\ UNCHANGED <<running, idle, idleDone, polling, noTimer, hasTask, ready, eventfd,
                 parked, coVars, naps, call, history>>

\* The returned events: the eventfd is drained, the coroutines of ready
\* IOEvents go back to the queue; then the idle coroutine yields.
Events(w) ==
  /\ pc[w] = "events"
  /\ \E order \in SetToSeqs(ready[w].io) :
       tasks' = [tasks EXCEPT ![w] = @ \o order]
  /\ parked' = [parked EXCEPT ![w] = @ \ ready[w].io]
  /\ eventfd' = [eventfd EXCEPT ![w] = @ /\ ~ready[w].evfd]
  /\ ready' = [ready EXCEPT ![w] = NoEvents]
  /\ idle' = [idle EXCEPT ![w] = FALSE]
  /\ pc' = [pc EXCEPT ![w] = "take"]
  /\ UNCHANGED <<running, idleDone, polling, noTimer, hasTask, coVars, timerVars,
                 call, history>>

\* Time passes: the next timer's expire_ is reached.
Tick ==
  /\ due < Len(timers)
  /\ due' = due + 1
  /\ UNCHANGED <<workerVars, tasks, eventfd, parked, coVars, timers, naps, call, history>>

-----------------------------------------------------------------------------
RunLoop(w) == TakeCo(w) \/ TakeFunc(w) \/ EnterIdle(w) \/ Quit(w)
Body(w) == Finish(w) \/ RunWake(w) \/ ParkIO(w) \/ SleepArm(w) \/ SleepYield(w)
IdleLoop(w) == GetExpire(w) \/ HasTask(w) \/ IdleExit(w) \/ KeepGoing(w)
               \/ SetPolling(w) \/ EpollWait(w) \/ Expired(w) \/ Events(w)
WorkerStep(w) == RunStart(w) \/ RunLoop(w) \/ Body(w) \/ IdleLoop(w)
Notify(t) == NotifyCheck(t) \/ NotifyWrite(t)

Next ==
  \/ \E w \in Workers : WorkerStep(w)
  \/ \E t \in Threads : Notify(t)
  \/ \E t \in Threads, w \in Workers, f \in Funcs : Post(t, w, f)
  \/ \E t \in Posters, w \in Workers : running[w] /\ WorkerStop(t, w)
  \/ Tick

Spec == Init /\ [][Next]_vars

\* A thread that can take a step takes one, a coroutine's body returns or
\* yields, notify() calls are completed and time passes.
Fairness ==
  /\ \A w \in Workers : WF_vars(WorkerStep(w))
  /\ \A t \in Threads : WF_vars(Notify(t))
  /\ WF_vars(Tick)

FairSpec == Spec /\ Fairness

-----------------------------------------------------------------------------
(* Properties *)

\* A coroutine that has called sleep() but has not switched away yet.
FallingAsleep(c) == \E w \in Workers : pc[w] = "armed" /\ cur[w] = c

\* Each suspended coroutine is held by exactly one of: an IOEvent, a timer, a
\* wake-up function that is queued or running, a queue.  With none it would never
\* be resumed, and leak with its stack; with two it would be resumed again after it
\* moved on.  No other coroutine is held by any of them.
OneWaker ==
  \A c \in Cos :
    Cardinality(Wakers(c)) = IF state[c] = "SUSPEND" \/ FallingAsleep(c) THEN 1 ELSE 0

\* The coroutine run() keeps for the next function has finished, and nothing
\* else can resume it: the assertions of Coroutine::reuse and resume hold.
SpareIsDone ==
  \A w \in Workers : coFunc[w] # None /\ coFunc[w] # cur[w] =>
    /\ state[coFunc[w]] \in {"DONE", "EXCEPT"}
    /\ Wakers(coFunc[w]) = {}
    /\ \A v \in Workers \ {w} : coFunc[v] # coFunc[w]

\* Queue and coroutine table as a table of runs, see RunQueue.
FuncsIn(q) == FlattenSeq([i \in DOMAIN q |-> IF q[i] \in Funcs THEN <<q[i]>> ELSE <<>>])
Queues == [w \in Workers |-> FuncsIn(tasks[w])]
Live == {f \in Funcs : \E c \in Cos : fn[c] = f /\ state[c] \in {"RUNNING", "SUSPEND"}}
Abstract == INSTANCE RunQueue WITH queue <- Queues, live <- Live, done <- finished

\* Every function is run exactly once, each worker starting the ones in its
\* queue in the order addTask received them.
RunsInOrder == Abstract!Spec

Queued(f, w) == f \in Range(tasks[w])

\* A function added to a worker that was not stopped yet is started, even if
\* the notification was lost or stop() comes right after it.
TaskRuns ==
  \A w \in Workers, f \in Funcs : Queued(f, w) /\ running[w] ~> ~Queued(f, w)

\* A coroutine that calls sleep() before its worker's idle coroutine has ended
\* runs again, also when stop() has been called: canStop waits for the timers.
SleepersFinish ==
  \A w \in Workers, c \in Cos :
    pc[w] = "armed" /\ cur[w] = c /\ ~idleDone[w] ~> pc[w] = "run" /\ cur[w] = c

\* Another worker has the wake-up function of w's sleeper c.
TakenFrom(w, c) ==
  \E v \in Workers \ {w} :
    LET wake == [co |-> c, home |-> w] IN
    wake \in Range(tasks[v]) \/ (cur[v] # None /\ fn[cur[v]] = wake)

\* A sleeper runs again, also when stop() has been called: its worker does not end
\* as long as the timer is armed.  The one way to lose it is that another worker
\* takes the timer, and still has its function when this worker has been stopped.
SleepersFinishUnlessTaken ==
  \A c \in Cos :
    (\E w \in Workers : pc[w] = "armed" /\ cur[w] = c /\ ~idleDone[w])
      ~> \E w \in Workers :
           \/ pc[w] = "run" /\ cur[w] = c
           \/ TakenFrom(w, c) /\ ~running[w] /\ ~idleDone[w]
=============================================================================
