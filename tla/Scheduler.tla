----------------------------- MODULE Scheduler ------------------------------
(***************************************************************************)
(* Scheduler::startAsync, init, stop, joinThread and wait around the       *)
(* workers of module Worker: the init thread creates the WorkerThreads,    *)
(* opens the latch startAsync waits for and becomes the main worker; stop  *)
(* tells every worker to stop and has all threads joined, by its caller or, *)
(* when the caller is a coroutine, by the join thread.                     *)
(*                                                                         *)
(* stop() is called by one thread at a time (its test of running_ and the  *)
(* assignment after it are one step here).                                 *)
(***************************************************************************)
EXTENDS Worker

CONSTANTS
  Main,       \* mainWorker_, run by the init thread
  JoinThread, \* joinThread_
  EarlyStop   \* may stop() be called before every worker has entered run()?

ASSUME SchedulerAssumption ==
  /\ Workers = ThreadWorkers \cup {Main} /\ Main \notin ThreadWorkers
  /\ ThreadWorkers # {}
  /\ JoinThread \notin Threads
  /\ EarlyStop \in BOOLEAN

VARIABLES
  schRunning, \* Scheduler::running_
  initPc,     \* the init thread: not started, in init(), in mainWorker_.run()
  threads,    \* threads_, in order of creation
  stopping,   \* per thread: its call of Scheduler::stop
  joiner,     \* the thread in Scheduler::joinThread
  quit        \* quitLatch_ is open

schVars == <<schRunning, initPc, threads, stopping, joiner, quit>>
allVars == <<vars, schVars>>

NotStopping == [at |-> "no", todo |-> <<>>]

\* workers_: the main worker is one of them only when threadNum_ is 1.
WorkerList == IF Cardinality(ThreadWorkers) = 1 THEN <<Main>> \o threads ELSE threads

SchInit ==
  /\ Init
  /\ schRunning = FALSE
  /\ initPc = "none"
  /\ threads = <<>>
  /\ stopping = [t \in Threads |-> NotStopping]
  /\ joiner = None
  /\ quit = FALSE

-----------------------------------------------------------------------------
(* startAsync and the init thread *)

StartAsync ==
  /\ initPc = "none"
  /\ initPc' = "init"
  /\ UNCHANGED <<vars, schRunning, threads, stopping, joiner, quit>>

\* new WorkerThread: its constructor waits for the thread to exist, not for
\* Worker::run to be entered.
InitSpawn(w) ==
  /\ initPc = "init" /\ w \notin Range(threads)
  /\ threads' = Append(threads, w)
  /\ UNCHANGED <<vars, schRunning, initPc, stopping, joiner, quit>>

\* running_ = true, initLatch_.countDown(); mainWorker_.run() comes next.
InitDone ==
  /\ initPc = "init" /\ Range(threads) = ThreadWorkers
  /\ schRunning' = TRUE
  /\ initPc' = "run"
  /\ UNCHANGED <<vars, threads, stopping, joiner, quit>>

\* A worker runs once its thread exists, unless its coroutine is in stop().
Step(w) ==
  /\ w \in Range(threads) \/ (w = Main /\ initPc = "run")
  /\ stopping[w].at # "stop" /\ joiner # w
  /\ WorkerStep(w)
  /\ UNCHANGED schVars

SchPost(t, w, f) ==
  /\ initPc = "run" /\ stopping[t].at # "stop" /\ joiner # t
  /\ Post(t, w, f)
  /\ UNCHANGED schVars

-----------------------------------------------------------------------------
(* Scheduler::stop and joinThread *)

StopEnter(t) ==
  /\ initPc = "run" /\ schRunning
  /\ EarlyStop \/ \A w \in Workers : pc[w] # "start"
  /\ call[t] = IdleCall
  /\ t \in Workers => pc[t] = "run" /\ fn[cur[t]] \in Funcs
  /\ schRunning' = FALSE
  /\ stopping' = [stopping EXCEPT ![t] = [at |-> "stop", todo |-> <<Main>> \o WorkerList]]
  /\ UNCHANGED <<vars, initPc, threads, joiner, quit>>

StopWorker(t) ==
  /\ stopping[t].todo # <<>>
  /\ WorkerStop(t, Head(stopping[t].todo))
  /\ stopping' = [stopping EXCEPT ![t].todo = Tail(@)]
  /\ UNCHANGED <<schRunning, initPc, threads, joiner, quit>>

\* Mutant of WhoJoins: the thread that called stop() always joins the workers.
CallerJoins(t) == t

\* On a thread with hooks, a worker, another thread has to join.
WhoJoins(t) == IF t \in Workers THEN JoinThread ELSE t

StopJoin(t) ==
  /\ stopping[t].at = "stop" /\ stopping[t].todo = <<>> /\ call[t] = IdleCall
  /\ stopping' = [stopping EXCEPT ![t].at = "done"]
  /\ joiner' = WhoJoins(t)
  /\ UNCHANGED <<vars, schRunning, initPc, threads, quit>>

\* Mutant of ToJoin: the init thread is not joined.
ToJoinWithoutInit == Range(threads)

\* initThread_ runs the main worker; then every WorkerThread.
ToJoin == {Main} \cup Range(threads)

\* joinThread returns from the last join and opens quitLatch_.
JoinAll ==
  /\ joiner # None /\ ~quit
  /\ \A w \in ToJoin : pc[w] = "exit"
  /\ quit' = TRUE
  /\ joiner' = None
  /\ UNCHANGED <<vars, schRunning, initPc, threads, stopping>>

StopStep(t) == StopWorker(t) \/ StopJoin(t)

SchNext ==
  \/ StartAsync \/ InitDone \/ JoinAll
  \/ \E w \in ThreadWorkers : InitSpawn(w)
  \/ \E w \in Workers : Step(w)
  \/ \E t \in Threads : StopEnter(t) \/ StopStep(t)
  \/ \E t \in Threads : Notify(t) /\ UNCHANGED schVars
  \/ \E t \in Threads, w \in Workers, f \in Funcs : SchPost(t, w, f)
  \/ Tick /\ UNCHANGED schVars

SchSpec ==
  /\ SchInit /\ [][SchNext]_allVars
  /\ WF_allVars(InitDone) /\ WF_allVars(JoinAll) /\ WF_allVars(Tick /\ UNCHANGED schVars)
  /\ \A w \in ThreadWorkers : WF_allVars(InitSpawn(w))
  /\ \A w \in Workers : WF_allVars(Step(w))
  /\ \A t \in Threads : WF_allVars(StopStep(t)) /\ WF_allVars(Notify(t) /\ UNCHANGED schVars)

-----------------------------------------------------------------------------
\* wait() returns only after every worker has left run(): the Scheduler, its
\* workers, their pollers and the timers may be destroyed then.
QuitAfterAllExit == quit => \A w \in Workers : pc[w] = "exit"

\* A call of stop() is followed by the quit that wait() waits for, whichever
\* thread or coroutine made it and whatever the workers' coroutines wait for.
StopTerminates == (\E t \in Threads : stopping[t].at = "stop") ~> quit
=============================================================================
