# TLA+ models of reyao

reyao is a C++ network library: stackful coroutines, a scheduler that runs them on
several threads, hooked socket calls and `sleep`, timers, and on top of these TCP,
RPC and HTTP servers and an asynchronous log. This directory holds TLA+ models of
its core (the part everything else runs on) and of these services, the TLC runs that
check them, and TLAPS proofs. `PROJECT.json` lists, for every definition, the source lines it models,
and for every run what it checks.

Run a model with `tlc -config <X>.cfg <MCModule>`, the proofs of a module with
`tlapm <Module>Proofs.tla`.

## 1. Inventory

| component | state it keeps | operations | interacts with |
|---|---|---|---|
| Worker (`worker.*`) | `tasks_`, `running_`, `idle_`, its poller | `run`, `idle`, `canStop`, `addTask`, `stop`, `notify` | resumes coroutines; any thread adds tasks and stops it; the idle coroutine polls |
| Epoller (`epoller.*`) | `ioEvents_`, `pendingEvents_`, `polling_`, epoll instance, eventfd | `addEvent`, `delEvent`, `handleEvent`, `handleAllEvent`, `wait`, `notify` | coroutines register and suspend; `wait` hands them back to the queue and takes expired timers |
| Coroutine (`coroutine.*`) | state, function, context | `resume`, `yield`, `Entry`, `reuse` | owned by a queue, an IOEvent, a timer function or the run loop |
| TimeManager, Timer (`timer.*`) | ordered set of timers | `addTimer`, `cancel`, `refresh`, `reset`, `getExpire`, `expiredFunctions` | shared by all workers; whoever polls first takes the expired functions |
| Scheduler, WorkerThread, Thread | workers, threads, two latches | `startAsync`, `init`, `stop`, `joinThread`, `wait`, `addTask`, `getNextWorker` | starts and joins the threads that run the workers |
| hook (`hook.*`) | `timerInfo` of a call in progress | `do_io`, `connect_with_timeout`, `sleep`, `close`, ... | registers with the caller's poller, arms a timer, suspends |
| FdManager, FdContext | per descriptor: flags and timeouts | `addFd`, `delFd`, `getFdContext` | hook |
| Socket | descriptor, state | `bind`, `listen`, `accept`, `connect`, `close`, options | hooked calls; owned by one coroutine |
| CoroutineCondition, CoroutineSpinLock | waiting coroutine; counter | `wait`/`notify`; `lock`/`unlock` | workers |
| ByteArray | buffer, read and write position | read, write, prepend, reset, grow | codec, HTTP parser |
| SocketStream, RPC codec, server, client | bytes of a message in progress | `send`, `receive`, `Call` | sockets |
| HTTP parser, session, servlets | parser state, servlet table | `parseRequest`, `sendResponse`, `addServlet` | sockets |
| AsyncLog, Logger | current, spare and full buffers; the appender | `append`, `threadFunc`, `start`, `stop`, `setConsoleAppender` | all threads |
| Mutex, Condition, CountDownLatch, RWLock, Address, log formatting, StackAlloc, util | | thin wrappers and formatting | |

What is hard in this code, and what makes each part correct:

* A worker is woken by an eventfd that other threads write *only if* they see
  `polling_`. Tasks and `stop()` arrive at any moment around that test. Correct: a task
  is started and a stop is obeyed whatever the order.
* A suspended coroutine is kept alive by exactly one thing that will resume it. With none it
  is never resumed and leaks; with two it is resumed after it has moved on.
* The timers are shared by all workers but a sleeper belongs to one. Correct: each
  timer is handed out once, no worker sleeps past a timer it should serve, `cancel`
  is final, and a sleeper is not forgotten when its worker stops.
* The IOEvent table mirrors the kernel's. Events are handled from a batch read earlier,
  descriptors are closed by other threads. Correct: table, kernel, counter and queue
  agree and every event reaches its waiter.
* A timeout races the event it guards and the next call on the same descriptor.
* Start-up and shutdown: threads that exist but have not entered `run()`, a `stop()` made
  by a coroutine on a thread that has to be joined.
* A descriptor number is free again the moment the kernel closes it, while the hooks keep a
  table of their own under another lock. Correct: a Socket's number, the kernel's socket and
  the context belong together, with the settings of this owner only.
* TCP cuts and joins what was sent. Correct: what is parsed depends on the bytes, never
  on where they were cut; no wrong message is delivered; a peer that waits gets an answer or
  an end.
* Log lines of all threads pass through buffers that change hands between the writers
  and the log thread, under a log that may be replaced or stopped meanwhile. Correct: each
  accepted line is written once, in order, and not later than a bounded wait.

`PROJECT.json` lists these as hazards, each at its line.

## 2. Modules

| module | models | extends / uses |
|---|---|---|
| `Worker` | run loop, idle loop, `canStop`, `addTask`, `notify`, coroutine life cycle, `sleep` | refines `RunQueue` |
| `RunQueue` | what `addTask(func)` promises: in order, once | |
| `Scheduler` | `startAsync`, `init`, `stop`, `joinThread`, `wait` around the workers | extends `Worker` |
| `Epoller` | IOEvent table, `pendingEvents_`, event loop of `wait` | |
| `Timer` | TimeManager with clock values | |
| `HookIO` | `do_io` with its timeout over workers, pollers and timers | |
| `ByteArray` | the buffer: positions, growth, prepend, integers | |
| `Codec` | `ProtobufCodec`: packets and one turn of `receive` | extends `ByteArray` |
| `Rpc` | one call: client, server and the connection between them | extends `Codec` |
| `HttpParser` | request and response parser, what `dump` writes | |
| `Servlets` | `ServletDispatch` and its two tables | |
| `Http` | one connection of `HttpServer` and its client | extends `HttpParser`, `Servlets` |
| `LogQueue` | what an asynchronous log promises: a queue and a file | |
| `AsyncLog` | `AsyncLog`, `LogFile`, `FixedBuffer` and the Logger that owns it | refines `LogQueue` |
| `FdContext` | what the hooks keep of a descriptor, conversions of flags and timeouts | |
| `Sockets` | Sockets, FdManager and the kernel's descriptor table | extends `FdContext` |
| `SchedulerProofs` | theorems about `Worker` and `Scheduler` | extends `Scheduler`, `SeqLemmas` |
| `PollProofs` | theorems about `Epoller` and `Timer` | extends `Epoller`, `Timer` |
| `HookIOProofs` | theorems about `HookIO` | extends `HookIO`, `SeqLemmas` |
| `SocketsProofs` | theorems about `Sockets` and `FdContext` | extends `Sockets`, `SeqLemmas` |
| `RpcProofs` | theorems about `ByteArray`, `Codec` and `Rpc` | extends `Rpc`, `SeqLemmas` |
| `AsyncLogProofs` | theorems about `AsyncLog` | extends `AsyncLog`, `SeqLemmas` |
| `HttpProofs` | theorems about `HttpParser`, `Servlets` and `Http` | extends `Http`, `SeqLemmas` |
| `SeqLemmas` | lemmas about sequences, used by the proofs | |
| `MC*` | instances for TLC | |

### Worker

One `pc` per worker says where its thread is. A step is what a thread does between two
accesses to state another thread can see: `Post`/`AddTask` is the critical section of
`addTask`; `NotifyCheck` reads `polling_` (and `idle_`, inside `timerInsertAtFront`);
`NotifyWrite` writes the eventfd; `GetExpire`, `HasTask` and `IdleExit`/`KeepGoing` are
the three reads of `canStop`; `SetPolling`, `EpollWait`, `Expired` and `Events` are
`Epoller::wait`. `call[t].todo` are the workers thread `t` has still to notify. Coroutines
are identities with a state and a function; an identity is recycled when nothing refers
to it, which is when the `shared_ptr` would have freed it; a suspended coroutine refers to itself
from its own stack (`Entry`, `sleep`) and is never freed. `coFunc` is the spare coroutine.

Time is abstract here: `timers` is the set ordered by `expire_` as a sequence and its
first `due` entries have expired. A new timer may be inserted anywhere, which covers
every interval. The TimeManager mutex is held while `timerInsertAtFront` notifies
(`TimerLockFree`). Waiting for IO is reduced to `parked`, a set of coroutines any of
which may become ready; `Epoller` has the details.

### Scheduler

Adds the init thread, the list `threads_`, calls of `stop()` in progress and who joins. A
worker's steps are enabled once its thread exists. `EarlyStop` says whether `stop()` may
come before every worker has entered `run()`; it may in the code, where `running_ = true`
(`worker.cc:64`) then overwrites it and the worker is joined for ever. The run has
`EarlyStop = FALSE` and shows that nothing else keeps `stop()` from ending; with `TRUE`
`StopTerminates` fails. The test of `running_` in `stop()` and the
assignment after it are one step, so two overlapping calls are not covered.

### Epoller

All operations run on the worker's own thread, so each is one step; between them the kernel and
other threads change readiness, raise hang-ups and close descriptors (`Closed`). `HandleOne`
handles one event of the batch `EpollWait` returned. `InterestAfterEvent` is the mask of
`epoller.cc:255`, in which no event type is left. The order in which a batch of waiters
of one descriptor goes to the queue is left open.

### Timer

Clock values, addresses and the comparator are real: `now_timer` in `expiredFunctions` is
compared by address on a tie. Construction and insertion are separate steps because
`addTimer` reads the clock before it takes the mutex. One worker of interest sleeps
(`sleepTill`), others may call `expiredFunctions` too (`mine = FALSE`).

### HookIO

Each coroutine calls `do_io` repeatedly on its own descriptor. The timeout function
(`RunTimeout`) runs on whichever worker took the timer and calls `HandleEvent` on that
worker's poller. The `weak_ptr` to `timerInfo` is the number of the call. The function's
test and assignment of `cancelled` is one step. `connect_with_timeout` waits with the
same pattern; what it returns is in `Sockets`.

### ByteArray, Codec, Rpc

A ByteArray is a record with the two positions and the vector; every method is an
operator. Bytes have a small base and lengths a small width, integers are encoded and
decoded as the code does, so a length read from the wrong place is really a number made of other
bytes. `Codec!Turn` is the body of the loop in `receive`: it takes the length out of the
array each time it looks at it. `Rpc` puts a client and a server at the two ends of a
connection: `Receive(s, n)` is a `recv` of any number of bytes and the turn behind
it, `Send` may stop at any byte because nobody looks at what `send` returned, `ReceiveEnds`
is the peer's close, a reset, or the receive timeout that only the server's socket has. What was
sent may still be on its way, so the server may be waiting, and time out, at any point of a message;
after a timeout `recv` fails even if bytes have come. As `hook_io_two_workers` shows, the
timeout's function may run on a worker that cannot wake the server (`TimeoutAstray`): then `recv` ends
only when something comes. `first`
is a history variable: how many bytes were there when the length was first read.

`CodecAssumption` says what the code relies on without saying so: the bytes of a type
name, taken for a length, are larger than `kMaxMessageLen` (a letter in the highest byte of an
`int32_t` is over 1 GB). That is why a length read from
the middle of a message ends in an error and not in a wrong message (`RightMessage`). The
rest of it: type names are not empty, hold no zero byte and differ from each other, a length fits
into the prepend area, and a packet is below 2 GB, so that its length is a positive `int32_t`.

### HttpParser, Servlets, Http

The stream consists of cells: single bytes where the parser counts or compares bytes (CR,
LF, bodies), one cell for a piece of text otherwise. Request and response parser are the
same code apart from the first line. Parts of lines that meet by accident (a parser that
starts in the middle of a message) are parsed nondeterministically. `Turn` is one turn of the
loop in `parseRequest` and `parseResponse`; `Needs` says that it cannot be taken before more is read. In
`Http` a step of a receiving side is a `read` when it needs one (`Receive`) and a turn otherwise
(`Parse`), so the loop is the state machine's and no operator is recursive. A parser lives for
one message, as in `recvRequest`, and what it has read behind that message is gone; `start`
remembers where in the stream it began. The server's receive timeout is as in `Rpc`: `Timeout` leaves
the server `cancelled`, about to fail, or `astray`, waiting for an event and then failing. Sending a
response and closing are two steps. A chunked request that is well-formed has a chunk with a body (`HttpAssumption`): a chunk of no bytes is the end
of the message.

In `Servlets` each call is one step under the read-write lock. `addGlobalServlet` erases from a
vector while it iterates and goes on; when the erased entry was the last one this is
undefined behaviour, `crashed`, and nothing is claimed afterwards.

### AsyncLog

A buffer is the sequence of lines in it, a moved-from pointer is `Null`, each
critical section one step. `holder` is where a thread is in `Logger::append`: it
takes its own reference (`Snapshot`), writes, and gives the reference up (`Release`). Whoever gives up the
last one runs `~FileAppender`: `stop()`, then the destruction of the object its
detached thread still uses (`UseAfterFree`). `LogFile` keeps count of bytes and buffers for
rolling; the clock may ask for a roll or a flush at each check. Lines in the C
library's buffer are apart from those on disk.

### FdContext, Sockets

`kernel` is the kernel's descriptor table (lowest free number first), `contexts` the FdManager's
vector. `socket`, `accept` and `close` are two steps each, the system call and the access to the
FdManager, and interleave between coroutines of different workers. `by` and `want` are
history: whose socket it is and what its owner asked for. Calls on a Socket that has no descriptor
(`NoFd`) are part of the model: `accept`, the timeouts, `fcntl` and `ioctl` look descriptor -1 up,
and so does `connect` when `socket` fails; `getFdContext` then fails its assertion and the
process ends (`aborted`, with the call and the coroutine that made it). `connect_with_timeout` is
split where it yields: registering, the answer, the timeout, the wake-up and the look
at `cancelled` and `SO_ERROR`.

## 3. Runs

| run | instance | shows |
|---|---|---|
| `worker_queue` | 2 workers, 2 functions (up to symmetry), 3 coroutines, 1 sleep | refinement of `RunQueue` |
| `scheduler_stop` | 2 workers, 1 outside thread, 1 function, 3 coroutines, 1 sleep; stop by a thread or by a coroutine | `OneWaker`, `SpareIsDone`, `TaskRuns`, `QuitAfterAllExit`, `StopTerminates`, `SleepersFinishUnlessTaken` |
| `epoller_safety` | descriptors 2 and 5, both directions, 2 waiters, foreign closes | `AssertionsHold`, `PendingCount`, `HandedBackOnce`, `WatchedResumes` |
| `timer_safety` | 2 timers, 3 intervals, clock 0..3 | `SetConsistent`, `NoOversleep`, `CancelIsFinal`, `HandsOutDue` |
| `hook_io` | 2 coroutines on 2 workers, 2 calls each | `ResumedOnce`, `OwnTimeout`, `NoTimerLeft`, `TimeoutReturnsAtHome`, `ReadyResumes` |
| `rpc` | 2 message types, packets of 6 to 9 bytes, reads of 1 to 8 | `RightMessage`, `ReceivedIffWhole`, `BufferExact`, `EveryCallEnds` |
| `http` | up to 2 requests of 3 kinds, or up to 4 changes of the servlet tables, or both | `ParsedIsSent`, `CleanStart`, `GlobalsCurrent`, `GoodAnswered` |
| `async_log` | 2 threads, 3 lines of length 1 to 3, buffers of 2, files of 3 | refinement of `LogQueue`, `HeldIsAlive`, `LineWritten`, `LastWrite` |
| `sockets` | 3 coroutines, 2 descriptor numbers | `Tracked`, `SettingsKept`, `WorkerNotBlocked`, `ConnectHonest`, `AbortOnlyWithoutFd` |

What the runs of the services show:

* `rpc`. `receive` never delivers a wrong message, but it delivers one only if the whole packet
  was there when it first read the length (`ReceivedIffWhole`): later pieces are taken
  for new lengths, and a packet no longer than a header and the shortest message is never looked
  at. The client has no timeout: a call ends because the server has one and then closes. The
  exception in `EveryCallEnds` is what `hook_io_two_workers` shows: a server whose timeout ran on another
  worker, and to which nothing more comes, keeps its client waiting for ever.
* `http`. A parser that begins at a message gets exactly this message however it was
  cut (`ParsedIsSent`); chunked bodies keep the CRLF of each chunk. It begins
  there if the client waits for each response, except that the CRLF behind the last chunk is
  left over, which makes the next request fail if it comes in a later read
  (`CleanStart`). Requests sent without waiting may be lost with the parser that read them.
  For a client that waits and sends no chunks, a good request is lost in one way only: the receive
  timeout runs out before all of it was read, and `recv` fails although the bytes are there
  (`GoodAnswered`).
* `async_log`. Two spare buffers on each side are enough that no moved-from buffer is ever
  used. A lost notification costs at most the two seconds of the wait. Lines longer than a
  buffer are dropped silently, and the buffer in use is put away for them. When a Logger's
  file appender is replaced, the object dies under its thread; `LineWritten` and
  `LastWrite` except this case, in which the last write that the comment at
  `asynclog.cc:128` announces may not happen.
* `sockets`. `ConnectHonest` and `WorkerNotBlocked` say what holds apart from two flaws that the
  model has and the properties except: `connect` reports success when the event of a connection in
  progress could not be registered (`hook.cc:281`), and `ioctl(FIONBIO)` with 0 makes the kernel's
  descriptor blocking (`hook.cc:523`). `AbortOnlyWithoutFd` says which assertions can fail:
  those of a program that goes on with a Socket without a descriptor (closed, never opened, or at the
  limit of open files), and no others, in particular none in an accepted connection or in the
  destructor of a closed Socket.

Three runs end in a counterexample, each where the code departs from what a comment, the
README or a test says:

* `worker_sleep_lost`: the timer of a sleeper is taken by another worker; the sleeper's worker sees
  an empty `timers_`, stops, and the sleeper is queued to a worker that has left `run()`.
* `epoller_two_way`: `EPOLLET & left_events` is 0, so after the reader was served the writer
  of the same descriptor is never reported (short of a hang-up).
* `hook_io_two_workers`: the timeout function runs on the wrong worker and the call never returns.

`SleepersFinishUnlessTaken` says what holds in spite of `worker_sleep_lost`: a sleeper is lost only when
another worker takes its timer.
`WatchedResumes` and `TimeoutReturnsAtHome` say what holds in spite of the two flaws
shown by `epoller_two_way` and `hook_io_two_workers`: a waiter is resumed as long as the kernel
still watches its events, and a timeout that runs on the caller's own worker ends the call.

A task added after `canStop` looked at the queue and before `polling_ = true` is not
notified: the worker may wait in `epoll_wait` with a task in its queue, at most
`kMaxTimeout` (5 s). `TaskRuns` and `StopTerminates` hold because of that cap; their
run fails when the timeout without timers is -1.

Bounds. Two workers are the smallest number with all cross-worker effects, since every
interaction is between the owner of a coroutine and one other thread; `Scheduler(1)` has
exactly these two, and no Scheduler has fewer. Two functions are needed for an order in a queue;
that run checks safety only and takes the functions as symmetric, which they are: every action quantifies
over them. Three coroutines are needed for
a sleeper, the coroutine that runs its wake-up and a fresh one. Descriptors 2 and 5 are the smallest
the table's growth is correct for and one that makes it grow again. Two timers and
addresses around them give every tie in the comparator. Two calls per coroutine let a
timeout function outlive its call. `MaxNaps`, `MaxCalls`, `MaxTime` and `MaxQueue` bound the models,
not the code.

In `rpc` a byte has 16 values and a length 2 bytes; the array starts with room for 4
bytes behind a prepend area of 3, so reading grows it, moves it and does both in one
call. Two message types, one registered or not, with payloads of different lengths give packets above and at
the size that `receive` never looks at. In `http` `MaxLoad` counts a request twice and a change of the
tables once; bodies are CR, CRLF, another byte or empty (the first servlet's response), so that a body can be mistaken for the end of a
line. In `async_log` lengths 1, 2 and 3 against a buffer of 2 are: fits, fills it exactly (which
`append` treats as too long for the current buffer), and fits nowhere. In `sockets` two numbers for
three coroutines make every close race a reuse and the limit of open files
reachable; `MaxCustom` (one Socket with settings of its own at a time) and symmetry in the
coroutines keep the run small, and settings of one Socket only ever meet those of the
next with its number.

Deadlock is not checked where threads really stop (workers that left `run()`,
coroutines that made all their calls, the clock at its bound, connections that are closed, an
aborted process).

Fairness. `FairSpec` of `Worker`: every thread that can take a step takes one (the
operating system schedules all threads, and mutexes are held for a single step), a coroutine's
function returns or yields, a `notify()` call is completed, and time passes. No
fairness on `Post`, on `stop()`, or on a descriptor becoming ready; `epoll_wait` returns on a
timeout because its timeout is never above `kMaxTimeout`. `Epoller`: the worker
keeps running tasks and polling. `HookIO`: coroutines and workers go on and timers
expire; readiness is not fair. `Rpc` and `Http`: the coroutines of client and
server go on, which includes that the network delivers what was sent or the
connection ends, and that a timeout that is set runs out, on some worker; no fairness on requests, registrations or lost connections. `AsyncLog`: the log
thread runs and its wait of two seconds ends; nothing obliges a program to log or to
stop. `Sockets` states safety only.

## 4. Proofs

Each theorem holds for every value of the constants that satisfies the assumptions of its
modules: any number of workers, threads, coroutines, descriptors, timers, messages, and
any sizes of buffers, reads and files. The bounds of the models (`MaxNaps`, `MaxCalls`, `MaxTime`,
...) are constants like the others. Every inductive invariant was also checked by TLC on the
instance of its component's run.

| module | theorem | property |
|---|---|---|
| `PollProofs` | `AssertionsNeverFail`, `NeverHandedBackTwice`, `PendingExact`, `TypeCorrect` | `AssertionsHold`, `HandedBackOnce`, `PendingCount`, `TypeOK` |
| `SchedulerProofs` | `OneWakerAlways`, `SpareAlwaysDone`, `QuitIsLast` | `OneWaker`, `SpareIsDone`, `QuitAfterAllExit` |
| | `ImplementsRunQueue`, `SchedulerRunsInOrder` | `RunsInOrder`: refinement of `RunQueue` |
| `PollProofs` | `SetStaysConsistent`, `WakesInTime`, `CancelledNeverRuns`, `TimerTypeCorrect` | `SetConsistent`, `NoOversleep`, `CancelIsFinal`, `TimerTypeOK` |
| | `HandsOutExactlyDue` | `HandsOutDue`, an action property |
| `HookIOProofs` | `ResumedJustOnce`, `CancelledByOwnTimer`, `TimersEndWithCalls` | `ResumedOnce`, `OwnTimeout`, `NoTimerLeft` |
| `SocketsProofs` | `DescriptorsTracked`, `SettingsSurvive`, `WorkersDoNotBlock`, `ConnectIsHonest`, `AbortsOnlyWithoutFd` | `Tracked`, `SettingsKept`, `WorkerNotBlocked`, `ConnectHonest`, `AbortOnlyWithoutFd` |
| `RpcProofs` | `OnlyTheRightMessage`, `ReceivedExactly`, `BufferAlwaysExact` | `RightMessage`, `ReceivedIffWhole`, `BufferExact` |
| `AsyncLogProofs` | `HeldLogIsAlive`, `TypeCorrect` | `HeldIsAlive`, `TypeOK` |
| | `ImplementsQueue` | `FifoLog`: refinement of `LogQueue` |
| `HttpProofs` | `ParsedAsSent`, `CleanlyStarted`, `GlobalsStayCurrent` | `ParsedIsSent`, `CleanStart`, `GlobalsCurrent` |

**PollProofs, Epoller.** The properties are not inductive alone. An event is registered when it is handled because (a) what
the kernel reports is a subset of its interest, and its interest is a subset of the registered
types and empty when the descriptor is not in the epoll instance
(`InterestRegistered`), and (b) handling one event does not disturb another, since a batch has one
event per descriptor and exists only inside the event loop (`EventsDistinct`). `IInv` is
their conjunction with the properties. `TriggerType`, `TriggerSlots` and `TriggerOnce`
say what `triggleEvent` does to table and queue; `TriggerInv` is shared by the three
operations that hand waiters back; `LeftInterestInv` by the two that leave a mask.
`PendingExact` rests on `TakenOut`: taking the types S of a descriptor out of the table lowers the number
of registered pairs by `Cardinality(S)`. Assumption `EpollerAssumption`: descriptors are naturals
from 2 up (0 and 1 are the standard
streams, for which `resize(fd * 1.5)` is too small), the sets are finite, and a waiter is not null.

**SchedulerProofs.** `OneWaker` counts the places from which a coroutine can be resumed. The proof
replaces counting by tokens: a token is the coroutine itself or a wake-up function for it, and `At`
says where it is (IOEvent, timers, queue, the body of a coroutine). `CoInv` says that each coroutine has
at most one token, in one place (`OneToken`); that it has one exactly when it is suspended or
on its way there (`HeldIffAsleep`); that `RUNNING` is the state of exactly the coroutines some worker
is in (`Running`); and who owns the spare coroutines (`Spares`). The window between arming the timer of a `sleep` and the
yield needs `WokenAtHome`: the wake-up may already have run on another worker, but it
can only have put the sleeper into the queue of the worker that is still inside it.
`GoodMoves` reduces each step to the coroutines it moves. `QuitInv` is separate and small: who
joins has joined every thread because `stop()` waits for the init thread. For the refinement `FuncInv` adds that a
function is in one queue, once, or in one unfinished coroutine; `FuncsInTail` and `FuncsInAppend` say
what taking and adding a task mean for the abstract queue.

**PollProofs, Timer.** `expire_` lies between the interval and one interval ahead of the clock
(`ExpireInRange`), so re-arming and `refresh` only move a timer back and nobody has to be notified; a
timer that was handed out or cancelled has lost its `func_` (`Spent`), which is what
makes `cancel` final. `HandsOutDue` includes the tie on `expire_` that `expiredFunctions`
decides by address.

**HookIOProofs.** `Placed` says where a coroutine is; `FromExpired` that a timeout function in any
queue belongs to a call already made, and if to the present one, its timer has expired in it. That
makes `OwnTimeout` inductive: a late function of an earlier call carries an earlier number.

**SocketsProofs.** `Tracked` speaks about Sockets that own a descriptor; the invariant must also name the
holder of a number in flight: a coroutine between `socket_origin` and `addFd` (`Stage`), one
inside `accept` together with the coroutine it accepts for (`Guest`, `OneHost`), and one between
`delFd` and `close_origin`. `AbortsOnlyWithoutFd` follows from the same invariant: `Guest` gives every
accepted number a context when `Socket::init` asks for it, and a Socket without a descriptor is either new or
closed (`Stage`). Each step concerns one coroutine, or two in `accept` (`Others`, `TwoCoroutines`).

**RpcProofs.** First what the methods of `ByteArray` do to what is readable, whatever
they do to the vector (`WriteIs`, `PrependIs`, `SkipIs`, `AddCapacityIs`); then that an integer
written and read is the same (`RoundTrip`) and that its size is decided by its first byte
(`FirstByteDecides`); then the layout of a packet (`PacketIs`). `receive` takes the length out of the array
each time it looks, so a call of it has three kinds of turns (`FirstTurn`, `SecondTurn`,
`ThirdTurn`): the first length read is the packet's; the second is the length of the name; the third
is made of the name, and is above `kMaxMessageLen` or negative by `CodecAssumption`. `Receiving` is
the invariant of that loop, and `Client` and `Server` put it at the two ends of the connection. `ReceivedExactly` has
the hypothesis that no message is longer than `kMaxMessageLen`: `send` does not test the
bound, and `receive` refuses a longer message even when it is whole.

**AsyncLogProofs.** `Life`: the Logger's reference keeps the log alive and, since only the destructor
stops it, running. `TypeOK` needs that the spare buffers are empty whenever
the log thread asks for them. For the refinement, appending, exchanging buffers and writing either leave the concatenation of all
buffers in motion as it is or move one line between its ends and the abstract queue and file.

**HttpProofs.** Two questions are kept apart: what a parser makes of a message that it begins with,
and where parsers begin. For the first, `Stage(m, p, o)` says which parser has used the first `o`
cells of the message `m`: nothing, the first line, the first header, the second, the empty line, the size of the
chunk, the chunk with its CRLF, or all of it. `StageStep` is the main lemma: one turn leads
from one stage to the next, for every message and whatever bytes follow it, and there is a turn only
when the bytes of the next piece are there. It rests on the layout of `Cells(m)` (`CellsBegin`, `ChunkCells`, ...), on what the
first CRLF of a line is (`TakesLine`: text in front of it holds no CR) and on a body being counted and never searched
(`TakesBytes`), so a CRLF inside it does no harm. `Sound` carries this to the stream: what is buffered is the
part of the stream behind what was used, each message lies where the log says, and a parser that began where
a message begins is at some stage of it. `TurnType` covers the parsers that began elsewhere.
That is `HttpInv`, from which `ParsedIsSent` follows.

`CleanStart` needs more, since a new parser begins where the old one had *read*, not where it had
parsed to. `Turns` describes a client that waits: there are as many responses as requests or one
less; with no request open the server has nothing to read but what is left of the CRLF of a chunked message
(`Rests`), with one open it is on its way through it, or in front of it with that CRLF between, or has
failed (`Reads`). `LeftBoth`, `LeftOne` and `LeftByte` say what a new parser makes of the CRLF:
all of it is an empty line and an error; its LF alone is read as a part of the next first line, which
may or may not be accepted; one byte alone makes it wait. So a parser that has a message has read exactly to the end
of the stream, or to one of the last two cells of a chunked message (`ReadsDone`).

`GlobalsCurrent` is inductive with types alone; `ErasedIs` says what `Erased` leaves.

**Induction over data.** The induction theorems of the library cannot be instantiated by the
installed provers. `SeqLemmas` avoids them: `LeastNatural` (a nonempty set of naturals has a least
element, from the well-foundedness of `<`) turns an induction into
a least counterexample, and `IterationExists` gives the functions that recursion over the naturals
defines. With these two, what `FlattenSeq`, a fold over a buffer (`AsyncLog!Size`), the powers of the
base and Horner's scheme in `Unsigned` compute is proved for every input.

**Assumptions.** They are named, stand in the module that declares the constants, and are evaluated by TLC in the
runs. Most say that sets are finite, bounds are naturals and that values of different kinds (a
coroutine and a function, a null and a record) differ. Those with content:
`EpollerAssumption` and `FdAssumption` (descriptors from 2 up), `CodecAssumption` (section 2),
`SchedulerAssumption` (at least one thread beside the main one), `LogAssumption` (a file has room for a buffer),
`HttpAssumption` (bodies are bytes, and a well-formed chunked one is not empty).

**Only model-checked.** The liveness properties (`TaskRuns`, `SleepersFinishUnlessTaken`, `StopTerminates`, `IOResumes`, `WatchedResumes`,
`TimeoutReturnsAtHome`, `ReadyResumes`, `EveryCallEnds`, `GoodAnswered`, `LineWritten`,
`LastWrite`), which are out of TLAPS's reach. Every invariant that a run checks is proved.

## 5. Not modelled

Left out for good:

* contexts and stacks, addresses, log formatting and levels, protobuf, generated code,
  the programs in `cmd` and the tests;
* `CoroutineCondition` and `CoroutineSpinLock`: nothing in the repository uses them. (`notify`
  before `wait` would use a null `worker_`.)
* `ByteArray`'s floats, strings, hex dumps and files: repetitions of what is modelled, or plain
  file access;
* failing disks in `LogFile`: the code has no recovery to check;
* overlapping calls of one `RpcClient`, which overwrite its only `conn_` and `cb_`
  (`tcp_client.cc:15`), and overlapping calls of `Scheduler::stop`, which join a thread
  twice (`scheduler.cc:64`): the API gives neither a meaning;
* threads without the hook, descriptors that are no sockets, a wall clock that is
  set back.

Simplifications inside what is modelled, with the line where the code does more:

* `HttpParser`: a header is `name: value`. The code takes the value two characters behind the colon
  (`http_parser.cc:121`), so it would read `Content-Length:11` as 1, and `stoi` or the string may throw, which
  ends the coroutine's function (`coroutine.cc:136`). A message has one chunk before the last. `Parsed` keeps the
  CRLF behind a chunk in the body because the code does (`http_parser.cc:162`). `HexToDec` returns an `int`
  (`util.cc:16`): chunk sizes of 2 GB and more are out.
* `Worker!Timeout`: the `int64_t` of `getExpire` is narrowed to `int` (`worker.cc:132`); intervals above 24
  days are out. `Timer!GetExpire` takes reading the next expiry and falling asleep as one step and leaves the cap
  `kMaxTimeout` out, which would only wake the worker earlier; `Worker` has both.
* `ByteArray!IntBytes` converts to network order. `endian.h:29` misspells the macro it tests, so on a big-endian
  host the code would not.
* `Rpc!registerRpcHandler` registers a type; registering it again frees the handler that a request looked up
  before may still be using (`rpc_server.cc:20-32`).
* `HookIO!Call` begins behind the early returns of `do_io` (`hook.cc:82-100`: thread without the hook, no context,
  closed, not a socket, non-blocking by the user's wish), which pass the call on or fail at once.
* `AsyncLog!StopGlobal` leaves the process alive; a program that returns from `main` right after `stop()`, as
  `asynclog_test.cc:42-47` does, may exit before the last write. `WriteOne` has no failing `fwrite` (`asynclog.cc:39`).
* `Sockets`: no other coroutine cancels a connecting Socket (`cancelWrite`, `cancelAll`); `connect` would then
  read `SO_ERROR` while the connection is in progress, as it does when the event could not be registered.
* `Rpc`, `Http`: `recv` fails with `addEvent` only in `HookIO`; to them it looks like a lost connection.

Data races on plain `bool`/`int` members are taken as atomic accesses.
