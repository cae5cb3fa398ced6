------------------------------- MODULE HookIO -------------------------------
(***************************************************************************)
(* A hooked socket call (do_io in hook.cc; connect_with_timeout waits the  *)
(* same way) over the workers, their pollers and the shared TimeManager.   *)
(*                                                                         *)
(* Each coroutine has a descriptor of its own and makes one call after     *)
(* another on its home worker.  A worker is a thread: it runs tasks one at *)
(* a time and polls in between.  The timeout function of a call may be     *)
(* taken from timers_ by any worker; it runs on that worker and calls      *)
(* Worker::HandleEvent there, that is, on the poller of that worker.       *)
(***************************************************************************)
EXTENDS Naturals, Sequences, FiniteSets, SequencesExt

CONSTANTS
  Workers,   \* the scheduler's workers
  Cos,       \* coroutines that make calls
  Home,      \* the worker each coroutine runs on
  MaxCalls,  \* bound on the calls a coroutine makes
  None

\* A task is a coroutine or a function, never both.
ASSUME HookAssumption ==
  /\ Home \in [Cos -> Workers]
  /\ MaxCalls \in Nat
  /\ None \notin Cos
  /\ \A c \in Cos : c \notin [of : Cos, call : 1 .. MaxCalls]
  /\ IsFiniteSet(Workers) /\ IsFiniteSet(Cos)

VARIABLES
  pc,         \* where the coroutine is in do_io
  cur,        \* the coroutine each worker is running
  queue,      \* Worker::tasks_: coroutines and timeout functions
  number,     \* which call the coroutine is in
  timed,      \* the descriptor has a timeout
  cancelled,  \* tinfo->cancelled of the current call
  armed,      \* the timer of the current attempt is in timers_ ...
  due,        \* ... and has expired
  expired,    \* some timer of the current call was taken as expired
  registered, \* the home poller's IOEvent holds the coroutine
  ready,      \* the descriptor is ready
  result      \* what the last call returned

vars == <<pc, cur, queue, number, timed, cancelled, armed, due, expired, registered,
          ready, result>>

\* A timeout function holds a weak_ptr to the timerInfo of its call.
Timeouts == [of : Cos, call : 1 .. MaxCalls]

Init ==
  /\ pc = [c \in Cos |-> "idle"]
  /\ cur = [w \in Workers |-> None]
  /\ queue = [w \in Workers |-> SetToSeq({c \in Cos : Home[c] = w})]
  /\ number = [c \in Cos |-> 0]
  /\ timed = [c \in Cos |-> FALSE]
  /\ cancelled = [c \in Cos |-> FALSE]
  /\ armed = [c \in Cos |-> FALSE]
  /\ due = [c \in Cos |-> FALSE]
  /\ expired = [c \in Cos |-> FALSE]
  /\ registered = [c \in Cos |-> FALSE]
  /\ ready = [c \in Cos |-> FALSE]
  /\ result = [c \in Cos |-> "none"]

Running(c, at) == cur[Home[c]] = c /\ pc[c] = at

-----------------------------------------------------------------------------
(* do_io, on the home worker of the coroutine *)

\* The call begins: a new timerInfo.
Call(c, withTimeout) ==
  /\ Running(c, "idle") /\ number[c] < MaxCalls
  /\ number' = [number EXCEPT ![c] = @ + 1]
  /\ timed' = [timed EXCEPT ![c] = withTimeout]
  /\ cancelled' = [cancelled EXCEPT ![c] = FALSE]
  /\ expired' = [expired EXCEPT ![c] = FALSE]
  /\ pc' = [pc EXCEPT ![c] = "try"]
  /\ UNCHANGED <<cur, queue, armed, due, registered, ready, result>>

Return(c, value) ==
  /\ pc' = [pc EXCEPT ![c] = "idle"]
  /\ result' = [result EXCEPT ![c] = value]

\* The system call: done, or EAGAIN.
TryDone(c) ==
  /\ Running(c, "try") /\ ready[c]
  /\ ready' = [ready EXCEPT ![c] = FALSE]
  /\ Return(c, "ok")
  /\ UNCHANGED <<cur, queue, number, timed, cancelled, armed, due, expired, registered>>

\* EAGAIN: addConditonTimer if there is a timeout.
TryAgain(c) ==
  /\ Running(c, "try") /\ ~ready[c]
  /\ armed' = [armed EXCEPT ![c] = timed[c]]
  /\ due' = [due EXCEPT ![c] = FALSE]
  /\ pc' = [pc EXCEPT ![c] = "add"]
  /\ UNCHANGED <<cur, queue, number, timed, cancelled, expired, registered, ready, result>>

\* AddEvent, then YieldToSuspend.
AddEvent(c) ==
  /\ Running(c, "add")
  /\ registered' = [registered EXCEPT ![c] = TRUE]
  /\ cur' = [cur EXCEPT ![Home[c]] = None]
  /\ pc' = [pc EXCEPT ![c] = "wait"]
  /\ UNCHANGED <<queue, number, timed, cancelled, armed, due, expired, ready, result>>

\* Mutant of AddEventFails: the timer is left armed.
FailsWithTimer(c) ==
  /\ Running(c, "add")
  /\ Return(c, "error")
  /\ UNCHANGED <<cur, queue, number, timed, cancelled, armed, due, expired, registered, ready>>

\* AddEvent fails: the timer is cancelled and the call returns -1.
AddEventFails(c) ==
  /\ Running(c, "add")
  /\ armed' = [armed EXCEPT ![c] = FALSE]
  /\ due' = [due EXCEPT ![c] = FALSE]
  /\ Return(c, "error")
  /\ UNCHANGED <<cur, queue, number, timed, cancelled, expired, registered, ready>>

\* Resumed: timer->cancel() ...
CancelTimer(c) ==
  /\ Running(c, "wait")
  /\ armed' = [armed EXCEPT ![c] = FALSE]
  /\ due' = [due EXCEPT ![c] = FALSE]
  /\ pc' = [pc EXCEPT ![c] = "check"]
  /\ UNCHANGED <<cur, queue, number, timed, cancelled, expired, registered, ready, result>>

\* ... then cancelled is read: ETIMEDOUT, or another try.
Check(c) ==
  /\ Running(c, "check")
  /\ IF cancelled[c] THEN Return(c, "timeout")
                     ELSE pc' = [pc EXCEPT ![c] = "try"] /\ UNCHANGED result
  /\ UNCHANGED <<cur, queue, number, timed, cancelled, armed, due, expired, registered,
                 ready>>

\* The coroutine's function returns.
Finish(c) ==
  /\ Running(c, "idle")
  /\ cur' = [cur EXCEPT ![Home[c]] = None]
  /\ pc' = [pc EXCEPT ![c] = "done"]
  /\ UNCHANGED <<queue, number, timed, cancelled, armed, due, expired, registered, ready,
                 result>>

-----------------------------------------------------------------------------
(* The workers *)

\* Mutant of HandleEvent: the event is cancelled as by delEvent.
ForgetEvent(w, c) ==
  /\ registered' = [registered EXCEPT ![c] = @ /\ Home[c] # w]
  /\ queue' = [queue EXCEPT ![w] = Tail(@)]

\* Poller w hands the coroutine back, if it is registered there.
HandleEvent(w, c) ==
  IF Home[c] = w /\ registered[c]
    THEN /\ registered' = [registered EXCEPT ![c] = FALSE]
         /\ queue' = [queue EXCEPT ![w] = Append(Tail(@), c)]
    ELSE /\ queue' = [queue EXCEPT ![w] = Tail(@)]
         /\ UNCHANGED registered

\* Mutant of Alive: the function does not ask whether its call has returned.
NotCancelled(f) == ~cancelled[f.of]

\* The weak_ptr can be locked, and cancelled is not set yet.
Alive(f) ==
  /\ f.call = number[f.of] /\ pc[f.of] \notin {"idle", "done"}
  /\ ~cancelled[f.of]

RunCo(w) ==
  /\ cur[w] = None /\ queue[w] # <<>> /\ Head(queue[w]) \in Cos
  /\ cur' = [cur EXCEPT ![w] = Head(queue[w])]
  /\ queue' = [queue EXCEPT ![w] = Tail(@)]
  /\ UNCHANGED <<pc, number, timed, cancelled, armed, due, expired, registered, ready,
                 result>>

\* The timeout function of a call.
RunTimeout(w) ==
  /\ cur[w] = None /\ queue[w] # <<>> /\ Head(queue[w]) \in Timeouts
  /\ LET f == Head(queue[w]) IN
       IF Alive(f)
         THEN /\ cancelled' = [cancelled EXCEPT ![f.of] = TRUE]
              /\ HandleEvent(w, f.of)
         ELSE /\ queue' = [queue EXCEPT ![w] = Tail(@)]
              /\ UNCHANGED <<cancelled, registered>>
  /\ UNCHANGED <<pc, cur, number, timed, armed, due, expired, ready, result>>

\* Mutant of StillRegistered: an event leaves the IOEvent registered.
KeepsRegistered(w) == registered

\* Mutant of StillRegistered: the poller forgets everybody it holds.
DropsOthers(w) == [c \in Cos |-> registered[c] /\ Home[c] # w]

\* wait() takes the coroutine out of the IOEvent of every event it handles.
StillRegistered(w) ==
  [c \in Cos |-> registered[c] /\ ~(Home[c] = w /\ ready[c])]

\* Epoller::wait: expired functions first, then the events of this poller.
Poll(w) ==
  /\ cur[w] = None
  /\ \E first \in SetToSeqs({c \in Cos : armed[c] /\ due[c]}),
        second \in SetToSeqs({c \in Cos : Home[c] = w /\ registered[c] /\ ready[c]}) :
       /\ first \o second # <<>>
       /\ queue' = [queue EXCEPT ![w] =
                      @ \o [i \in DOMAIN first |-> [of |-> first[i], call |-> number[first[i]]]]
                        \o second]
  /\ armed' = [c \in Cos |-> armed[c] /\ ~due[c]]
  /\ due' = [c \in Cos |-> FALSE]
  /\ expired' = [c \in Cos |-> expired[c] \/ (armed[c] /\ due[c])]
  /\ registered' = StillRegistered(w)
  /\ UNCHANGED <<pc, cur, number, timed, cancelled, ready, result>>

-----------------------------------------------------------------------------
(* Time and the peers *)

Expire(c) ==
  /\ armed[c] /\ ~due[c]
  /\ due' = [due EXCEPT ![c] = TRUE]
  /\ UNCHANGED <<pc, cur, queue, number, timed, cancelled, armed, expired, registered,
                 ready, result>>

BecomesReady(c) ==
  /\ ~ready[c]
  /\ ready' = [ready EXCEPT ![c] = TRUE]
  /\ UNCHANGED <<pc, cur, queue, number, timed, cancelled, armed, due, expired,
                 registered, result>>

CoStep(c) ==
  \/ \E b \in BOOLEAN : Call(c, b)
  \/ TryDone(c) \/ TryAgain(c) \/ AddEvent(c) \/ AddEventFails(c)
  \/ CancelTimer(c) \/ Check(c) \/ Finish(c)

WorkerStep(w) == RunCo(w) \/ RunTimeout(w) \/ Poll(w)

Next ==
  \/ \E c \in Cos : CoStep(c) \/ Expire(c) \/ BecomesReady(c)
  \/ \E w \in Workers : WorkerStep(w)

Spec == Init /\ [][Next]_vars

FairSpec ==
  /\ Spec
  /\ \A c \in Cos : WF_vars(CoStep(c)) /\ WF_vars(Expire(c))
  /\ \A w \in Workers : WF_vars(WorkerStep(w))

-----------------------------------------------------------------------------
(* Properties *)

\* A timeout racing an event resumes the coroutine once: a coroutine is running,
\* registered with its poller, or queued once, and a call that has returned has
\* left no registration behind.
ResumedOnce ==
  \A c \in Cos :
    LET places == Cardinality({i \in DOMAIN queue[Home[c]] : queue[Home[c]][i] = c})
                  + (IF cur[Home[c]] = c THEN 1 ELSE 0)
                  + (IF registered[c] THEN 1 ELSE 0)
    IN /\ places = IF pc[c] = "done" THEN 0 ELSE 1
       /\ registered[c] => pc[c] = "wait"

\* A call is cancelled only when a timer of that same call has expired: the
\* function left over from an earlier call on the descriptor does nothing.
OwnTimeout == \A c \in Cos : cancelled[c] => expired[c]

\* No timer of a call is left in timers_ once the call has returned.
NoTimerLeft == \A c \in Cos : armed[c] => pc[c] \in {"add", "wait"}

\* A call on a descriptor with a timeout returns, whatever the peer does.
TimeoutReturns == \A c \in Cos : pc[c] = "wait" /\ timed[c] ~> pc[c] = "idle"

\* A coroutine whose descriptor is ready goes on.
ReadyResumes == \A c \in Cos : pc[c] = "wait" /\ ready[c] ~> pc[c] # "wait"

\* The same on any number of workers, except that a timeout function which ran
\* on another worker leaves the coroutine cancelled and still registered.
TimeoutReturnsAtHome ==
  \A c \in Cos : pc[c] = "wait" /\ timed[c]
                  ~> pc[c] = "idle" \/ (cancelled[c] /\ registered[c])
=============================================================================
