------------------------------- MODULE Timer --------------------------------
(***************************************************************************)
(* TimeManager and Timer: the ordered set timers_, keyed by expire_, under *)
(* addTimer, cancel, refresh, reset, getExpire and expiredFunctions, and   *)
(* one worker that sleeps until the first timer or a notification while    *)
(* other workers poll the same timers.                                     *)
(*                                                                         *)
(* Every operation runs under the TimeManager mutex and is one step, except *)
(* that addTimer computes expire_ before it takes the mutex.  The clock    *)
(* (GetCurrentMs) only moves forward here.  needNotify_ is never read and  *)
(* is left out.                                                            *)
(***************************************************************************)
EXTENDS Integers, Sequences, FiniteSets

CONSTANTS
  Timers,     \* Timer objects, by address
  Addresses,  \* other addresses, for the temporary of expiredFunctions
  Intervals,  \* values of interval
  MaxTime,    \* bound on the clock
  MaxQueue,   \* bound on the functions handed out and not run yet
  Awake,      \* the worker is not in epoll_wait
  Forever     \* it sleeps and there was no timer

ASSUME TimerAssumption ==
  /\ Timers \subseteq Nat /\ IsFiniteSet(Timers)
  /\ Addresses \subseteq Nat /\ Addresses \cap Timers = {}
  /\ Intervals \subseteq Nat
  /\ MaxTime \in Nat /\ MaxQueue \in Nat
  /\ Awake \notin Nat /\ Forever \notin Nat /\ Awake # Forever

VARIABLES
  now,        \* GetCurrentMs()
  stage,      \* per Timer: not made, made by addTimer, in use
  expire,     \* expire_
  interval,   \* interval_
  recursive,  \* recursive_
  func,       \* func_ is set
  timers,     \* timers_: entries as they were inserted
  sleepTill,  \* when the sleeping worker's timeout is over
  notified,   \* timerInsertAtFront was called since it went to sleep
  queue,      \* functions expiredFunctions has handed out, not run yet
  cancelled   \* timers whose cancel() returned true

clock == <<now, sleepTill, notified>>
timerVars == <<clock, stage, expire, interval, recursive, func, timers, queue, cancelled>>

Entries == [key : Nat, id : Timers]

\* Where timers_.find(t) looks.
Entry(t) == [key |-> expire[t], id |-> t]

\* Timer::Comparator.
Less(a, b) == a.key < b.key \/ (a.key = b.key /\ a.id < b.id)

\* e is *timers_.begin().
IsFront(e, set) == e \in set /\ \A d \in set : d = e \/ Less(e, d)

\* Mutant of NotifyIfFront: timerInsertAtFront is not called.
NotifyNobody(e) == notified

\* timerInsertAtFront, when the entry just inserted is the first.
NotifyIfFront(e) == notified \/ IsFront(e, timers')

TimerInit ==
  /\ now = 0
  /\ stage = [t \in Timers |-> "none"]
  /\ expire = [t \in Timers |-> 0]
  /\ interval = [t \in Timers |-> 0]
  /\ recursive = [t \in Timers |-> FALSE]
  /\ func = [t \in Timers |-> FALSE]
  /\ timers = {}
  /\ sleepTill = Awake
  /\ notified = FALSE
  /\ queue = <<>>
  /\ cancelled = {}

Tick ==
  /\ now < MaxTime
  /\ now' = now + 1
  /\ UNCHANGED <<sleepTill, notified, stage, expire, interval, recursive, func, timers,
                 queue, cancelled>>

-----------------------------------------------------------------------------
(* addTimer *)

\* new Timer(interval, func, recursive, this)
Construct(t, i, rec) ==
  /\ stage[t] = "none"
  /\ stage' = [stage EXCEPT ![t] = "made"]
  /\ interval' = [interval EXCEPT ![t] = i]
  /\ recursive' = [recursive EXCEPT ![t] = rec]
  /\ expire' = [expire EXCEPT ![t] = now + i]
  /\ func' = [func EXCEPT ![t] = TRUE]
  /\ UNCHANGED <<clock, timers, queue, cancelled>>

\* timers_.insert, then timerInsertAtFront when it is the first.
Insert(t) ==
  /\ stage[t] = "made"
  /\ stage' = [stage EXCEPT ![t] = "used"]
  /\ timers' = timers \cup {Entry(t)}
  /\ notified' = NotifyIfFront(Entry(t))
  /\ UNCHANGED <<now, sleepTill, expire, interval, recursive, func, queue, cancelled>>

-----------------------------------------------------------------------------
(* Timer::cancel, refresh and reset; they do nothing once func_ is null *)

\* Mutant of Cancel: the entry stays in timers_.
CancelKeepsEntry(t) ==
  /\ stage[t] = "used" /\ func[t]
  /\ func' = [func EXCEPT ![t] = FALSE]
  /\ cancelled' = cancelled \cup {t}
  /\ UNCHANGED <<clock, stage, expire, interval, recursive, timers, queue>>

Cancel(t) ==
  /\ stage[t] = "used" /\ func[t]
  /\ func' = [func EXCEPT ![t] = FALSE]
  /\ timers' = timers \ {Entry(t)}
  /\ cancelled' = IF Entry(t) \in timers THEN cancelled \cup {t} ELSE cancelled
  /\ UNCHANGED <<clock, stage, expire, interval, recursive, queue>>

\* Mutant of Refresh: expire_ is changed while the timer is in the set.
RefreshInPlace(t) ==
  /\ stage[t] = "used" /\ func[t] /\ Entry(t) \in timers
  /\ expire' = [expire EXCEPT ![t] = now + interval[t]]
  /\ UNCHANGED <<clock, stage, interval, recursive, func, timers, queue, cancelled>>

Refresh(t) ==
  /\ stage[t] = "used" /\ func[t] /\ Entry(t) \in timers
  /\ expire' = [expire EXCEPT ![t] = now + interval[t]]
  /\ timers' = (timers \ {Entry(t)}) \cup {[key |-> now + interval[t], id |-> t]}
  /\ UNCHANGED <<clock, stage, interval, recursive, func, queue, cancelled>>

\* Mutant of ResetStart: the interval is taken off the wrong time.
NowMinusInterval(t, fromNow) == IF fromNow THEN now ELSE now - interval[t]

\* The time reset() counts from.
ResetStart(t, fromNow) == IF fromNow THEN now ELSE expire[t] - interval[t]

Reset(t, i, fromNow) ==
  /\ stage[t] = "used" /\ func[t] /\ Entry(t) \in timers
  /\ interval[t] # i \/ fromNow
  /\ interval' = [interval EXCEPT ![t] = i]
  /\ expire' = [expire EXCEPT ![t] = ResetStart(t, fromNow) + i]
  /\ LET e == [key |-> ResetStart(t, fromNow) + i, id |-> t] IN
       /\ timers' = (timers \ {Entry(t)}) \cup {e}
       /\ notified' = NotifyIfFront(e)
  /\ UNCHANGED <<now, sleepTill, stage, recursive, func, queue, cancelled>>

-----------------------------------------------------------------------------
(* The worker: getExpire, epoll_wait, expiredFunctions *)

\* getExpire, then epoll_wait with that timeout.
GetExpire ==
  /\ sleepTill = Awake
  /\ IF timers = {} THEN sleepTill' = Forever
     ELSE \E e \in timers :
            /\ IsFront(e, timers)
            /\ sleepTill' = IF now > e.key THEN now ELSE e.key
  /\ notified' = FALSE
  /\ UNCHANGED <<now, stage, expire, interval, recursive, func, timers, queue, cancelled>>

\* Mutant of DueEntries: lower_bound alone, an entry at `now' may be left.
BeforeNow(bound) == {e \in timers : Less(e, bound)}

\* [begin, it): lower_bound(now_timer), then on over entries with expire_ == now.
DueEntries(bound) == {e \in timers : Less(e, bound) \/ e.key = bound.key}

\* The functions, in the order of timers_; recursive timers are armed again.
\* `address' is where the temporary now_timer was allocated; the call is made
\* by the worker of this module, whose epoll_wait may return at any time, or by
\* another one.
Expired(address, mine) ==
  /\ mine => sleepTill # Awake
  /\ sleepTill' = IF mine THEN Awake ELSE sleepTill
  /\ UNCHANGED <<now, notified>>
  /\ LET batch == DueEntries([key |-> now, id |-> address])
         ids == {e.id : e \in batch}
         again == {t \in ids : recursive[t]}
     IN /\ Len(queue) + Cardinality(ids) <= MaxQueue
        /\ \E order \in [1 .. Cardinality(ids) -> ids] :
             /\ \A i, j \in DOMAIN order : i < j => Less(Entry(order[i]), Entry(order[j]))
             /\ queue' = queue \o order
        /\ expire' = [t \in Timers |-> IF t \in again THEN now + interval[t] ELSE expire[t]]
        /\ func' = [t \in Timers |-> func[t] /\ (t \in ids => recursive[t])]
        /\ timers' = (timers \ batch) \cup {[key |-> now + interval[t], id |-> t] : t \in again}
  /\ UNCHANGED <<stage, interval, recursive, cancelled>>

\* A worker runs the next function.
Run ==
  /\ queue # <<>>
  /\ queue' = Tail(queue)
  /\ UNCHANGED <<clock, stage, expire, interval, recursive, func, timers, cancelled>>

TimerNext ==
  \/ Tick \/ GetExpire \/ Run
  \/ \E address \in Addresses, mine \in BOOLEAN : Expired(address, mine)
  \/ \E t \in Timers :
       \/ Insert(t) \/ Cancel(t) \/ Refresh(t)
       \/ \E i \in Intervals :
            \/ \E rec \in BOOLEAN : Construct(t, i, rec)
            \/ \E fromNow \in BOOLEAN : Reset(t, i, fromNow)

TimerSpec == TimerInit /\ [][TimerNext]_timerVars

-----------------------------------------------------------------------------
(* Properties *)

TimerTypeOK ==
  /\ now \in Nat
  /\ stage \in [Timers -> {"none", "made", "used"}]
  /\ expire \in [Timers -> Nat]
  /\ interval \in [Timers -> Nat]
  /\ recursive \in [Timers -> BOOLEAN]
  /\ func \in [Timers -> BOOLEAN]
  /\ timers \in SUBSET Entries
  /\ sleepTill \in Nat \cup {Awake, Forever}
  /\ notified \in BOOLEAN
  /\ queue \in Seq(Timers)
  /\ cancelled \in SUBSET Timers

\* timers_ stays ordered and searchable: no operation changes expire_ of a timer
\* that is in the set, and a timer is in the set exactly while func_ is set, so
\* cancel() never meets "remove an unexisted timer".
SetConsistent ==
  /\ \A e \in timers : e.key = expire[e.id]
  /\ \A t \in Timers : stage[t] = "used" => (func[t] <=> Entry(t) \in timers)

\* TimeManager's side of waking a sleeping worker: since the worker computed its
\* timeout, timerInsertAtFront was called or no timer expires before that timeout
\* is over, although refresh() and the re-arming of recursive timers call nobody.
\* Whom timerInsertAtFront reaches is Worker's NotifyCheck.
NoOversleep ==
  sleepTill # Awake /\ ~notified =>
    \A e \in timers : sleepTill # Forever /\ (sleepTill <= now \/ sleepTill <= e.key)

\* When cancel() of a one-shot timer returns true, its function was not handed
\* out and never will be: whoever cancels may free what the function uses.
CancelIsFinal ==
  \A t \in cancelled : ~recursive[t] => \A i \in DOMAIN queue : queue[i] # t

\* expiredFunctions hands out exactly the timers that are due, none early and
\* none left, in the order in which they expire.
HandsOutDue ==
  [][Len(queue') > Len(queue) =>
       LET batch == SubSeq(queue', Len(queue) + 1, Len(queue'))
       IN /\ \A t \in Timers :
               (\E i \in DOMAIN batch : batch[i] = t)
                 <=> (Entry(t) \in timers /\ expire[t] <= now)
          /\ \A i, j \in DOMAIN batch : i < j => expire[batch[i]] <= expire[batch[j]]]_timerVars
=============================================================================
