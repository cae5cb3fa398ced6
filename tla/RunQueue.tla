------------------------------ MODULE RunQueue ------------------------------
(***************************************************************************)
(* What the workers promise to the caller of addTask(func): every function *)
(* is started by the worker it was given to, in the order of the calls,    *)
(* runs once, and ends at most once.                                       *)
(***************************************************************************)
EXTENDS Sequences

CONSTANTS Workers, Funcs

VARIABLES
  queue,  \* functions each worker has still to start, in order
  live,   \* functions started and not ended (running or suspended)
  done    \* functions that returned or threw

Init ==
  /\ queue = [w \in Workers |-> <<>>]
  /\ live = {}
  /\ done = {}

Known(f) == f \in live \cup done \/ \E w \in Workers : \E i \in DOMAIN queue[w] : queue[w][i] = f

Add(w, f) ==
  /\ ~Known(f)
  /\ queue' = [queue EXCEPT ![w] = Append(@, f)]
  /\ UNCHANGED <<live, done>>

Start(w) ==
  /\ queue[w] # <<>>
  /\ live' = live \cup {Head(queue[w])}
  /\ queue' = [queue EXCEPT ![w] = Tail(@)]
  /\ UNCHANGED done

End(f) ==
  /\ f \in live
  /\ live' = live \ {f}
  /\ done' = done \cup {f}
  /\ UNCHANGED queue

Next ==
  \/ \E w \in Workers, f \in Funcs : Add(w, f)
  \/ \E w \in Workers : Start(w)
  \/ \E f \in Funcs : End(f)

Spec == Init /\ [][Next]_<<queue, live, done>>
=============================================================================
