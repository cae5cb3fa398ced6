---------------------------- MODULE MCScheduler -----------------------------
(* Instances of Scheduler for TLC. *)
EXTENDS Scheduler

CONSTANTS main, w1

\* Scheduler(1) has the main worker and one WorkerThread, Scheduler(3) two.
OneThread == {main, w1}
OwnedByOne == {w1}
=============================================================================
