------------------------------ MODULE MCWorker ------------------------------
(* Instances of Worker for TLC. *)
EXTENDS Worker

CONSTANTS main, w1

\* Scheduler(1): mainWorker_ and one WorkerThread.
OneThread == {main, w1}
OwnedByThread == {w1}

FuncSymmetry == Permutations(Funcs)
=============================================================================
