------------------------------ MODULE LogQueue ------------------------------
(***************************************************************************)
(* What an asynchronous log promises to the threads that write to it: the  *)
(* lines it accepts form one queue, and the file is a prefix of that       *)
(* queue.  No line is lost inside the log, written twice or overtaken by a *)
(* line accepted later, whichever thread wrote it.                         *)
(***************************************************************************)
EXTENDS Sequences, Naturals

CONSTANT Lines                      \* every line some thread may write
VARIABLES queue,                    \* accepted, not yet in the file
          out                       \* the contents of the file(s), in order

Init == queue = <<>> /\ out = <<>>

Accept == \E l \in Lines : queue' = Append(queue, l) /\ UNCHANGED out

Flush == \E n \in 1..Len(queue) :
            /\ out' = out \o SubSeq(queue, 1, n)
            /\ queue' = SubSeq(queue, n + 1, Len(queue))

Spec == Init /\ [][Accept \/ Flush]_<<queue, out>>
=============================================================================
