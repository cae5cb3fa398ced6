------------------------------ MODULE AsyncLog ------------------------------
(***************************************************************************)
(* The asynchronous log (asynclog.cc, fixedbuffer.h) under its two owners: *)
(* a FileAppender, which Logger shares with the threads that are logging   *)
(* (log.cc), and a global AsyncLog that is started, written to by threads  *)
(* that are then joined, and stopped (test/asynclog_test.cc).              *)
(*                                                                         *)
(* A buffer is the sequence of lines it holds; a moved-from unique_ptr is  *)
(* Null.  Lines the C library still buffers (fp_buf_) are apart from the   *)
(* ones on disk.  A critical section of mutex_ is one step.                *)
(***************************************************************************)
EXTENDS Naturals, Sequences, FiniteSets, SequencesExt

CONSTANTS Threads,                  \* the threads that write log lines
          MaxLines,                 \* bound: lines all threads write
          Sizes,                    \* the lengths a formatted line may have
          BufferSize,               \* kBufferSize
          MaxFileSize,              \* kMaxFileSize
          CheckRollPerN,            \* kCheckRollPerN
          Null

\* A program has finitely many threads, and a buffer fits into a file, as
\* 4096 bytes do into 64 MB.
ASSUME LogAssumption == /\ IsFiniteSet(Threads) /\ MaxLines \in Nat
                        /\ BufferSize \in Nat \ {0} /\ Sizes \subseteq Nat \ {0}
                        /\ MaxFileSize \in Nat /\ MaxFileSize >= BufferSize
                        /\ CheckRollPerN \in Nat \ {0}

VARIABLES
  owner,        \* who owns the AsyncLog: "logger" or "global"
  ref,          \* Logger::appender_ (or the program) still refers to it
  alive,        \* the AsyncLog object has not been destroyed
  holder,       \* holder[t]: where thread t is in Logger::append
  sent,         \* lines passed to the log so far
  running, exit,                            \* running_, exit_
  latch,                                    \* latch_
  currBuffer, backupBuffer, buffers,        \* shared with the log thread
  pc,                                       \* the log thread
  woken,                                    \* its wait on cond_ is over
  firstBuffer, secondBuffer, taken,         \* locals of threadFunc
  next,                                     \* the next of taken to write
  writed, count,                            \* LogFile::writed_, count_
  stdio, disk                               \* lines in fp_buf_, in the file

objVars == <<owner, ref, alive, holder, sent, running, exit, latch>>
frontVars == <<currBuffer, backupBuffer, buffers>>
threadVars == <<firstBuffer, secondBuffer, taken, next>>
fileVars == <<writed, count, stdio, disk>>
vars == <<objVars, frontVars, threadVars, fileVars, pc, woken>>

Lines == [n : 1..MaxLines, len : Sizes]

Size(b) == FoldLeft(LAMBDA s, l : s + l.len, 0, b)
Avail(b) == BufferSize - Size(b)

\* FixedBuffer::append drops what does not fit, without a word.
Put(b, l) == IF Avail(b) >= l.len THEN Append(b, l) ELSE b

\* Mutant: the buffer is recycled with its old contents.
ResetNot(b) == b

\* FixedBuffer::reset
Reset(b) == <<>>

-----------------------------------------------------------------------------
(* The life of the object.                                                 *)

Init ==
  /\ owner \in {"logger", "global"}
  /\ ref = TRUE /\ alive = TRUE
  /\ holder = [t \in Threads |-> "idle"] /\ sent = 0
  /\ running = FALSE /\ exit = FALSE /\ latch = 1
  /\ currBuffer = <<>> /\ backupBuffer = <<>> /\ buffers = <<>>
  /\ pc = "none" /\ woken = FALSE
  /\ firstBuffer = Null /\ secondBuffer = Null /\ taken = <<>> /\ next = 1
  /\ writed = 0 /\ count = 0 /\ stdio = <<>> /\ disk = <<>>

\* AsyncLog::start up to latch_.wait()
Start ==
  /\ ~running /\ pc = "none"
  /\ running' = TRUE /\ pc' = "begin"
  /\ UNCHANGED <<owner, ref, alive, holder, sent, exit, latch, frontVars,
                 threadVars, fileVars, woken>>

Started == running /\ latch = 0         \* start() has returned

Holders == {t \in Threads : holder[t] # "idle"}

\* AsyncLog::stop: notify() is not under the mutex, and reaches the log
\* thread only if it waits at that moment.
Stopped == exit' = TRUE /\ woken' = (woken \/ pc = "waiting")

\* ~FileAppender, run by whoever gives up the last reference: stop(), and
\* then ~AsyncLog (stop() again while running_) and its members, which the
\* detached thread still uses.
Destroyed == Stopped /\ alive' = FALSE

\* setConsoleAppender or setFileAppender replaces the appender of the Logger.
Replace ==
  /\ owner = "logger" /\ Started /\ ref
  /\ ref' = FALSE
  /\ IF Holders = {} THEN Destroyed ELSE UNCHANGED <<exit, woken, alive>>
  /\ UNCHANGED <<owner, holder, sent, running, latch, frontVars, threadVars,
                 fileVars, pc>>

\* The program stops its global log after joining the writing threads.
StopGlobal ==
  /\ owner = "global" /\ Started /\ ~exit /\ Holders = {}
  /\ Stopped
  /\ UNCHANGED <<owner, ref, alive, holder, sent, running, latch, frontVars,
                 threadVars, fileVars, pc>>

-----------------------------------------------------------------------------
(* The writing threads.                                                    *)

\* Logger::append takes its own reference under the Logger's mutex and
\* formats the line without it.
Snapshot(t) ==
  /\ holder[t] = "idle" /\ sent + Cardinality({u \in Threads : holder[u] = "hold"}) < MaxLines
  /\ IF owner = "logger" THEN ref /\ Started
                         ELSE Started /\ ~exit
  /\ holder' = [holder EXCEPT ![t] = "hold"]
  /\ UNCHANGED <<owner, ref, alive, sent, running, exit, latch, frontVars,
                 threadVars, fileVars, pc, woken>>

\* AsyncLog::append
AppendLine(t, len) ==
  LET l == [n |-> sent + 1, len |-> len] IN
  /\ holder[t] = "hold"
  /\ holder' = [holder EXCEPT ![t] = "release"]
  /\ sent' = sent + 1
  /\ IF Avail(currBuffer) > len
     THEN currBuffer' = Put(currBuffer, l) /\ UNCHANGED <<backupBuffer, buffers, woken>>
     ELSE /\ buffers' = Append(buffers, currBuffer)
          /\ currBuffer' = Put(IF backupBuffer # Null THEN backupBuffer ELSE <<>>, l)
          /\ backupBuffer' = Null
          /\ woken' = (woken \/ pc = "waiting")
  /\ UNCHANGED <<owner, ref, alive, running, exit, latch, threadVars, fileVars, pc>>

\* Mutant: appender_ is used through a reference that is not counted.
ReleaseUncounted(t) ==
  /\ holder[t] = "release"
  /\ holder' = [holder EXCEPT ![t] = "idle"]
  /\ IF ~ref THEN Destroyed ELSE UNCHANGED <<exit, woken, alive>>
  /\ UNCHANGED <<owner, ref, sent, running, latch, frontVars, threadVars,
                 fileVars, pc>>

\* The reference goes out of scope at the end of Logger::append.
Release(t) ==
  /\ holder[t] = "release"
  /\ holder' = [holder EXCEPT ![t] = "idle"]
  /\ IF Holders = {t} /\ ~ref THEN Destroyed ELSE UNCHANGED <<exit, woken, alive>>
  /\ UNCHANGED <<owner, ref, sent, running, latch, frontVars, threadVars,
                 fileVars, pc>>

-----------------------------------------------------------------------------
(* The log thread: threadFunc.                                             *)

Begin ==
  /\ pc = "begin"
  /\ firstBuffer' = <<>> /\ secondBuffer' = <<>>
  /\ latch' = 0 /\ pc' = "top"
  /\ UNCHANGED <<owner, ref, alive, holder, sent, running, exit, frontVars,
                 taken, next, fileVars, woken>>

\* Mutant: the loop is left at once when exit_ is set.
TopBreak ==
  /\ pc = "top" /\ alive
  /\ running' = (running /\ ~exit)
  /\ pc' = IF running' THEN "lock" ELSE "done"
  /\ UNCHANGED <<owner, ref, alive, holder, sent, exit, latch, frontVars,
                 threadVars, fileVars, woken>>

\* The loop test and the test of exit_.
Top ==
  /\ pc = "top" /\ alive
  /\ running' = (running /\ ~exit)
  /\ pc' = IF running THEN "lock" ELSE "done"
  /\ UNCHANGED <<owner, ref, alive, holder, sent, exit, latch, frontVars,
                 threadVars, fileVars, woken>>

Wait ==
  /\ pc = "lock" /\ alive /\ buffers = <<>>
  /\ pc' = "waiting" /\ woken' = FALSE
  /\ UNCHANGED <<objVars, frontVars, threadVars, fileVars>>

\* Mutant: the log thread waits until it is notified.
WaitForever == FALSE /\ UNCHANGED vars

\* waitForSeconds(2)
WaitTimeout ==
  /\ pc = "waiting" /\ alive /\ ~woken
  /\ woken' = TRUE
  /\ UNCHANGED <<objVars, frontVars, threadVars, fileVars, pc>>

\* Mutant: the current buffer goes in front of the full ones.
SwapCurrentFirst ==
  /\ alive /\ \/ pc = "lock" /\ buffers # <<>>
              \/ pc = "waiting" /\ woken
  /\ taken' = <<currBuffer>> \o buffers /\ buffers' = <<>>
  /\ currBuffer' = firstBuffer /\ firstBuffer' = Null
  /\ IF backupBuffer = Null
     THEN backupBuffer' = secondBuffer /\ secondBuffer' = Null
     ELSE UNCHANGED <<backupBuffer, secondBuffer>>
  /\ pc' = "write" /\ next' = 1
  /\ UNCHANGED <<objVars, fileVars, woken>>

\* The buffers of the writing threads are exchanged for empty ones.
Swap ==
  /\ alive /\ \/ pc = "lock" /\ buffers # <<>>
              \/ pc = "waiting" /\ woken
  /\ taken' = Append(buffers, currBuffer) /\ buffers' = <<>>
  /\ currBuffer' = firstBuffer /\ firstBuffer' = Null
  /\ IF backupBuffer = Null
     THEN backupBuffer' = secondBuffer /\ secondBuffer' = Null
     ELSE UNCHANGED <<backupBuffer, secondBuffer>>
  /\ pc' = "write" /\ next' = 1
  /\ UNCHANGED <<objVars, fileVars, woken>>

\* LogFile::append of one buffer.  rollFile closes the file, which flushes it;
\* every CheckRollPerN buffers the clock may ask for a roll, a flush or neither.
WriteOne ==
  LET b == taken[next]
      full == writed + Size(b) > MaxFileSize
      check == (IF full THEN 0 ELSE count) + 1 >= CheckRollPerN
      out == (IF full THEN <<>> ELSE stdio) \o b
      safe == disk \o (IF full THEN stdio ELSE <<>>)
      size == (IF full THEN 0 ELSE writed) + Size(b)
  IN /\ pc = "write" /\ next <= Len(taken)
     /\ next' = next + 1
     /\ \E clock \in IF check THEN {"day", "flush", "none"} ELSE {"none"} :
          /\ count' = IF check THEN 0 ELSE (IF full THEN 0 ELSE count) + 1
          /\ writed' = IF clock = "day" THEN 0 ELSE size
          /\ disk' = IF clock = "none" THEN safe ELSE safe \o out
          /\ stdio' = IF clock = "none" THEN out ELSE <<>>
     /\ UNCHANGED <<objVars, frontVars, firstBuffer, secondBuffer, taken, pc, woken>>

\* The written buffers become the spares; the rest are freed.
Recycle ==
  /\ pc = "write" /\ next > Len(taken)
  /\ firstBuffer' = Reset(taken[1])
  /\ secondBuffer' = IF secondBuffer # Null THEN secondBuffer
                     ELSE IF Len(taken) >= 2 THEN Reset(taken[2]) ELSE <<>>
  /\ taken' = <<>>
  /\ disk' = disk \o stdio /\ stdio' = <<>>             \* logfile.flush()
  /\ pc' = "top"
  /\ UNCHANGED <<objVars, frontVars, next, writed, count, woken>>

\* The object is gone: what the thread does next is undefined.
UseAfterFree ==
  /\ ~alive /\ pc \in {"top", "lock", "waiting"}
  /\ pc' = "undefined"
  /\ UNCHANGED <<objVars, frontVars, threadVars, fileVars, woken>>

LogThread == \/ Begin \/ Top \/ Wait \/ WaitTimeout \/ Swap \/ WriteOne
             \/ Recycle \/ UseAfterFree

Next == \/ Start \/ Replace \/ StopGlobal \/ LogThread
        \/ \E t \in Threads : \/ Snapshot(t) \/ Release(t)
                              \/ \E len \in Sizes : AppendLine(t, len)

\* The log thread is scheduled like any thread, and its wait ends by itself;
\* nothing obliges the program to log, to replace the appender or to stop.
Spec == Init /\ [][Next]_vars /\ WF_vars(LogThread)

-----------------------------------------------------------------------------
(* Properties.                                                             *)

(* Type invariant.  In particular append never finds currBuffer_ moved     *)
(* from, and the exchange never hands the writers a moved-from             *)
(* firstBuffer: three or more buffers are in motion and two are spare.     *)
IsBuffer(b) == /\ b \in Seq(Lines) /\ Size(b) <= BufferSize
TypeOK ==
  /\ owner \in {"logger", "global"}
  /\ {ref, alive, running, exit, woken} \subseteq BOOLEAN /\ latch \in 0..1
  /\ holder \in [Threads -> {"idle", "hold", "release"}]
  /\ sent \in 0..MaxLines
  /\ IsBuffer(currBuffer)
  /\ backupBuffer # Null => backupBuffer = <<>>
  /\ pc \in {"top", "lock", "waiting"} => firstBuffer = <<>> /\ secondBuffer = <<>>
  /\ \A i \in DOMAIN buffers : IsBuffer(buffers[i])
  /\ \A i \in DOMAIN taken : IsBuffer(taken[i])
  /\ pc \in {"none", "begin", "top", "lock", "waiting", "write", "done", "undefined"}
  /\ writed \in 0..MaxFileSize /\ count \in 0..CheckRollPerN - 1

(* A thread that is inside Logger::append writes to a log that exists,     *)
(* whatever another thread does to the Logger's appender meanwhile.        *)
HeldIsAlive == Holders # {} => alive /\ ~exit

Pending == stdio \o FlattenSeq(SubSeq(taken, next, Len(taken)))
                 \o FlattenSeq(buffers) \o currBuffer

(* The two pairs of buffers, the spares and the file together are one      *)
(* queue: lines reach the file once, whole and in the order of append.     *)
Queue == INSTANCE LogQueue WITH queue <- Pending, out <- disk
FifoLog == Queue!Spec

(* Every line the log accepts reaches the disk, also the ones that never   *)
(* fill a buffer and the ones accepted just before stop(), unless the      *)
(* object is destroyed under its thread.                                   *)
LineWritten ==
  \A k \in 1..MaxLines :
    (\E i \in DOMAIN Pending : Pending[i].n = k)
      ~> (~alive \/ \E i \in DOMAIN disk : disk[i].n = k)

(* After stop() the log thread writes what is left and ends, unless the    *)
(* object is destroyed under it.                                           *)
LastWrite == exit ~> (~alive \/ (pc = "done" /\ Pending = <<>>))
=============================================================================
