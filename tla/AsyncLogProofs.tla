--------------------------- MODULE AsyncLogProofs ---------------------------
(***************************************************************************)
(* AsyncLog for any number of threads, any sizes of lines, of buffers and  *)
(* of files: the type invariant, that a log in use is never destroyed or   *)
(* stopped, and that the buffers in motion implement one queue (LogQueue). *)
(***************************************************************************)
EXTENDS AsyncLog, SeqLemmas

-----------------------------------------------------------------------------
(* The size of a buffer: what FoldLeft computes.                           *)

\* f[s] is the total length of the lines of b at the positions in s.
Sums(f, b, k) ==
  \A s \in SUBSET (1 .. k) : f[s] = IF s = {} THEN 0 ELSE f[s \ {Max(s)}] + b[Max(s)].len

\* The largest of some positions up to k that include k.
LEMMA MaxIsLast ==
  ASSUME NEW k \in Nat \ {0}, NEW s \in SUBSET (1 .. k), k \in s
  PROVE  Max(s) = k
<1>1. \A y \in s : k >= y
  OBVIOUS
<1>2. Max(s) \in s /\ \A y \in s : Max(s) >= y
  BY <1>1 DEF Max
<1>3. Max(s) \in Nat
  <2>1. \A y \in s : y \in Nat
    OBVIOUS
  <2> QED
    BY <1>2, <2>1, Zenon
<1> QED
  BY <1>1, <1>2, <1>3

\* Positions up to k are positions up to k - 1, and perhaps k.
LEMMA SplitLast ==
  ASSUME NEW k \in Nat \ {0}, NEW s \in SUBSET (1 .. k)
  PROVE  /\ k \notin s => s \in SUBSET (1 .. k - 1)
         /\ s \ {k} \in SUBSET (1 .. k - 1)
  OBVIOUS

\* Two such functions agree as far as their buffers do.
LEMMA SumsUnique ==
  ASSUME NEW n \in Nat, NEW f, NEW g, NEW a, NEW b, Sums(f, a, n), Sums(g, b, n),
         \A i \in 1 .. n : a[i] = b[i]
  PROVE  \A s \in SUBSET (1 .. n) : f[s] = g[s]
<1> DEFINE Bad == {k \in 0 .. n : \E s \in SUBSET (1 .. k) : f[s] # g[s]}
<1> SUFFICES ASSUME Bad # {} PROVE FALSE
  <2>1. n \in 0 .. n
    OBVIOUS
  <2> QED
    BY <2>1, Zenon
<1>1. Bad \subseteq Nat
  OBVIOUS
<1>2. PICK m \in Bad : \A k \in Bad : m <= k
  BY <1>1, LeastNatural, Zenon
<1>3. m \in 0 .. n /\ \E s \in SUBSET (1 .. m) : f[s] # g[s]
  BY <1>2
<1>4. PICK s \in SUBSET (1 .. m) : f[s] # g[s]
  BY <1>3
<1>5. s \in SUBSET (1 .. n)
  BY <1>3
<1>6. s # {}
  BY <1>4, <1>5 DEF Sums
<1>7. m \in Nat \ {0} /\ m - 1 \in 0 .. n /\ ~(m <= m - 1)
  <2> HIDE DEF Bad
  <2>1. m \in Nat /\ m <= n
    BY <1>3
  <2>2. m # 0
    <3>1. 1 .. 0 = {}
      OBVIOUS
    <3> QED
      BY <1>6, <3>1
  <2> QED
    BY <2>1, <2>2
<1>8. \A r \in SUBSET (1 .. m - 1) : f[r] = g[r]
  <2>1. m - 1 \notin Bad
    <3> HIDE DEF Bad
    <3> QED
      BY <1>2, <1>7, Zenon
  <2> QED
    BY <2>1, <1>7, Zenon
<1>9. m \in s
  BY <1>4, <1>7, <1>8, SplitLast
<1>10. Max(s) = m /\ s \ {m} \in SUBSET (1 .. m - 1)
  BY <1>7, <1>9, MaxIsLast, SplitLast
<1>11. f[s] = f[s \ {m}] + a[m].len /\ g[s] = g[s \ {m}] + b[m].len
  BY <1>5, <1>6, <1>10 DEF Sums
<1>12. a[m] = b[m] /\ f[s \ {m}] = g[s \ {m}]
  BY <1>3, <1>7, <1>8, <1>10
<1> QED
  BY <1>4, <1>11, <1>12

\* There is such a function for every buffer.
LEMMA SumsExists ==
  ASSUME NEW b \in Seq(Lines), Sizes \subseteq Nat
  PROVE  \E f \in [SUBSET (1 .. Len(b)) -> Nat] : Sums(f, b, Len(b))
<1> DEFINE Bad == {k \in 0 .. Len(b) : ~\E f \in [SUBSET (1 .. k) -> Nat] : Sums(f, b, k)}
<1>0. Len(b) \in Nat /\ Len(b) \in 0 .. Len(b)
  OBVIOUS
<1> SUFFICES ASSUME Bad # {} PROVE FALSE
  BY <1>0, Zenon
<1>1. Bad \subseteq Nat
  OBVIOUS
<1>2. PICK m \in Bad : \A k \in Bad : m <= k
  BY <1>1, LeastNatural, Zenon
<1>3. m \in 0 .. Len(b) /\ ~\E f \in [SUBSET (1 .. m) -> Nat] : Sums(f, b, m)
  BY <1>2
<1>4. m # 0
  <2> DEFINE z == [s \in SUBSET (1 .. 0) |-> 0]
  <2>1. z \in [SUBSET (1 .. 0) -> Nat]
    OBVIOUS
  <2>2. Sums(z, b, 0)
    <3>1. \A s \in SUBSET (1 .. 0) : s = {} /\ z[s] = 0
      OBVIOUS
    <3> QED
      BY <3>1, Zenon DEF Sums
  <2> QED
    BY <1>3, <2>1, <2>2
<1>5. m \in Nat \ {0} /\ m - 1 \in 0 .. Len(b) /\ ~(m <= m - 1) /\ m \in 1 .. Len(b)
  BY <1>0, <1>3, <1>4
<1>6. PICK g \in [SUBSET (1 .. m - 1) -> Nat] : Sums(g, b, m - 1)
  <2>1. m - 1 \notin Bad
    <3> HIDE DEF Bad
    <3> QED
      BY <1>2, <1>5, Zenon
  <2> QED
    BY <2>1, <1>5, Zenon
<1>7. b[m] \in Lines /\ b[m].len \in Nat
  <2> HIDE DEF Bad
  <2>1. b[m] \in Lines
    BY <1>5, ElementOfSeq
  <2> QED
    BY <2>1 DEF Lines
<1> DEFINE h == [s \in SUBSET (1 .. m) |-> IF m \in s THEN g[s \ {m}] + b[m].len ELSE g[s]]
<1>8. h \in [SUBSET (1 .. m) -> Nat]
  <2> SUFFICES ASSUME NEW s \in SUBSET (1 .. m)
               PROVE  (IF m \in s THEN g[s \ {m}] + b[m].len ELSE g[s]) \in Nat
    OBVIOUS
  <2>1. s \ {m} \in SUBSET (1 .. m - 1) /\ (m \notin s => s \in SUBSET (1 .. m - 1))
    BY <1>5, SplitLast
  <2>2. g[s \ {m}] \in Nat /\ (m \notin s => g[s] \in Nat)
    BY <1>6, <2>1
  <2> QED
    BY <1>7, <2>2
<1>9. \A r \in SUBSET (1 .. m - 1) : r \in SUBSET (1 .. m) /\ m \notin r
  BY <1>5
<1>10. \A r \in SUBSET (1 .. m - 1) : h[r] = g[r]
  BY <1>9, Zenon
<1>11. Sums(h, b, m)
  <2> SUFFICES ASSUME NEW s \in SUBSET (1 .. m)
               PROVE  h[s] = IF s = {} THEN 0 ELSE h[s \ {Max(s)}] + b[Max(s)].len
    BY Zenon DEF Sums
  <2>1. CASE m \in s
    <3>1. Max(s) = m /\ s # {} /\ s \ {m} \in SUBSET (1 .. m - 1)
      BY <1>5, <2>1, MaxIsLast, SplitLast
    <3>2. h[s] = g[s \ {m}] + b[m].len
      BY <2>1
    <3> QED
      BY <1>10, <3>1, <3>2, Zenon
  <2>2. CASE m \notin s
    <3>1. s \in SUBSET (1 .. m - 1) /\ s \ {Max(s)} \in SUBSET (1 .. m - 1)
      BY <1>5, <2>2, SplitLast
    <3>2. g[s] = IF s = {} THEN 0 ELSE g[s \ {Max(s)}] + b[Max(s)].len
      BY <1>6, <3>1, Zenon DEF Sums
    <3> QED
      BY <1>10, <3>1, <3>2, Zenon
  <2> QED
    BY <2>1, <2>2, Zenon
<1> QED
  BY <1>3, <1>8, <1>11, Zenon

\* Size(b) is the sum over all positions of b.
LEMMA SizeIs ==
  ASSUME NEW b \in Seq(Lines), Sizes \subseteq Nat
  PROVE  \E f \in [SUBSET (1 .. Len(b)) -> Nat] :
            Sums(f, b, Len(b)) /\ Size(b) = f[1 .. Len(b)]
<1> DEFINE D == 1 .. Len(b)
           Is(f) == f = [s \in SUBSET D |-> IF s = {} THEN 0 ELSE f[s \ {Max(s)}] + b[Max(s)].len]
           c == CHOOSE f : Is(f)
<1>1. Len(b) \in Nat /\ DOMAIN b = D
  OBVIOUS
<1>2. Size(b) = (CHOOSE iter : iter = [s \in SUBSET (DOMAIN b) |->
                    IF s = {} THEN 0 ELSE iter[s \ {Max(s)}] + b[Max(s)].len])[DOMAIN b]
  BY DEF Size, FoldLeft, MapThenFoldSet
<1>3. Size(b) = c[D]
  BY <1>1, <1>2
<1>4. PICK g \in [SUBSET D -> Nat] : Sums(g, b, Len(b))
  BY SumsExists
<1>5. g = [s \in SUBSET D |-> IF s = {} THEN 0 ELSE g[s \ {Max(s)}] + b[Max(s)].len]
  BY <1>4 DEF Sums
<1>6. Is(c)
  BY <1>5
<1> HIDE DEF c
<1>7. Sums(c, b, Len(b))
  BY <1>6 DEF Sums
<1>8. c[D] = g[D]
  BY <1>1, <1>4, <1>7, SumsUnique
<1> QED
  BY <1>3, <1>4, <1>8

\* An empty buffer has size 0, and a line adds its length.
LEMMA SizeFacts ==
  ASSUME Sizes \subseteq Nat
  PROVE  /\ Size(<<>>) = 0
         /\ \A b \in Seq(Lines) : Size(b) \in Nat
         /\ \A b \in Seq(Lines), l \in Lines : Size(Append(b, l)) = Size(b) + l.len
<1>1. Size(<<>>) = 0
  <2>1. <<>> \in Seq(Lines) /\ Len(<<>>) = 0 /\ 1 .. 0 = {} /\ {} \in SUBSET (1 .. 0)
    OBVIOUS
  <2>2. PICK f : Sums(f, <<>>, 0) /\ Size(<<>>) = f[1 .. 0]
    BY <2>1, SizeIs
  <2> QED
    BY <2>1, <2>2, Zenon DEF Sums
<1>2. ASSUME NEW b \in Seq(Lines) PROVE Size(b) \in Nat
  BY SizeIs
<1>3. ASSUME NEW b \in Seq(Lines), NEW l \in Lines
      PROVE  Size(Append(b, l)) = Size(b) + l.len
  <2> DEFINE n == Len(b)
             a == Append(b, l)
  <2>1. /\ n \in Nat /\ a \in Seq(Lines) /\ Len(a) = n + 1
        /\ (\A i \in 1 .. n : a[i] = b[i]) /\ a[n + 1] = l
    BY AppendProperties
  <2>2. PICK g : Sums(g, b, n) /\ Size(b) = g[1 .. n]
    BY SizeIs
  <2>3. \E f : Sums(f, a, Len(a)) /\ Size(a) = f[1 .. Len(a)]
    BY <2>1, SizeIs
  <2> HIDE DEF n, a
  <2>4. PICK f : Sums(f, a, n + 1) /\ Size(a) = f[1 .. n + 1]
    BY <2>1, <2>3
  <2>5. /\ n + 1 \in Nat \ {0} /\ 1 .. n + 1 \in SUBSET (1 .. n + 1) /\ n + 1 \in 1 .. n + 1
        /\ (1 .. n + 1) \ {n + 1} = 1 .. n /\ 1 .. n + 1 # {} /\ 1 .. n \in SUBSET (1 .. n)
        /\ \A s \in SUBSET (1 .. n) : s \in SUBSET (1 .. n + 1)
    <3>1. n \in Nat
      BY <2>1
    <3>2. \A i : i \in (1 .. n + 1) \ {n + 1} <=> i \in 1 .. n
      BY <3>1
    <3>3. (1 .. n + 1) \ {n + 1} = 1 .. n
      BY <3>2
    <3>4. n + 1 \in Nat \ {0} /\ n + 1 \in 1 .. n + 1 /\ 1 .. n \subseteq 1 .. n + 1
      BY <3>1
    <3>5. \A s \in SUBSET (1 .. n) : s \in SUBSET (1 .. n + 1)
      BY <3>4
    <3>6. 1 .. n + 1 # {} /\ 1 .. n \in SUBSET (1 .. n) /\ 1 .. n + 1 \in SUBSET (1 .. n + 1)
      BY <3>4
    <3> QED
      BY <3>3, <3>4, <3>5, <3>6
  <2>6. Max(1 .. n + 1) = n + 1
    BY <2>5, MaxIsLast
  <2>7. f[1 .. n + 1] = f[1 .. n] + l.len
    <3>1. f[1 .. n + 1] = f[(1 .. n + 1) \ {Max(1 .. n + 1)}] + a[Max(1 .. n + 1)].len
      BY <2>4, <2>5, Zenon DEF Sums
    <3> QED
      BY <2>1, <2>5, <2>6, <3>1, Zenon
  <2>8. f[1 .. n] = g[1 .. n]
    <3>1. Sums(f, a, n)
      BY <2>4, <2>5, Zenon DEF Sums
    <3>2. \A s \in SUBSET (1 .. n) : f[s] = g[s]
      BY <2>1, <2>2, <3>1, SumsUnique
    <3> QED
      BY <3>2, <2>5
  <2> QED
    BY <2>2, <2>4, <2>7, <2>8 DEF a
<1> QED
  BY <1>1, <1>2, <1>3


-----------------------------------------------------------------------------
(* The inductive invariant.                                                *)

Buffers == {b \in Seq(Lines) : Size(b) <= BufferSize}
Holding == {u \in Threads : holder[u] = "hold"}

\* A spare buffer is empty or moved from; the spares are both back when the
\* log thread is not writing, and it has nothing left to write then.
Typed ==
  /\ owner \in {"logger", "global"}
  /\ ref \in BOOLEAN /\ alive \in BOOLEAN /\ running \in BOOLEAN /\ exit \in BOOLEAN
  /\ woken \in BOOLEAN /\ latch \in 0 .. 1
  /\ holder \in [Threads -> {"idle", "hold", "release"}]
  /\ currBuffer \in Buffers /\ buffers \in Seq(Buffers) /\ taken \in Seq(Buffers)
  /\ (backupBuffer # Null => backupBuffer = <<>>) /\ (secondBuffer # Null => secondBuffer = <<>>)
  /\ pc \in {"top", "lock", "waiting"} => firstBuffer = <<>> /\ secondBuffer = <<>>
  /\ next \in Nat \ {0} /\ (pc # "write" => taken = <<>>)
  /\ pc \in {"none", "begin", "top", "lock", "waiting", "write", "done", "undefined"}
  /\ writed \in 0 .. MaxFileSize /\ count \in 0 .. CheckRollPerN - 1
  /\ stdio \in Seq(Lines) /\ disk \in Seq(Lines)

\* A thread inside Logger::append has a line number of its own.
Budget == sent \in Nat /\ sent + Cardinality(Holding) <= MaxLines

\* The Logger's reference keeps the log alive and, as its destructor is what
\* stops it, running; the program never gives up its global log.
Life ==
  /\ ref => alive
  /\ owner = "logger" /\ ref => ~exit
  /\ owner = "global" => ref
  /\ HeldIsAlive

IInv == Typed /\ Budget /\ Life


-----------------------------------------------------------------------------
(* What the actions do to buffers and to the threads that hold the log.    *)

\* FixedBuffer: empty after reset, within its size after append.
LEMMA BufferFacts ==
  /\ <<>> \in Buffers
  /\ \A b \in Buffers : b \in Seq(Lines) /\ Size(b) \in 0 .. BufferSize
  /\ \A b \in Buffers, l \in Lines : Put(b, l) \in Buffers
  /\ Seq(Buffers) \subseteq Seq(Seq(Lines))
<1>1. Sizes \subseteq Nat /\ BufferSize \in Nat
  BY LogAssumption
<1>2. /\ Size(<<>>) = 0
      /\ \A b \in Seq(Lines) : Size(b) \in Nat
      /\ \A b \in Seq(Lines), l \in Lines : Size(Append(b, l)) = Size(b) + l.len
  BY <1>1, SizeFacts, Zenon
<1>3. <<>> \in Buffers
  <2>1. <<>> \in Seq(Lines) /\ 0 <= BufferSize
    BY <1>1
  <2> QED
    BY <1>2, <2>1 DEF Buffers
<1>4. \A b \in Buffers : b \in Seq(Lines) /\ Size(b) \in 0 .. BufferSize
  BY <1>1, <1>2 DEF Buffers
<1>5. ASSUME NEW b \in Buffers, NEW l \in Lines PROVE Put(b, l) \in Buffers
  <2>1. b \in Seq(Lines) /\ Size(b) \in Nat /\ Append(b, l) \in Seq(Lines)
    BY <1>4, AppendProperties
  <2>2. Size(Append(b, l)) = Size(b) + l.len
    BY <1>2, <2>1
  <2>3. l.len \in Nat
    BY <1>1 DEF Lines
  <2>4. CASE Avail(b) >= l.len
    <3>1. Size(Append(b, l)) <= BufferSize
      BY <1>1, <2>1, <2>2, <2>3, <2>4 DEF Avail
    <3> QED
      BY <2>1, <2>4, <3>1 DEF Put, Buffers
  <2>5. CASE ~(Avail(b) >= l.len)
    BY <2>5 DEF Put
  <2> QED
    BY <2>4, <2>5
<1>6. Seq(Buffers) \subseteq Seq(Seq(Lines))
  <2>1. Buffers \subseteq Seq(Lines)
    BY DEF Buffers
  <2> QED
    BY <2>1, SeqMonotonic
<1> QED
  BY <1>3, <1>4, <1>5, <1>6

\* The numbers of a line that some thread is about to append are not used up.
LEMMA HoldingFacts ==
  ASSUME Typed, Budget
  PROVE  /\ IsFiniteSet(Holding) /\ Cardinality(Holding) \in Nat
         /\ sent <= MaxLines
         /\ \A t \in Holding : Cardinality(Holding \ {t}) + 1 = Cardinality(Holding)
         /\ \A t \in Threads \ Holding : Cardinality(Holding \cup {t}) = Cardinality(Holding) + 1
<1>1. IsFiniteSet(Holding)
  BY LogAssumption, FS_Subset DEF Holding
<1>2. Cardinality(Holding) \in Nat
  BY <1>1, FS_CardinalityType
<1>3. sent <= MaxLines
  BY <1>2, LogAssumption DEF Budget
<1>4. ASSUME NEW t \in Holding PROVE Cardinality(Holding \ {t}) + 1 = Cardinality(Holding)
  BY <1>1, <1>2, FS_RemoveElement
<1>5. ASSUME NEW t \in Threads \ Holding PROVE Cardinality(Holding \cup {t}) = Cardinality(Holding) + 1
  BY <1>1, FS_AddElement
<1> QED
  BY <1>1, <1>2, <1>3, <1>4, <1>5

\* The line of AsyncLog::append.
LEMMA LineIsNew ==
  ASSUME Typed, Budget, NEW t \in Holding, NEW len \in Sizes
  PROVE  [n |-> sent + 1, len |-> len] \in Lines
<1>1. /\ Cardinality(Holding) \in Nat
      /\ Cardinality(Holding \ {t}) + 1 = Cardinality(Holding)
  BY HoldingFacts
<1>2. Cardinality(Holding \ {t}) \in Nat
  BY HoldingFacts, FS_RemoveElement, FS_CardinalityType, FS_Subset
<1>3. sent + 1 \in 1 .. MaxLines
  BY <1>1, <1>2, LogAssumption DEF Budget
<1> QED
  BY <1>3 DEF Lines

-----------------------------------------------------------------------------
(* Every action preserves the invariant.                                   *)

\* References are taken only through the Logger's own, which keeps the log alive.
LEMMA LifeStep == Typed /\ Life /\ [Next]_vars => Life'
<1> SUFFICES ASSUME Typed, Life, [Next]_vars PROVE Life'
  OBVIOUS
<1> USE DEF Life, HeldIsAlive, Holders, objVars
<1>1. CASE Start
  BY <1>1 DEF Start
<1>2. CASE Replace
  BY <1>2 DEF Replace, Destroyed, Stopped
<1>3. CASE StopGlobal
  BY <1>3 DEF StopGlobal, Stopped
<1>4. CASE Begin
  BY <1>4 DEF Begin
<1>5. CASE Top
  BY <1>5 DEF Top
<1>6. CASE Wait \/ WaitTimeout \/ Swap \/ WriteOne \/ Recycle \/ UseAfterFree
  <2>1. UNCHANGED objVars
    BY <1>6 DEF Wait, WaitTimeout, Swap, WriteOne, Recycle, UseAfterFree
  <2> QED
    BY <2>1
<1>7. ASSUME NEW t \in Threads, Snapshot(t) PROVE Life'
  <2>1. UNCHANGED <<owner, ref, alive, exit>> /\ (owner = "logger" => ref) /\ (owner # "logger" => ~exit)
    BY <1>7 DEF Snapshot
  <2>2. owner \in {"logger", "global"}
    BY DEF Typed
  <2>3. alive /\ ~exit
    BY <2>1, <2>2
  <2> QED
    BY <2>1, <2>3
<1>8. ASSUME NEW t \in Threads, Release(t) PROVE Life'
  <2>1. /\ holder[t] = "release" /\ UNCHANGED <<owner, ref>>
        /\ \A u \in Threads : holder'[u] # "idle" => u # t /\ holder[u] # "idle"
        /\ IF Holders = {t} /\ ~ref THEN Destroyed ELSE UNCHANGED <<exit, woken, alive>>
    BY <1>8 DEF Release, Typed
  <2>2. CASE Holders = {t} /\ ~ref
    <3>1. Holders' = {}
      BY <2>1, <2>2
    <3> QED
      BY <2>1, <2>2, <3>1
  <2>3. CASE ~(Holders = {t} /\ ~ref)
    BY <2>1, <2>3
  <2> QED
    BY <2>2, <2>3
<1>9. ASSUME NEW t \in Threads, NEW len \in Sizes, AppendLine(t, len) PROVE Life'
  <2>1. /\ holder[t] = "hold" /\ UNCHANGED <<owner, ref, alive, exit>>
    BY <1>9 DEF AppendLine
  <2> QED
    BY <2>1
<1>10. CASE UNCHANGED vars
  BY <1>10 DEF vars
<1> QED
  BY <1>1, <1>2, <1>3, <1>4, <1>5, <1>6, <1>7, <1>8, <1>9, <1>10 DEF Next, LogThread

\* A line is on its way or was accepted; taking one counts against MaxLines.
LEMMA BudgetStep == Typed /\ Budget /\ [Next]_vars => Budget'
<1> SUFFICES ASSUME Typed, Budget, [Next]_vars PROVE Budget'
  OBVIOUS
<1>0. MaxLines \in Nat /\ sent \in Nat /\ Cardinality(Holding) \in Nat
  BY HoldingFacts, LogAssumption DEF Budget
<1>1. CASE UNCHANGED <<holder, sent>>
  BY <1>1 DEF Budget, Holding
<1>2. ASSUME NEW t \in Threads, Snapshot(t) PROVE Budget'
  <2>1. /\ sent' = sent /\ sent + Cardinality(Holding) < MaxLines
        /\ t \in Threads \ Holding /\ Holding' = Holding \cup {t}
    BY <1>2 DEF Snapshot, Holding, Typed
  <2>2. Cardinality(Holding') = Cardinality(Holding) + 1
    BY <2>1, HoldingFacts
  <2> QED
    BY <1>0, <2>1, <2>2 DEF Budget
<1>3. ASSUME NEW t \in Threads, Release(t) PROVE Budget'
  <2>1. sent' = sent /\ Holding' = Holding
    BY <1>3 DEF Release, Holding, Typed
  <2> QED
    BY <2>1 DEF Budget
<1>4. ASSUME NEW t \in Threads, NEW len \in Sizes, AppendLine(t, len) PROVE Budget'
  <2>1. sent' = sent + 1 /\ t \in Holding /\ Holding' = Holding \ {t}
    BY <1>4 DEF AppendLine, Holding, Typed
  <2>2. Cardinality(Holding') + 1 = Cardinality(Holding)
    BY <2>1, HoldingFacts
  <2>3. Cardinality(Holding') \in Nat
    BY <2>1, HoldingFacts, FS_CardinalityType, FS_Subset
  <2> QED
    BY <1>0, <2>1, <2>2, <2>3 DEF Budget
<1>5. CASE Start \/ Replace \/ StopGlobal \/ LogThread \/ UNCHANGED vars
  <2>1. UNCHANGED <<holder, sent>>
    BY <1>5 DEF Start, Replace, StopGlobal, LogThread, Begin, Top, Wait, WaitTimeout, Swap,
                WriteOne, Recycle, UseAfterFree, vars, objVars
  <2> QED
    BY <1>1, <2>1
<1> QED
  BY <1>2, <1>3, <1>4, <1>5 DEF Next


\* Buffers are swapped and emptied, never invented: the two spare ones suffice.
LEMMA TypedStep == Typed /\ Budget /\ [Next]_vars => Typed'
<1> SUFFICES ASSUME Typed, Budget, [Next]_vars PROVE Typed'
  OBVIOUS
<1> USE DEF Typed, objVars, frontVars, threadVars, fileVars
<1>1. CASE Start
  BY <1>1 DEF Start
<1>2. CASE Replace
  <2>1. woken' \in BOOLEAN /\ exit' \in BOOLEAN /\ alive' \in BOOLEAN
    BY <1>2, Zenon DEF Replace, Destroyed, Stopped
  <2> QED
    BY <1>2, <2>1 DEF Replace
<1>3. CASE StopGlobal
  <2>1. woken' \in BOOLEAN /\ exit' \in BOOLEAN
    BY <1>3, Zenon DEF StopGlobal, Stopped
  <2> QED
    BY <1>3, <2>1 DEF StopGlobal
<1>4. CASE Begin
  BY <1>4 DEF Begin
<1>5. CASE Top
  <2>1. running' \in BOOLEAN
    BY <1>5, Zenon DEF Top
  <2> QED
    BY <1>5, <2>1 DEF Top
<1>6. CASE Wait
  BY <1>6 DEF Wait
<1>7. CASE WaitTimeout
  BY <1>7 DEF WaitTimeout
<1>8. CASE Swap
  <2>1. taken' \in Seq(Buffers) /\ buffers' \in Seq(Buffers) /\ currBuffer' \in Buffers
    <3>1. Append(buffers, currBuffer) \in Seq(Buffers) /\ <<>> \in Seq(Buffers)
      BY AppendProperties
    <3>2. firstBuffer = <<>>
      BY <1>8 DEF Swap
    <3> QED
      BY <1>8, <3>1, <3>2, BufferFacts DEF Swap
  <2> QED
    BY <1>8, <2>1 DEF Swap
<1>9. CASE WriteOne
  <2> DEFINE b == taken[next]
             full == writed + Size(b) > MaxFileSize
             out == (IF full THEN <<>> ELSE stdio) \o b
             safe == disk \o (IF full THEN stdio ELSE <<>>)
  <2>1. b \in Buffers
    BY <1>9, ElementOfSeq DEF WriteOne
  <2> HIDE DEF b
  <2>2. b \in Seq(Lines) /\ Size(b) \in Nat /\ Size(b) <= BufferSize
    <3>1. b \in Seq(Lines) /\ Size(b) \in 0 .. BufferSize
      BY <2>1, BufferFacts, Zenon
    <3> QED
      BY <3>1, LogAssumption
  <2>3. out \in Seq(Lines) /\ safe \in Seq(Lines) /\ safe \o out \in Seq(Lines)
    <3>1. <<>> \in Seq(Lines)
      OBVIOUS
    <3>2. out \in Seq(Lines) /\ safe \in Seq(Lines)
      BY <2>2, <3>1, ConcatProperties
    <3> HIDE DEF out, safe
    <3> QED
      BY <3>2, ConcatProperties
  <2>4. /\ next' \in Nat \ {0} /\ pc' = "write"
        /\ UNCHANGED <<objVars, frontVars, firstBuffer, secondBuffer, taken, pc, woken>>
    BY <1>9 DEF WriteOne
  <2>5. count' \in 0 .. CheckRollPerN - 1 /\ writed' \in 0 .. MaxFileSize
    BY <1>9, <2>2, LogAssumption, SMTT(60) DEF WriteOne, b
  <2>6. stdio' \in Seq(Lines) /\ disk' \in Seq(Lines)
    <3>1. disk' \in {safe, safe \o out} /\ stdio' \in {out, <<>>}
      BY <1>9, Zenon DEF WriteOne, b
    <3>2. <<>> \in Seq(Lines)
      OBVIOUS
    <3> HIDE DEF out, safe
    <3> QED
      BY <2>3, <3>1, <3>2
  <2> QED
    BY <1>9, <2>4, <2>5, <2>6
<1>10. CASE Recycle
  <2>1. disk \o stdio \in Seq(Lines) /\ <<>> \in Seq(Lines) /\ <<>> \in Seq(Buffers)
    BY ConcatProperties
  <2> QED
    BY <1>10, <2>1 DEF Recycle, Reset
<1>11. CASE UseAfterFree
  BY <1>11 DEF UseAfterFree
<1>12. ASSUME NEW t \in Threads, Snapshot(t) PROVE Typed'
  BY <1>12 DEF Snapshot
<1>13. ASSUME NEW t \in Threads, Release(t) PROVE Typed'
  <2>1. woken' \in BOOLEAN /\ exit' \in BOOLEAN /\ alive' \in BOOLEAN
    BY <1>13, Zenon DEF Release, Destroyed, Stopped
  <2> QED
    BY <1>13, <2>1 DEF Release
<1>14. ASSUME NEW t \in Threads, NEW len \in Sizes, AppendLine(t, len) PROVE Typed'
  <2> DEFINE l == [n |-> sent + 1, len |-> len]
  <2>1. l \in Lines
    BY <1>14, LineIsNew DEF AppendLine, Holding
  <2> HIDE DEF l
  <2>2. woken' \in BOOLEAN
    BY <1>14, Zenon DEF AppendLine
  <2>3. /\ Append(buffers, currBuffer) \in Seq(Buffers)
        /\ Put(currBuffer, l) \in Buffers /\ Put(<<>>, l) \in Buffers
    BY <2>1, BufferFacts, AppendProperties
  <2>4. currBuffer' \in Buffers /\ buffers' \in Seq(Buffers)
    BY <1>14, <2>3 DEF AppendLine, l
  <2> QED
    BY <1>14, <2>2, <2>4 DEF AppendLine
<1>15. CASE UNCHANGED vars
  BY <1>15 DEF vars
<1> QED
  BY <1>1, <1>2, <1>3, <1>4, <1>5, <1>6, <1>7, <1>8, <1>9, <1>10, <1>11, <1>12, <1>13,
     <1>14, <1>15 DEF Next, LogThread

\* The invariant holds in every reachable state.
THEOREM Invariance == Spec => []IInv
<1>1. Init => IInv
  <2> SUFFICES ASSUME Init PROVE IInv
    OBVIOUS
  <2>1. Typed
    <3>1. /\ <<>> \in Buffers /\ <<>> \in Seq(Buffers) /\ <<>> \in Seq(Lines)
      BY BufferFacts
    <3>0. 0 \in 0 .. MaxFileSize /\ 0 \in 0 .. CheckRollPerN - 1
      BY LogAssumption
    <3>2. [t \in Threads |-> "idle"] \in [Threads -> {"idle", "hold", "release"}]
      OBVIOUS
    <3>3. holder \in [Threads -> {"idle", "hold", "release"}]
      BY <3>2 DEF Init
    <3>4. /\ currBuffer \in Buffers /\ buffers \in Seq(Buffers) /\ taken \in Seq(Buffers)
          /\ stdio \in Seq(Lines) /\ disk \in Seq(Lines)
      BY <3>1, Zenon DEF Init
    <3>5. writed \in 0 .. MaxFileSize /\ count \in 0 .. CheckRollPerN - 1
      BY <3>0, Zenon DEF Init
    <3>6. /\ (backupBuffer # Null => backupBuffer = <<>>) /\ (secondBuffer # Null => secondBuffer = <<>>)
          /\ next \in Nat \ {0} /\ taken = <<>> /\ pc = "none" /\ latch \in 0 .. 1
      BY DEF Init
    <3> QED
      BY <3>3, <3>4, <3>5, <3>6 DEF Init, Typed
  <2>2. Budget
    <3>1. Holding = {} /\ sent = 0
      BY DEF Init, Holding
    <3>2. Cardinality(Holding) = 0
      BY <3>1, FS_EmptySet
    <3> QED
      BY <3>1, <3>2, LogAssumption DEF Budget
  <2>3. Life
    BY DEF Init, Life, HeldIsAlive, Holders
  <2> QED
    BY <2>1, <2>2, <2>3 DEF IInv
<1>2. IInv /\ [Next]_vars => IInv'
  BY LifeStep, BudgetStep, TypedStep DEF IInv
<1> QED
  BY <1>1, <1>2, PTL DEF Spec

(* The type invariant: append never finds currBuffer_ moved from, no buffer*)
(* and no file grows past its size, and the two spare buffers are back     *)
(* whenever the log thread asks for them (AsyncLog::threadFunc).           *)
THEOREM TypeCorrect == Spec => []TypeOK
<1>1. IInv => TypeOK
  <2> SUFFICES ASSUME IInv PROVE TypeOK
    OBVIOUS
  <2>1. sent \in 0 .. MaxLines
    BY HoldingFacts, LogAssumption DEF IInv, Budget
  <2>2. \A b \in Buffers : IsBuffer(b)
    BY DEF Buffers, IsBuffer
  <2>3. /\ \A i \in DOMAIN buffers : buffers[i] \in Buffers
        /\ \A i \in DOMAIN taken : taken[i] \in Buffers
    BY ElementOfSeq DEF IInv, Typed
  <2> QED
    BY <2>1, <2>2, <2>3 DEF IInv, Typed, TypeOK
<1> QED
  BY <1>1, Invariance, PTL

(* Whoever is inside Logger::append keeps the log alive and running, with  *)
(* setFileAppender or setConsoleAppender at any moment (log.cc).           *)
THEOREM HeldLogIsAlive == Spec => []HeldIsAlive
<1>1. IInv => HeldIsAlive
  BY DEF IInv, Life
<1> QED
  BY <1>1, Invariance, PTL


-----------------------------------------------------------------------------
(* The log implements LogQueue.                                            *)

Unwritten == FlattenSeq(SubSeq(taken, next, Len(taken)))
Full == FlattenSeq(buffers)

\* Parts of the queue make a queue, and may be grouped in any way.
LEMMA Joined == \A a, b \in Seq(Lines) : a \o b \in Seq(Lines)
  BY ConcatProperties

\* Concatenation of three parts.
LEMMA Regroup3 == \A a, b, c \in Seq(Lines) : (a \o b) \o c = a \o (b \o c)
<1>1. ASSUME NEW a \in Seq(Lines), NEW b \in Seq(Lines), NEW c \in Seq(Lines)
      PROVE  (a \o b) \o c = a \o (b \o c)
  BY ConcatAssociative, SMTT(60)
<1> QED
  BY <1>1

\* Concatenation of four parts.
LEMMA Regroup4 == \A a, b, c, d \in Seq(Lines) : ((a \o b) \o c) \o d = a \o ((b \o c) \o d)
<1>1. ASSUME NEW a \in Seq(Lines), NEW b \in Seq(Lines), NEW c \in Seq(Lines), NEW d \in Seq(Lines)
      PROVE  ((a \o b) \o c) \o d = a \o ((b \o c) \o d)
  <2>1. b \o c \in Seq(Lines)
    BY Joined
  <2>2. (a \o (b \o c)) \o d = a \o ((b \o c) \o d)
    BY Regroup3, <2>1, ZenonT(60)
  <2>3. (a \o b) \o c = a \o (b \o c)
    BY Regroup3, ZenonT(60)
  <2> QED
    BY <2>2, <2>3
<1> QED
  BY <1>1

\* The parts of the queue.
LEMMA PendingParts ==
  ASSUME Typed
  PROVE  /\ SubSeq(taken, next, Len(taken)) \in Seq(Seq(Lines)) /\ buffers \in Seq(Seq(Lines))
         /\ stdio \in Seq(Lines) /\ Unwritten \in Seq(Lines) /\ Full \in Seq(Lines)
         /\ currBuffer \in Seq(Lines)
         /\ Pending = ((stdio \o Unwritten) \o Full) \o currBuffer
<1>1. buffers \in Seq(Seq(Lines)) /\ taken \in Seq(Seq(Lines)) /\ currBuffer \in Seq(Lines)
  <2>1. buffers \in Seq(Buffers) /\ taken \in Seq(Buffers) /\ currBuffer \in Buffers
    BY DEF Typed
  <2>2. (\A b \in Buffers : b \in Seq(Lines)) /\ Seq(Buffers) \subseteq Seq(Seq(Lines))
    BY BufferFacts, Zenon
  <2> QED
    BY <2>1, <2>2, Zenon
<1>2. SubSeq(taken, next, Len(taken)) \in Seq(Seq(Lines))
  <2>1. next \in Int /\ Len(taken) \in Int /\ \A i \in next .. Len(taken) : taken[i] \in Seq(Lines)
    <3>1. next \in Nat \ {0} /\ Len(taken) \in Nat
      BY <1>1 DEF Typed
    <3> QED
      BY <1>1, <3>1, ElementOfSeq
  <2> QED
    BY <2>1, SubSeqProperties
<1>3. Unwritten \in Seq(Lines) /\ Full \in Seq(Lines)
  BY <1>1, <1>2, FlattenType DEF Unwritten, Full
<1>4. Pending = ((stdio \o Unwritten) \o Full) \o currBuffer
  BY DEF Pending, Unwritten, Full
<1> QED
  BY <1>1, <1>2, <1>3, <1>4 DEF Typed

\* Lines that leave the front of the queue and go to the end of the file.
LEMMA FlushPrefix ==
  ASSUME NEW p \in Seq(Lines), NEW q \in Seq(Lines), disk \in Seq(Lines),
         Pending = p \o q, Pending' = q, disk' = disk \o p
  PROVE  Queue!Flush \/ UNCHANGED <<Pending, disk>>
<1>1. CASE p = <<>>
  <2>1. p \o q = q /\ disk \o p = disk
    BY <1>1, ConcatEmptySeq
  <2> QED
    BY <2>1
<1>2. CASE p # <<>>
  <2>1. SubSeq(Pending, 1, Len(p)) = p /\ SubSeq(Pending, Len(p) + 1, Len(Pending)) = q
    BY SubSeqsOfConcat
  <2>2. Len(p) \in 1 .. Len(Pending)
    <3>1. Len(p) \in Nat /\ Len(q) \in Nat /\ Len(p \o q) = Len(p) + Len(q)
      BY ConcatProperties, LenProperties
    <3>2. Len(p) # 0
      BY <1>2, EmptySeq
    <3> QED
      BY <3>1, <3>2
  <2> QED
    BY <2>1, <2>2 DEF Queue!Flush
<1> QED
  BY <1>1, <1>2


\* Every step of the log is a step of the queue, or changes nothing of it.
LEMMA QueueStep ==
  ASSUME IInv, [Next]_vars
  PROVE  [Queue!Accept \/ Queue!Flush]_<<Pending, disk>>
<1>0. Typed /\ Budget /\ Typed'
  BY TypedStep DEF IInv
<1>a. /\ stdio \in Seq(Lines) /\ Unwritten \in Seq(Lines) /\ Full \in Seq(Lines)
      /\ currBuffer \in Seq(Lines) /\ disk \in Seq(Lines)
      /\ SubSeq(taken, next, Len(taken)) \in Seq(Seq(Lines)) /\ buffers \in Seq(Seq(Lines))
      /\ Pending = ((stdio \o Unwritten) \o Full) \o currBuffer
  BY <1>0, PendingParts DEF Typed
<1>t. /\ stdio \in Seq(Lines) /\ Unwritten \in Seq(Lines) /\ Full \in Seq(Lines)
      /\ currBuffer \in Seq(Lines) /\ disk \in Seq(Lines)
  BY <1>a, Zenon
<1>s. stdio \in Seq(Lines)
  BY <1>a
<1>u. Unwritten \in Seq(Lines)
  BY <1>a
<1>f. Full \in Seq(Lines)
  BY <1>a
<1>c. currBuffer \in Seq(Lines)
  BY <1>a
<1>b. Pending' = ((stdio' \o Unwritten') \o Full') \o currBuffer'
  BY DEF Pending, Unwritten, Full
<1>1. CASE UNCHANGED <<frontVars, taken, next, stdio, disk>>
  BY <1>1 DEF Pending, frontVars
<1>2. CASE Start \/ Replace \/ StopGlobal \/ Begin \/ Top \/ Wait \/ WaitTimeout \/ UseAfterFree
           \/ UNCHANGED vars
  <2>1. UNCHANGED <<frontVars, taken, next, stdio, disk>>
    BY <1>2 DEF Start, Replace, StopGlobal, Begin, Top, Wait, WaitTimeout, UseAfterFree, vars,
                threadVars, fileVars
  <2> QED
    BY <1>1, <2>1
<1>3. ASSUME NEW t \in Threads, Snapshot(t) \/ Release(t)
      PROVE  UNCHANGED <<frontVars, taken, next, stdio, disk>>
  BY <1>3 DEF Snapshot, Release, threadVars, fileVars
<1>4. ASSUME NEW t \in Threads, NEW len \in Sizes, AppendLine(t, len)
      PROVE  Queue!Accept \/ UNCHANGED <<Pending, disk>>
  <2> DEFINE l == [n |-> sent + 1, len |-> len]
             X == (stdio \o Unwritten) \o Full
  <2>1. l \in Lines
    BY <1>0, <1>4, LineIsNew DEF AppendLine, Holding
  <2>2. /\ UNCHANGED <<taken, next, stdio, disk>>
        /\ IF Avail(currBuffer) > len
           THEN currBuffer' = Put(currBuffer, l) /\ UNCHANGED <<backupBuffer, buffers>>
           ELSE /\ buffers' = Append(buffers, currBuffer)
                /\ currBuffer' = Put(IF backupBuffer # Null THEN backupBuffer ELSE <<>>, l)
    BY <1>4 DEF AppendLine, threadVars, fileVars
  <2>3. l.len = len
    OBVIOUS
  <2> HIDE DEF l
  <2>4. X \in Seq(Lines) /\ Pending = X \o currBuffer
    BY <1>a, ConcatProperties
  <2>5. CASE Avail(currBuffer) > len
    <3>1. Avail(currBuffer) >= l.len
      <4>1. Size(currBuffer) \in Nat /\ BufferSize \in Nat /\ len \in Nat
        BY <1>a, SizeFacts, LogAssumption
      <4> QED
        BY <2>3, <2>5, <4>1 DEF Avail
    <3>2. currBuffer' = Append(currBuffer, l) /\ UNCHANGED <<taken, next, stdio, disk, buffers>>
      BY <2>2, <2>5, <3>1 DEF Put
    <3>3. Pending' = X \o Append(currBuffer, l)
      BY <1>b, <3>2 DEF Unwritten, Full
    <3> HIDE DEF X
    <3>4. X \o Append(currBuffer, l) = Append(X \o currBuffer, l)
      BY <1>a, <2>1, <2>4, ConcatAppend, SMTT(60)
    <3> QED
      BY <2>1, <2>4, <3>2, <3>3, <3>4 DEF Queue!Accept
  <2>6. CASE ~(Avail(currBuffer) > len)
    <3>1. /\ buffers' = Append(buffers, currBuffer) /\ currBuffer' \in {<<l>>, <<>>}
          /\ UNCHANGED <<taken, next, stdio, disk>>
      <4>1. backupBuffer # Null => backupBuffer = <<>>
        BY <1>0 DEF Typed
      <4>2. currBuffer' = Put(<<>>, l)
        BY <2>2, <2>6, <4>1
      <4>3. Append(<<>>, l) = <<l>>
        OBVIOUS
      <4> QED
        BY <2>2, <2>6, <4>2, <4>3 DEF Put
    <3>2. Full' = Full \o currBuffer
      BY <1>a, <3>1, FlattenAppend DEF Full
    <3>3. Pending' = ((stdio \o Unwritten) \o (Full \o currBuffer)) \o currBuffer'
      BY <1>b, <3>1, <3>2 DEF Unwritten
    <3>4. (stdio \o Unwritten) \o (Full \o currBuffer) = Pending
      <4>1. stdio \o Unwritten \in Seq(Lines)
        BY <1>t, Joined, Zenon
      <4>2. ((stdio \o Unwritten) \o Full) \o currBuffer
              = (stdio \o Unwritten) \o (Full \o currBuffer)
        BY <1>t, <4>1, Regroup3, ZenonT(60)
      <4> QED
        BY <1>a, <4>2, Zenon
    <3>5. Pending \in Seq(Lines)
      BY <1>a, <2>4, ConcatProperties
    <3>6. CASE currBuffer' = <<>>
      BY <3>1, <3>3, <3>4, <3>5, <3>6, ConcatEmptySeq
    <3>7. CASE currBuffer' = <<l>>
      <4>1. Pending' = Append(Pending, l)
        BY <2>1, <3>3, <3>4, <3>5, <3>7, AppendIsConcat
      <4> QED
        BY <2>1, <3>1, <4>1 DEF Queue!Accept
    <3> QED
      BY <3>1, <3>6, <3>7
  <2> QED
    BY <2>5, <2>6
<1>5. CASE Swap
  <2>1. /\ taken = <<>> /\ firstBuffer = <<>> /\ next \in Nat \ {0}
        /\ taken' = Append(buffers, currBuffer) /\ buffers' = <<>> /\ currBuffer' = <<>>
        /\ next' = 1 /\ UNCHANGED <<stdio, disk>>
    BY <1>0, <1>5 DEF Swap, Typed, fileVars
  <2>2. Unwritten = <<>>
    <3>1. SubSeq(taken, next, Len(taken)) = <<>>
      BY <2>1, SubSeqEmpty
    <3> QED
      BY <3>1, FlattenEmpty DEF Unwritten
  <2>3. Full' = <<>>
    BY <2>1, FlattenEmpty DEF Full
  <2>4. Unwritten' = Full \o currBuffer
    <3>1. taken' \in Seq(Seq(Lines))
      BY <1>a, <2>1, AppendProperties
    <3>2. SubSeq(taken', 1, Len(taken')) = taken'
      BY <3>1, SubSeqFull
    <3> QED
      BY <1>a, <2>1, <3>2, FlattenAppend DEF Unwritten, Full
  <2>5. Pending = (stdio \o Full) \o currBuffer
    BY <1>a, <2>2, ConcatEmptySeq
  <2>6. Pending' = stdio \o (Full \o currBuffer)
    <3>1. Full \o currBuffer \in Seq(Lines)
      BY <1>a, ConcatProperties
    <3>2. stdio \o (Full \o currBuffer) \in Seq(Lines)
      BY <1>a, <3>1, ConcatProperties
    <3> QED
      BY <1>b, <2>1, <2>3, <2>4, <3>1, <3>2, ConcatEmptySeq
  <2>7. (stdio \o Full) \o currBuffer = stdio \o (Full \o currBuffer)
    BY <1>t, Regroup3, SMTT(60)
  <2> QED
    BY <2>1, <2>5, <2>6, <2>7
<1>6. CASE WriteOne
  <2> DEFINE b == taken[next]
             rest == FlattenSeq(SubSeq(taken, next + 1, Len(taken)))
             q == (rest \o Full) \o currBuffer
             r == ((b \o rest) \o Full) \o currBuffer
  <2>1. /\ b \in Seq(Lines) /\ rest \in Seq(Lines)
        /\ Unwritten = b \o rest /\ Unwritten' = rest
    <3> DEFINE tail == SubSeq(taken, next + 1, Len(taken))
    <3>1. taken \in Seq(Seq(Lines)) /\ next \in 1 .. Len(taken) /\ Len(taken) \in next .. Len(taken)
      BY <1>0, <1>6, BufferFacts DEF Typed, WriteOne
    <3>2. b \in Seq(Lines) /\ next' = next + 1 /\ taken' = taken
      BY <1>6, <3>1, ElementOfSeq DEF WriteOne
    <3>3. SubSeq(taken, next, Len(taken)) = <<b>> \o tail
      BY <3>1, SubSeqRecursiveFirst
    <3>4. tail \in Seq(Seq(Lines))
      <4>1. next + 1 \in Int /\ Len(taken) \in Int /\ \A i \in next + 1 .. Len(taken) : taken[i] \in Seq(Lines)
        BY <3>1, ElementOfSeq
      <4> QED
        BY <4>1, SubSeqProperties
    <3> HIDE DEF tail, b
    <3>5. FlattenSeq(<<b>> \o tail) = b \o FlattenSeq(tail)
      BY <3>2, <3>4, FlattenFirst
    <3>6. FlattenSeq(tail) \in Seq(Lines)
      BY <3>4, FlattenType
    <3> QED
      BY <3>2, <3>3, <3>5, <3>6 DEF Unwritten, tail
  <2>2. UNCHANGED <<buffers, currBuffer, Full>>
    BY <1>6 DEF WriteOne, frontVars, Full
  <2>3. \/ disk' = disk \o <<>> /\ stdio' = stdio \o b
        \/ disk' = disk \o stdio /\ stdio' = <<>> \o b
        \/ disk' = (disk \o <<>>) \o (stdio \o b) /\ stdio' = <<>>
        \/ disk' = (disk \o stdio) \o (<<>> \o b) /\ stdio' = <<>>
    BY <1>6, Zenon DEF WriteOne
  <2> HIDE DEF b, rest
  <2>4. /\ q \in Seq(Lines) /\ r \in Seq(Lines) /\ r = b \o q /\ Pending = stdio \o r
        /\ Pending = (stdio \o b) \o q
    <3>1. b \in Seq(Lines)
      BY <2>1
    <3>2. rest \o Full \in Seq(Lines)
      BY <1>t, <2>1, Joined, Zenon
    <3>3. q \in Seq(Lines)
      BY <1>t, <3>2, Joined, Zenon
    <3>4. r = b \o q
      <4>1. rest \in Seq(Lines)
        BY <2>1
      <4> QED
        <5>1. \A d, e, f \in Seq(Lines) : ((b \o d) \o e) \o f = b \o ((d \o e) \o f)
          BY <3>1, Regroup4, Zenon
        <5>2. \A e, f \in Seq(Lines) : ((b \o rest) \o e) \o f = b \o ((rest \o e) \o f)
          BY <4>1, <5>1, Zenon
        <5> QED
          BY <1>f, <1>c, <5>2, Zenon
    <3>5. r \in Seq(Lines)
      BY <3>1, <3>3, <3>4, Joined, Zenon
    <3>6. Pending = stdio \o r
      <4>1. b \o rest \in Seq(Lines)
        BY <2>1, Joined, Zenon
      <4>2. ((stdio \o (b \o rest)) \o Full) \o currBuffer = stdio \o (((b \o rest) \o Full) \o currBuffer)
        <5>1. \A d, e, f \in Seq(Lines) : ((stdio \o d) \o e) \o f = stdio \o ((d \o e) \o f)
          BY <1>s, Regroup4, Zenon
        <5>2. \A e, f \in Seq(Lines) : ((stdio \o (b \o rest)) \o e) \o f = stdio \o (((b \o rest) \o e) \o f)
          BY <4>1, <5>1, Zenon
        <5> QED
          BY <1>f, <1>c, <5>2, Zenon
      <4> QED
        BY <1>a, <2>1, <4>2, Zenon
    <3> HIDE DEF q, r
    <3>7. (stdio \o b) \o q = stdio \o (b \o q)
      BY <1>s, <3>1, <3>3, Regroup3
    <3> QED
      BY <3>3, <3>4, <3>5, <3>6, <3>7
  <2>5. Pending' = ((stdio' \o rest) \o Full) \o currBuffer
    BY <1>b, <2>1, <2>2
  <2>6. stdio \o b \in Seq(Lines) /\ disk \o <<>> = disk /\ <<>> \o b = b /\ <<>> \o rest = rest
    BY <1>a, <2>1, ConcatProperties, ConcatEmptySeq
  <2>7. stdio' = <<>> => Pending' = q
    BY <2>5, <2>6
  <2>8. CASE disk' = disk \o <<>> /\ stdio' = stdio \o b
    <3>1. Pending' = (stdio \o b) \o q
      <4>1. stdio \o b \in Seq(Lines)
        BY <2>6
      <4>2. (((stdio \o b) \o rest) \o Full) \o currBuffer
               = (stdio \o b) \o ((rest \o Full) \o currBuffer)
        <5>1. rest \in Seq(Lines)
          BY <2>1
        <5> QED
          <6>1. \A d, e, f \in Seq(Lines) : (((stdio \o b) \o d) \o e) \o f = (stdio \o b) \o ((d \o e) \o f)
            BY <4>1, Regroup4, Zenon
          <6>2. \A e, f \in Seq(Lines) : (((stdio \o b) \o rest) \o e) \o f = (stdio \o b) \o ((rest \o e) \o f)
            BY <5>1, <6>1, Zenon
          <6> QED
            BY <1>f, <1>c, <6>2, Zenon
      <4> QED
        BY <2>5, <2>8, <4>2, Zenon
    <3> QED
      BY <2>4, <2>6, <2>8, <3>1
  <2>9. CASE disk' = disk \o stdio /\ stdio' = <<>> \o b
    <3>1. Pending' = r
      BY <2>5, <2>6, <2>9
    <3> HIDE DEF q, r
    <3> QED
      BY <1>a, <2>4, <2>9, <3>1, FlushPrefix
  <2>10. CASE disk' = (disk \o <<>>) \o (stdio \o b) /\ stdio' = <<>>
    <3> HIDE DEF q, r
    <3>1. disk' = disk \o (stdio \o b) /\ Pending' = q
      BY <2>6, <2>7, <2>10
    <3> QED
      BY <1>a, <2>4, <2>6, <3>1, FlushPrefix
  <2>11. CASE disk' = (disk \o stdio) \o (<<>> \o b) /\ stdio' = <<>>
    <3> HIDE DEF q, r
    <3>1. disk' = disk \o (stdio \o b) /\ Pending' = q
      <4>1. (disk \o stdio) \o b = disk \o (stdio \o b)
        BY <1>t, <2>1, Regroup3, ZenonT(60)
      <4> QED
        BY <2>6, <2>7, <2>11, <4>1
    <3> QED
      BY <1>a, <2>4, <2>6, <3>1, FlushPrefix
  <2> QED
    BY <2>3, <2>8, <2>9, <2>10, <2>11
<1>7. CASE Recycle
  <2> DEFINE q == (Unwritten \o Full) \o currBuffer
  <2>1. /\ next \in Nat /\ Len(taken) \in Nat /\ Len(taken) < next /\ taken' = <<>> /\ next' = next
        /\ disk' = disk \o stdio /\ stdio' = <<>> /\ UNCHANGED <<buffers, currBuffer>>
    BY <1>0, <1>7 DEF Recycle, Typed, frontVars
  <2>2. Unwritten = <<>> /\ Unwritten' = <<>> /\ Full' = Full
    <3>1. SubSeq(taken, next, Len(taken)) = <<>> /\ SubSeq(taken', next', Len(taken')) = <<>>
      <4>1. Len(taken') = 0 /\ 0 < next
        BY <2>1
      <4> QED
        BY <2>1, <4>1, SubSeqEmpty
    <3> QED
      BY <2>1, <3>1, FlattenEmpty DEF Unwritten, Full
  <2>3. q \in Seq(Lines) /\ Pending = stdio \o q
    <3>1. Unwritten \o Full \in Seq(Lines)
      BY <1>t, Joined, Zenon
    <3>2. q \in Seq(Lines)
      BY <1>t, <3>1, Joined, Zenon
    <3>3. ((stdio \o Unwritten) \o Full) \o currBuffer = stdio \o q
      <4>1. \A d, e, f \in Seq(Lines) : ((stdio \o d) \o e) \o f = stdio \o ((d \o e) \o f)
        BY <1>s, Regroup4, Zenon
      <4>2. \A e, f \in Seq(Lines) : ((stdio \o Unwritten) \o e) \o f = stdio \o ((Unwritten \o e) \o f)
        BY <1>u, <4>1, Zenon
      <4> QED
        BY <1>f, <1>c, <4>2, Zenon
    <3> QED
      BY <1>a, <3>2, <3>3, Zenon
  <2>4. Pending' = q
    <3>1. <<>> \o Unwritten = <<>>
      BY <2>2, <1>a, ConcatEmptySeq
    <3> QED
      BY <1>b, <2>1, <2>2, <3>1
  <2> HIDE DEF q
  <2> QED
    BY <1>a, <2>1, <2>3, <2>4, FlushPrefix
<1> QED
  BY <1>1, <1>2, <1>3, <1>4, <1>5, <1>6, <1>7 DEF Next, LogThread

(* The exchange of buffers loses, repeats and reorders no line: the log    *)
(* implements one queue, whatever the sizes of lines and buffers and       *)
(* however often files roll (AsyncLog::append, threadFunc, LogFile).       *)
THEOREM ImplementsQueue == Spec => FifoLog
<1>1. Init => Queue!Init
  <2> SUFFICES ASSUME Init PROVE Queue!Init
    OBVIOUS
  <2>1. SubSeq(taken, next, Len(taken)) = <<>>
    BY SubSeqEmpty DEF Init
  <2>2. Pending = ((<<>> \o <<>>) \o <<>>) \o <<>>
    BY <2>1, FlattenEmpty DEF Init, Pending
  <2>3. <<>> \o <<>> = <<>>
    OBVIOUS
  <2> QED
    BY <2>2, <2>3 DEF Init, Queue!Init
<1>2. IInv /\ [Next]_vars => [Queue!Accept \/ Queue!Flush]_<<Pending, disk>>
  BY QueueStep
<1> QED
  BY <1>1, <1>2, Invariance, PTL DEF Spec, FifoLog, Queue!Spec
=============================================================================
