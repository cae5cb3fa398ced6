----------------------------- MODULE SeqLemmas ------------------------------
(***************************************************************************)
(* Facts about sequences that the proofs of several components need: where *)
(* an element occurs in a queue that grows at its end and shrinks at its   *)
(* front, the permutations of a finite set, least natural numbers, and the *)
(* concatenation of a sequence of sequences.                               *)
(***************************************************************************)
EXTENDS Integers, Sequences, FiniteSets, SequencesExt, FiniteSetTheorems, SequenceTheorems,
        WellFoundedInduction, TLAPS

Occurs(s, e) == \E i \in DOMAIN s : s[i] = e
AtMostOnce(s, e) == \A i, j \in DOMAIN s : s[i] = e /\ s[j] = e => i = j

\* A task added at the end of a queue.
LEMMA OccursAppend ==
  ASSUME NEW S, NEW s \in Seq(S), NEW x \in S, NEW e
  PROVE  /\ Occurs(Append(s, x), e) <=> Occurs(s, e) \/ x = e
         /\ AtMostOnce(s, e) /\ (x = e => ~Occurs(s, e)) => AtMostOnce(Append(s, x), e)
<1>1. /\ Append(s, x) \in Seq(S) /\ Len(Append(s, x)) = Len(s) + 1
      /\ \A i \in 1 .. Len(s) : Append(s, x)[i] = s[i]
      /\ Append(s, x)[Len(s) + 1] = x
  BY AppendProperties
<1>2. Len(s) \in Nat /\ DOMAIN s = 1 .. Len(s) /\ DOMAIN Append(s, x) = 1 .. Len(s) + 1
  BY <1>1
<1>3. \A i \in 1 .. Len(s) + 1 : i \in 1 .. Len(s) \/ i = Len(s) + 1
  BY <1>2
<1> QED
  BY <1>1, <1>2, <1>3 DEF Occurs, AtMostOnce

\* A batch of tasks added at the end of a queue.
LEMMA OccursConcat ==
  ASSUME NEW S, NEW s \in Seq(S), NEW t \in Seq(S), NEW e
  PROVE  /\ Occurs(s \o t, e) <=> Occurs(s, e) \/ Occurs(t, e)
         /\ AtMostOnce(s, e) /\ AtMostOnce(t, e) /\ ~(Occurs(s, e) /\ Occurs(t, e))
              => AtMostOnce(s \o t, e)
<1> DEFINE c == s \o t
<1>1. /\ c \in Seq(S) /\ Len(c) = Len(s) + Len(t)
      /\ \A i \in 1 .. Len(s) + Len(t) : c[i] = IF i <= Len(s) THEN s[i] ELSE t[i - Len(s)]
  BY ConcatProperties
<1>2. /\ Len(s) \in Nat /\ Len(t) \in Nat
      /\ DOMAIN s = 1 .. Len(s) /\ DOMAIN t = 1 .. Len(t) /\ DOMAIN c = 1 .. Len(s) + Len(t)
  BY <1>1
<1> HIDE DEF c
<1>3. \A i \in DOMAIN c : \/ i \in DOMAIN s /\ c[i] = s[i]
                          \/ i - Len(s) \in DOMAIN t /\ c[i] = t[i - Len(s)]
  BY <1>1, <1>2
<1>4. \A i \in DOMAIN s : i \in DOMAIN c /\ c[i] = s[i]
  BY <1>1, <1>2
<1>5. \A j \in DOMAIN t : Len(s) + j \in DOMAIN c /\ c[Len(s) + j] = t[j]
  BY <1>1, <1>2
<1>6. Occurs(c, e) <=> Occurs(s, e) \/ Occurs(t, e)
  BY <1>3, <1>4, <1>5 DEF Occurs
<1>7. ASSUME AtMostOnce(s, e), AtMostOnce(t, e), ~(Occurs(s, e) /\ Occurs(t, e))
      PROVE  AtMostOnce(c, e)
  <2> SUFFICES ASSUME NEW i \in DOMAIN c, NEW j \in DOMAIN c, c[i] = e, c[j] = e PROVE i = j
    BY DEF AtMostOnce
  <2>1. CASE i \in DOMAIN s /\ c[i] = s[i]
    <3>1. j \in DOMAIN s /\ c[j] = s[j]
      BY <2>1, <1>3, <1>7 DEF Occurs
    <3> QED
      BY <2>1, <3>1, <1>7 DEF AtMostOnce
  <2>2. CASE i - Len(s) \in DOMAIN t /\ c[i] = t[i - Len(s)]
    <3>1. j - Len(s) \in DOMAIN t /\ c[j] = t[j - Len(s)]
      BY <2>2, <1>3, <1>7 DEF Occurs
    <3>2. i - Len(s) = j - Len(s)
      BY <2>2, <3>1, <1>7 DEF AtMostOnce
    <3> QED
      BY <3>2, <1>2
  <2> QED
    BY <2>1, <2>2, <1>3
<1> QED
  BY <1>6, <1>7 DEF c

\* The task at the front of a queue is taken.
LEMMA OccursTail ==
  ASSUME NEW S, NEW s \in Seq(S), s # <<>>, NEW e
  PROVE  /\ Occurs(s, e) <=> Head(s) = e \/ Occurs(Tail(s), e)
         /\ AtMostOnce(s, e) => AtMostOnce(Tail(s), e)
         /\ AtMostOnce(s, e) /\ Head(s) = e => ~Occurs(Tail(s), e)
<1>1. /\ Tail(s) \in Seq(S) /\ Len(Tail(s)) = Len(s) - 1
      /\ \A i \in 1 .. Len(Tail(s)) : Tail(s)[i] = s[i + 1]
  BY HeadTailProperties
<1>2. /\ Len(s) \in Nat \ {0} /\ DOMAIN s = 1 .. Len(s) /\ DOMAIN Tail(s) = 1 .. Len(s) - 1
      /\ Head(s) = s[1]
  BY <1>1, EmptySeq
<1>3. \A i \in DOMAIN Tail(s) : i + 1 \in DOMAIN s /\ i + 1 # 1 /\ Tail(s)[i] = s[i + 1]
  BY <1>1, <1>2
<1>4. \A i \in DOMAIN s : i = 1 \/ (i - 1 \in DOMAIN Tail(s) /\ Tail(s)[i - 1] = s[i])
  BY <1>1, <1>2
<1>5. 1 \in DOMAIN s
  BY <1>2
<1>6. Occurs(s, e) <=> Head(s) = e \/ Occurs(Tail(s), e)
  BY <1>2, <1>3, <1>4, <1>5, ZenonT(60) DEF Occurs
<1>7. AtMostOnce(s, e) => AtMostOnce(Tail(s), e)
  <2> SUFFICES ASSUME AtMostOnce(s, e), NEW i \in DOMAIN Tail(s), NEW j \in DOMAIN Tail(s),
                      Tail(s)[i] = e, Tail(s)[j] = e
               PROVE  i = j
    BY DEF AtMostOnce
  <2>1. i + 1 = j + 1
    BY <1>3 DEF AtMostOnce
  <2> QED
    BY <2>1, <1>2
<1>8. AtMostOnce(s, e) /\ Head(s) = e => ~Occurs(Tail(s), e)
  BY <1>2, <1>3, <1>5 DEF Occurs, AtMostOnce
<1> QED
  BY <1>6, <1>7, <1>8

\* A concatenation that holds an element once holds it in one of its parts.
LEMMA OnceInConcat ==
  ASSUME NEW S, NEW s \in Seq(S), NEW t \in Seq(S), NEW e, AtMostOnce(s \o t, e)
  PROVE  AtMostOnce(s, e) /\ AtMostOnce(t, e) /\ ~(Occurs(s, e) /\ Occurs(t, e))
<1> DEFINE c == s \o t
<1>1. /\ c \in Seq(S) /\ Len(c) = Len(s) + Len(t)
      /\ \A i \in 1 .. Len(s) + Len(t) : c[i] = IF i <= Len(s) THEN s[i] ELSE t[i - Len(s)]
  BY ConcatProperties
<1>2. /\ Len(s) \in Nat /\ Len(t) \in Nat /\ AtMostOnce(c, e)
      /\ DOMAIN s = 1 .. Len(s) /\ DOMAIN t = 1 .. Len(t) /\ DOMAIN c = 1 .. Len(s) + Len(t)
  BY <1>1
<1> HIDE DEF c
<1>3. \A i \in DOMAIN s : i \in DOMAIN c /\ c[i] = s[i]
  BY <1>1, <1>2
<1>4. \A j \in DOMAIN t : Len(s) + j \in DOMAIN c /\ c[Len(s) + j] = t[j]
  BY <1>1, <1>2
<1>5. AtMostOnce(s, e)
  BY <1>2, <1>3 DEF AtMostOnce
<1>6. AtMostOnce(t, e)
  <2> SUFFICES ASSUME NEW i \in DOMAIN t, NEW j \in DOMAIN t, t[i] = e, t[j] = e PROVE i = j
    BY DEF AtMostOnce
  <2>1. Len(s) + i = Len(s) + j
    BY <1>2, <1>4 DEF AtMostOnce
  <2> QED
    BY <1>2, <2>1
<1>7. ASSUME NEW i \in DOMAIN s, NEW j \in DOMAIN t, s[i] = e, t[j] = e PROVE FALSE
  <2>1. i = Len(s) + j
    BY <1>2, <1>3, <1>4, <1>7 DEF AtMostOnce
  <2> QED
    BY <1>2, <2>1
<1> QED
  BY <1>5, <1>6, <1>7 DEF Occurs

\* A sequence cut in two: what has expired and what has not.
LEMMA OccursSplit ==
  ASSUME NEW S, NEW s \in Seq(S), NEW n \in 0 .. Len(s), NEW e
  PROVE  LET p == SubSeq(s, 1, n)
             q == SubSeq(s, n + 1, Len(s))
         IN  /\ p \in Seq(S) /\ q \in Seq(S)
             /\ Occurs(s, e) <=> Occurs(p, e) \/ Occurs(q, e)
             /\ AtMostOnce(s, e) => /\ AtMostOnce(p, e) /\ AtMostOnce(q, e)
                                    /\ ~(Occurs(p, e) /\ Occurs(q, e))
<1> DEFINE p == SubSeq(s, 1, n)
           q == SubSeq(s, n + 1, Len(s))
<1>1. Len(s) \in Nat /\ n \in Nat /\ n <= Len(s) /\ \A i \in 1 .. Len(s) : s[i] \in S
  BY ElementOfSeq
<1>2. p \in Seq(S) /\ q \in Seq(S)
  <2>1. (\A i \in 1 .. n : s[i] \in S) /\ \A i \in n + 1 .. Len(s) : s[i] \in S
    BY <1>1, SMTT(60)
  <2>2. 1 \in Int /\ n \in Int /\ n + 1 \in Int /\ Len(s) \in Int
    BY <1>1, SMTT(60)
  <2> QED
    BY <2>1, <2>2, SubSeqProperties
<1>3. p \o q = s
  <2>1. 1 \in 1 .. Len(s) + 1 /\ n \in 1 - 1 .. Len(s) /\ Len(s) \in n .. Len(s)
    BY <1>1
  <2>2. SubSeq(s, 1, Len(s)) = s
    BY SubSeqFull
  <2> QED
    BY <2>1, <2>2, ConcatAdjacentSubSeq
<1> HIDE DEF p, q
<1>4. Occurs(s, e) <=> Occurs(p, e) \/ Occurs(q, e)
  BY <1>2, <1>3, OccursConcat
<1>5. AtMostOnce(s, e) => AtMostOnce(p, e) /\ AtMostOnce(q, e) /\ ~(Occurs(p, e) /\ Occurs(q, e))
  BY <1>2, <1>3, OnceInConcat
<1> QED
  BY <1>2, <1>4, <1>5 DEF p, q

\* A timer inserted in order of expiry.
LEMMA OccursInsertAt ==
  ASSUME NEW S, NEW s \in Seq(S), NEW x \in S, NEW i \in 1 .. Len(s) + 1, NEW e
  PROVE  /\ InsertAt(s, i, x) \in Seq(S) /\ Len(InsertAt(s, i, x)) = Len(s) + 1
         /\ Occurs(InsertAt(s, i, x), e) <=> Occurs(s, e) \/ x = e
         /\ AtMostOnce(s, e) /\ (x = e => ~Occurs(s, e)) => AtMostOnce(InsertAt(s, i, x), e)
<1> DEFINE p == SubSeq(s, 1, i - 1)
           q == SubSeq(s, i, Len(s))
           y == <<x>>
<1>1. Len(s) \in Nat /\ i - 1 \in 0 .. Len(s) /\ (i - 1) + 1 = i
  OBVIOUS
<1>2. /\ p \in Seq(S) /\ q \in Seq(S)
      /\ Occurs(s, e) <=> Occurs(p, e) \/ Occurs(q, e)
      /\ AtMostOnce(s, e) => AtMostOnce(p, e) /\ AtMostOnce(q, e) /\ ~(Occurs(p, e) /\ Occurs(q, e))
  <2> DEFINE m == i - 1
  <2>1. m \in 0 .. Len(s) /\ m + 1 = i
    BY <1>1
  <2> HIDE DEF m
  <2>2. LET u == SubSeq(s, 1, m)
            v == SubSeq(s, m + 1, Len(s))
        IN  /\ u \in Seq(S) /\ v \in Seq(S)
            /\ Occurs(s, e) <=> Occurs(u, e) \/ Occurs(v, e)
            /\ AtMostOnce(s, e) => /\ AtMostOnce(u, e) /\ AtMostOnce(v, e)
                                   /\ ~(Occurs(u, e) /\ Occurs(v, e))
    BY <2>1, OccursSplit
  <2> QED
    BY <2>1, <2>2 DEF m
<1>3. Len(p) = i - 1 /\ Len(q) = Len(s) - i + 1
  <2>1. (\A j \in 1 .. i - 1 : s[j] \in S) /\ \A j \in i .. Len(s) : s[j] \in S
    BY <1>1, ElementOfSeq
  <2>2. /\ Len(p) = IF 1 <= i - 1 THEN (i - 1) - 1 + 1 ELSE 0
        /\ Len(q) = IF i <= Len(s) THEN Len(s) - i + 1 ELSE 0
    BY <1>1, <2>1, SubSeqProperties
  <2> QED
    BY <1>1, <2>2
<1>4. y \in Seq(S) /\ Len(y) = 1 /\ AtMostOnce(y, e) /\ (Occurs(y, e) <=> x = e)
  BY DEF Occurs, AtMostOnce
<1>5. InsertAt(s, i, x) = (p \o y) \o q
  BY DEF InsertAt
<1> HIDE DEF p, q, y
<1> DEFINE r == p \o y
<1>6. /\ r \in Seq(S) /\ Len(r) = Len(p) + 1
      /\ Occurs(r, e) <=> Occurs(p, e) \/ x = e
      /\ AtMostOnce(p, e) /\ ~(Occurs(p, e) /\ x = e) => AtMostOnce(r, e)
  <2>1. r \in Seq(S) /\ Len(r) = Len(p) + Len(y)
    BY <1>2, <1>4, ConcatProperties
  <2>2. /\ Occurs(r, e) <=> Occurs(p, e) \/ Occurs(y, e)
        /\ AtMostOnce(p, e) /\ AtMostOnce(y, e) /\ ~(Occurs(p, e) /\ Occurs(y, e)) => AtMostOnce(r, e)
    BY <1>2, <1>4, OccursConcat
  <2> QED
    BY <1>4, <2>1, <2>2
<1> HIDE DEF r
<1>7. /\ r \o q \in Seq(S) /\ Len(r \o q) = Len(r) + Len(q)
      /\ Occurs(r \o q, e) <=> Occurs(r, e) \/ Occurs(q, e)
      /\ AtMostOnce(r, e) /\ AtMostOnce(q, e) /\ ~(Occurs(r, e) /\ Occurs(q, e)) => AtMostOnce(r \o q, e)
  <2>1. r \o q \in Seq(S) /\ Len(r \o q) = Len(r) + Len(q)
    BY <1>2, <1>6, ConcatProperties
  <2>2. /\ Occurs(r \o q, e) <=> Occurs(r, e) \/ Occurs(q, e)
        /\ AtMostOnce(r, e) /\ AtMostOnce(q, e) /\ ~(Occurs(r, e) /\ Occurs(q, e)) => AtMostOnce(r \o q, e)
    BY <1>2, <1>6, OccursConcat
  <2> QED
    BY <2>1, <2>2
<1>8. InsertAt(s, i, x) = r \o q
  BY <1>5 DEF r
<1>9. Len(r) + Len(q) = Len(s) + 1
  BY <1>1, <1>3, <1>6
<1> QED
  BY <1>2, <1>6, <1>7, <1>8, <1>9

\* An order of a finite set holds each member once and nothing else.
LEMMA OccursPermutation ==
  ASSUME NEW S, IsFiniteSet(S), NEW s \in SetToSeqs(S), NEW e
  PROVE  /\ s \in Seq(S)
         /\ Occurs(s, e) <=> e \in S
         /\ AtMostOnce(s, e)
<1> DEFINE n == Cardinality(S)
<1>1. n \in Nat
  BY FS_CardinalityType
<1>2. s \in [1 .. n -> S] /\ \A i, j \in 1 .. n : i # j => s[i] # s[j]
  BY DEF SetToSeqs
<1> HIDE DEF n
<1>3. s \in Injection(1 .. n, S)
  BY <1>2 DEF Injection, IsInjective
<1>4. IsFiniteSet(1 .. n) /\ Cardinality(1 .. n) = n
  BY <1>1, FS_Interval
<1>5. s \in Surjection(1 .. n, S)
  BY <1>3, <1>4, FS_Injection DEF n
<1>6. Occurs(s, e) <=> e \in S
  BY <1>2, <1>5 DEF Surjection, Occurs
<1>7. AtMostOnce(s, e)
  BY <1>2 DEF AtMostOnce
<1> QED
  BY <1>1, <1>2, <1>6, <1>7

\* An element occurs once or never: the positions where it does can be counted.
LEMMA CountOccurrences ==
  ASSUME NEW S, NEW s \in Seq(S), NEW e, AtMostOnce(s, e)
  PROVE  Cardinality({i \in DOMAIN s : s[i] = e}) = IF Occurs(s, e) THEN 1 ELSE 0
<1> DEFINE P == {i \in DOMAIN s : s[i] = e}
<1>1. CASE Occurs(s, e)
  <2>1. PICK i \in DOMAIN s : s[i] = e
    BY <1>1 DEF Occurs
  <2>2. P = {i}
    BY <2>1 DEF AtMostOnce
  <2> QED
    BY <2>2, <1>1, FS_Singleton
<1>2. CASE ~Occurs(s, e)
  <2>1. P = {}
    BY <1>2 DEF Occurs
  <2> QED
    BY <2>1, <1>2, FS_EmptySet
<1> QED
  BY <1>1, <1>2

\* SetToSeq is one of the orders of the set.
LEMMA SetToSeqIsOrder ==
  ASSUME NEW S, IsFiniteSet(S)
  PROVE  SetToSeq(S) \in SetToSeqs(S)
<1> DEFINE n == Cardinality(S)
<1>1. PICK f : f \in Bijection(1 .. n, S)
  BY FS_CardinalityType DEF ExistsBijection
<1>2. f \in [1 .. n -> S] /\ IsInjective(f)
  BY <1>1 DEF Bijection, Injection, IsInjective
<1>3. SetToSeq(S) \in [1 .. n -> S] /\ IsInjective(SetToSeq(S))
  BY <1>2 DEF SetToSeq
<1> QED
  BY <1>3 DEF SetToSeqs, IsInjective

\* A set of natural numbers has a least member: with the set of counterexamples,
\* this is induction.
LEMMA LeastNatural ==
  ASSUME NEW S, S \subseteq Nat, S # {}
  PROVE  \E x \in S : \A y \in S : x <= y
<1>1. PICK x \in S : \A y \in S : ~(<<y, x>> \in OpToRel(<, Nat))
  BY NatLessThanWellFounded, WFMin, Zenon
<1>2. \A y \in S : ~(y < x)
  BY <1>1, Zenon DEF OpToRel
<1>3. \A y \in S : x <= y
  BY <1>2
<1> QED
  BY <1>3

-----------------------------------------------------------------------------
(* FlattenSeq *)

\* g[i] is the concatenation of the first i sequences of ss, for i up to k.
Flattens(g, ss, k) == \A i \in 1 .. k : g[i] = IF i = 1 THEN ss[i] ELSE g[i - 1] \o ss[i]

\* There is such a function for every prefix of ss.
LEMMA FlattensExists ==
  ASSUME NEW S, NEW ss \in Seq(Seq(S)), NEW n \in 0 .. Len(ss)
  PROVE  \E g \in [1 .. n -> Seq(S)] : Flattens(g, ss, n)
<1> DEFINE Bad == {k \in 0 .. Len(ss) : ~\E g \in [1 .. k -> Seq(S)] : Flattens(g, ss, k)}
<1> SUFFICES ASSUME Bad # {} PROVE FALSE
  OBVIOUS
<1>1. Len(ss) \in Nat /\ Bad \subseteq Nat
  OBVIOUS
<1>2. PICK m \in Bad : \A k \in Bad : m <= k
  BY <1>1, LeastNatural
<1>3. m \in Nat /\ m <= Len(ss) /\ m \in 0 .. Len(ss)
  BY <1>1, <1>2
<1>4. m # 0
  <2>1. [i \in 1 .. 0 |-> <<>>] \in [1 .. 0 -> Seq(S)]
    OBVIOUS
  <2>2. Flattens([i \in 1 .. 0 |-> <<>>], ss, 0)
    BY DEF Flattens
  <2> QED
    BY <2>1, <2>2
<1>5. m - 1 \in 0 .. Len(ss) /\ m - 1 \notin Bad
  <2> HIDE DEF Bad
  <2>1. m - 1 \in 0 .. Len(ss) /\ ~(m <= m - 1)
    BY <1>3, <1>4, <1>1
  <2> QED
    BY <1>2, <2>1, Zenon
<1>6. PICK g \in [1 .. m - 1 -> Seq(S)] : Flattens(g, ss, m - 1)
  BY <1>5
<1>7. ss[m] \in Seq(S)
  BY <1>3, <1>4, ElementOfSeq
<1> DEFINE x == IF m = 1 THEN ss[m] ELSE g[m - 1] \o ss[m]
           h == [i \in 1 .. m |-> IF i = m THEN x ELSE g[i]]
<1>8. x \in Seq(S)
  <2>1. CASE m = 1
    BY <2>1, <1>7
  <2>2. CASE m # 1
    <3>1. g[m - 1] \in Seq(S)
      BY <2>2, <1>3, <1>4, <1>6
    <3> QED
      BY <2>2, <3>1, <1>7, ConcatProperties
  <2> QED
    BY <2>1, <2>2
<1>9. h \in [1 .. m -> Seq(S)]
  BY <1>8, <1>6, <1>3
<1>10. Flattens(h, ss, m)
  <2> SUFFICES ASSUME NEW i \in 1 .. m PROVE h[i] = IF i = 1 THEN ss[i] ELSE h[i - 1] \o ss[i]
    BY DEF Flattens
  <2>1. CASE i = m
    <3>1. h[i] = x /\ (i # 1 => h[i - 1] = g[i - 1])
      BY <2>1, <1>3, <1>4
    <3> QED
      BY <2>1, <3>1
  <2>2. CASE i # m
    <3>1. i \in 1 .. m - 1 /\ h[i] = g[i] /\ (i # 1 => h[i - 1] = g[i - 1])
      BY <2>2, <1>3
    <3> QED
      BY <3>1, <1>6 DEF Flattens
  <2> QED
    BY <2>1, <2>2
<1> QED
  BY <1>3, <1>9, <1>10

\* Two such functions agree as far as their sequences do.
LEMMA FlattensUnique ==
  ASSUME NEW n \in Nat, NEW f, NEW g, NEW ss, NEW tt, Flattens(f, ss, n), Flattens(g, tt, n),
         \A i \in 1 .. n : ss[i] = tt[i]
  PROVE  \A i \in 1 .. n : f[i] = g[i]
<1> DEFINE Bad == {i \in 1 .. n : f[i] # g[i]}
<1> SUFFICES ASSUME Bad # {} PROVE FALSE
  OBVIOUS
<1>0. Bad \subseteq Nat
  OBVIOUS
<1>1. PICK m \in Bad : \A k \in Bad : m <= k
  BY <1>0, LeastNatural, Zenon
<1>2. CASE m = 1
  BY <1>2 DEF Flattens
<1>3. CASE m # 1
  <2>1. m \in 1 .. n /\ m - 1 \in 1 .. n /\ m - 1 \notin Bad
    <3>1. m \in 1 .. n
      BY <1>1
    <3> HIDE DEF Bad
    <3>2. m - 1 \in 1 .. n /\ ~(m <= m - 1)
      BY <3>1, <1>3
    <3> QED
      BY <1>1, <3>1, <3>2, Zenon
  <2>2. f[m - 1] = g[m - 1] /\ ss[m] = tt[m]
    BY <2>1
  <2> QED
    BY <2>1, <2>2, <1>3 DEF Flattens
<1> QED
  BY <1>2, <1>3

\* The sequence that FlattenSeq returns is the last of such a function.
LEMMA FlattenSeqIs ==
  ASSUME NEW S, NEW ss \in Seq(Seq(S)), Len(ss) # 0
  PROVE  \E g \in [1 .. Len(ss) -> Seq(S)] : Flattens(g, ss, Len(ss)) /\ FlattenSeq(ss) = g[Len(ss)]
<1> DEFINE n == Len(ss)
           Is(f) == f = [i \in 1 .. n |-> IF i = 1 THEN ss[i] ELSE f[i - 1] \o ss[i]]
           c == CHOOSE f : Is(f)
<1>1. n \in Nat /\ n # 0 /\ n \in 0 .. Len(ss)
  OBVIOUS
<1>2. FlattenSeq(ss) = c[n]
  BY DEF FlattenSeq
<1> HIDE DEF n
<1>3. PICK g \in [1 .. n -> Seq(S)] : Flattens(g, ss, n)
  BY <1>1, FlattensExists
<1>4. g = [i \in 1 .. n |-> IF i = 1 THEN ss[i] ELSE g[i - 1] \o ss[i]]
  BY <1>3 DEF Flattens
<1>5. Is(c)
  BY <1>4
<1> HIDE DEF c
<1>6. Flattens(c, ss, n)
  BY <1>5 DEF Flattens
<1>7. c[n] = g[n]
  BY <1>1, <1>3, <1>6, FlattensUnique
<1> QED
  BY <1>2, <1>3, <1>7 DEF n

\* Nothing to concatenate.
LEMMA FlattenEmpty == FlattenSeq(<<>>) = <<>>
  BY DEF FlattenSeq

\* The last sequence comes last.
LEMMA FlattenAppend ==
  ASSUME NEW S, NEW ss \in Seq(Seq(S)), NEW s \in Seq(S)
  PROVE  /\ FlattenSeq(ss) \in Seq(S)
         /\ FlattenSeq(Append(ss, s)) = FlattenSeq(ss) \o s
<1> DEFINE n == Len(ss)
           tt == Append(ss, s)
<1>1. /\ n \in Nat /\ tt \in Seq(Seq(S)) /\ Len(tt) = n + 1
      /\ \A i \in 1 .. n : tt[i] = ss[i]
      /\ tt[n + 1] = s
  BY AppendProperties
<1> HIDE DEF tt, n
<1>2. PICK g \in [1 .. n + 1 -> Seq(S)] : Flattens(g, tt, n + 1) /\ FlattenSeq(tt) = g[n + 1]
  <2>1. Len(tt) # 0
    BY <1>1
  <2>2. \E g \in [1 .. Len(tt) -> Seq(S)] : Flattens(g, tt, Len(tt)) /\ FlattenSeq(tt) = g[Len(tt)]
    BY <1>1, <2>1, FlattenSeqIs, Zenon
  <2>3. Len(tt) = n + 1
    BY <1>1
  <2> QED
    BY <2>2, <2>3, Zenon
<1>3. CASE n = 0
  <2>1. ss = <<>>
    BY <1>3, EmptySeq DEF n
  <2>2. FlattenSeq(ss) = <<>>
    BY <2>1, FlattenEmpty
  <2>3. g[1] = s
    BY <1>1, <1>2, <1>3 DEF Flattens
  <2> QED
    BY <1>2, <1>3, <2>2, <2>3, ConcatEmptySeq DEF tt
<1>4. CASE n # 0
  <2>1. PICK f \in [1 .. n -> Seq(S)] : Flattens(f, ss, n) /\ FlattenSeq(ss) = f[n]
    BY <1>4, FlattenSeqIs DEF n
  <2>2. /\ 1 .. n \subseteq 1 .. n + 1 /\ n \in 1 .. n /\ n + 1 \in 1 .. n + 1
        /\ n + 1 # 1 /\ (n + 1) - 1 = n
    BY <1>1, <1>4
  <2>3. f[n] = g[n]
    <3>1. Flattens(g, tt, n)
      BY <1>2, <2>2 DEF Flattens
    <3>2. \A i \in 1 .. n : f[i] = g[i]
      BY <1>1, <2>1, <3>1, FlattensUnique, ZenonT(60)
    <3> QED
      BY <2>2, <3>2
  <2>4. g[n + 1] = g[n] \o s
    <3>1. g[n + 1] = IF n + 1 = 1 THEN tt[n + 1] ELSE g[(n + 1) - 1] \o tt[n + 1]
      BY <1>2, <2>2, Zenon DEF Flattens
    <3> QED
      BY <3>1, <2>2, <1>1, Zenon
  <2>5. f[n] \in Seq(S)
    BY <2>1, <2>2
  <2> QED
    BY <1>2, <2>1, <2>3, <2>4, <2>5 DEF tt
<1> QED
  BY <1>3, <1>4

\* The first sequence comes first.
LEMMA FlattenFirst ==
  ASSUME NEW S, NEW ss \in Seq(Seq(S)), NEW s \in Seq(S)
  PROVE  FlattenSeq(<<s>> \o ss) = s \o FlattenSeq(ss)
<1> DEFINE Bad == {k \in Nat : \E tt \in Seq(Seq(S)) :
                     Len(tt) = k /\ FlattenSeq(<<s>> \o tt) # s \o FlattenSeq(tt)}
<1> SUFFICES ASSUME Bad # {} PROVE FALSE
  <2>1. Len(ss) \in Nat
    OBVIOUS
  <2> QED
    BY <2>1, Zenon
<1>0. Bad \subseteq Nat
  OBVIOUS
<1>1. PICK m \in Bad : \A k \in Bad : m <= k
  BY <1>0, LeastNatural, Zenon
<1>2. PICK tt \in Seq(Seq(S)) : Len(tt) = m /\ FlattenSeq(<<s>> \o tt) # s \o FlattenSeq(tt)
  OBVIOUS
<1>3. <<s>> \in Seq(Seq(S)) /\ <<>> \in Seq(Seq(S)) /\ <<>> \in Seq(S) /\ <<s>> = Append(<<>>, s)
  OBVIOUS
<1>4. CASE m = 0
  <2>1. tt = <<>>
    BY <1>2, <1>4, EmptySeq
  <2>2. <<s>> \o tt = Append(<<>>, s)
    BY <1>3, <2>1, ConcatEmptySeq
  <2>3. FlattenSeq(<<s>> \o tt) = <<>> \o s
    BY <1>3, <2>2, FlattenAppend, FlattenEmpty, ZenonT(60)
  <2>4. s \o FlattenSeq(tt) = s /\ <<>> \o s = s
    BY <2>1, FlattenEmpty, ConcatEmptySeq
  <2> QED
    BY <1>2, <2>3, <2>4
<1>5. CASE m # 0
  <2> DEFINE uu == SubSeq(tt, 1, m - 1)
             x == tt[m]
  <2>1. m \in Nat /\ m - 1 \in Nat /\ m - 1 \notin Bad
    <3>1. m \in Nat
      BY <1>0, <1>1
    <3> HIDE DEF Bad
    <3>2. m - 1 \in Nat /\ ~(m <= m - 1)
      BY <3>1, <1>5
    <3> QED
      BY <1>1, <3>1, <3>2, Zenon
  <2>2. x \in Seq(S)
    BY <1>2, <1>5, <2>1, ElementOfSeq
  <2>3. /\ uu \in Seq(Seq(S)) /\ Len(uu) = m - 1
        /\ \A i \in 1 .. m - 1 : uu[i] = tt[i]
    <3>1. \A i \in 1 .. m - 1 : tt[i] \in Seq(S)
      BY <1>2, <2>1, ElementOfSeq
    <3>2. m - 1 \in Int /\ 1 \in Int
      BY <2>1
    <3>3. /\ uu \in Seq(Seq(S)) /\ Len(uu) = (IF 1 <= m - 1 THEN (m - 1) - 1 + 1 ELSE 0)
          /\ \A i \in 1 .. (m - 1) - 1 + 1 : uu[i] = tt[1 + i - 1]
      BY <3>1, <3>2, SubSeqProperties
    <3> QED
      BY <2>1, <3>3, SMTT(60)
  <2> HIDE DEF uu, x
  <2>4. tt = Append(uu, x)
    <3>1. /\ Append(uu, x) \in Seq(Seq(S)) /\ Len(Append(uu, x)) = m
          /\ \A i \in 1 .. m - 1 : Append(uu, x)[i] = uu[i]
          /\ Append(uu, x)[m] = x
      BY <2>1, <2>2, <2>3, AppendProperties, SMTT(60)
    <3>2. \A i \in 1 .. m : tt[i] = Append(uu, x)[i]
      BY <2>1, <2>3, <3>1, SMTT(60) DEF x
    <3> QED
      BY <1>2, <3>1, <3>2, SeqEqual
  <2>5. FlattenSeq(<<s>> \o uu) = s \o FlattenSeq(uu)
    BY <2>1, <2>3
  <2> HIDE DEF Bad
  <2>6. <<s>> \o tt = Append(<<s>> \o uu, x) /\ <<s>> \o uu \in Seq(Seq(S))
    <3>1. <<s>> \o uu \in Seq(Seq(S)) /\ <<x>> \in Seq(Seq(S))
      BY <1>3, <2>2, <2>3, ConcatProperties
    <3>2. Append(uu, x) = uu \o <<x>> /\ Append(<<s>> \o uu, x) = (<<s>> \o uu) \o <<x>>
      BY <2>2, <2>3, <3>1, AppendIsConcat, Zenon
    <3>3. (<<s>> \o uu) \o <<x>> = <<s>> \o (uu \o <<x>>)
      <4> DEFINE a == <<s>>
                 b == <<x>>
      <4>1. a \in Seq(Seq(S)) /\ b \in Seq(Seq(S)) /\ uu \in Seq(Seq(S))
        BY <1>3, <2>3, <3>1
      <4> HIDE DEF a, b
      <4>2. (a \o uu) \o b = a \o (uu \o b)
        BY <4>1, ConcatAssociative, SMTT(60)
      <4> QED
        BY <4>2, Zenon DEF a, b
    <3> QED
      BY <2>4, <3>1, <3>2, <3>3, Zenon
  <2>7. FlattenSeq(<<s>> \o tt) = FlattenSeq(<<s>> \o uu) \o x
    BY <2>2, <2>6, FlattenAppend
  <2>8. FlattenSeq(tt) = FlattenSeq(uu) \o x /\ FlattenSeq(uu) \in Seq(S)
    BY <2>2, <2>3, <2>4, FlattenAppend
  <2>9. (s \o FlattenSeq(uu)) \o x = s \o (FlattenSeq(uu) \o x)
    <3> DEFINE v == FlattenSeq(uu)
    <3>1. v \in Seq(S)
      BY <2>8
    <3> HIDE DEF v
    <3>2. (s \o v) \o x = s \o (v \o x)
      BY <2>2, <3>1, ConcatAssociative, SMTT(60)
    <3> QED
      BY <3>2 DEF v
  <2> QED
    BY <1>2, <2>5, <2>7, <2>8, <2>9
<1> QED
  BY <1>4, <1>5


\* A concatenation is a sequence over the same set.
LEMMA FlattenType ==
  ASSUME NEW S, NEW ss \in Seq(Seq(S))
  PROVE  FlattenSeq(ss) \in Seq(S)
<1>1. <<>> \in Seq(S)
  OBVIOUS
<1> QED
  BY <1>1, FlattenAppend

\* What precedes and what follows a point of a sequence.
LEMMA SubSeqsOfConcat ==
  ASSUME NEW S, NEW p \in Seq(S), NEW q \in Seq(S)
  PROVE  /\ SubSeq(p \o q, 1, Len(p)) = p
         /\ SubSeq(p \o q, Len(p) + 1, Len(p \o q)) = q
<1> DEFINE c == p \o q
<1>1. /\ c \in Seq(S) /\ Len(c) = Len(p) + Len(q) /\ Len(p) \in Nat /\ Len(q) \in Nat
      /\ \A i \in 1 .. Len(p) + Len(q) : c[i] = IF i <= Len(p) THEN p[i] ELSE q[i - Len(p)]
  BY ConcatProperties
<1> HIDE DEF c
<1>2. \A i \in 1 .. Len(c) : c[i] \in S
  BY <1>1, ElementOfSeq
<1>3. SubSeq(c, 1, Len(p)) = p
  <2>1. \A i \in 1 .. Len(p) : c[i] \in S
    BY <1>1, <1>2
  <2>2. /\ SubSeq(c, 1, Len(p)) \in Seq(S)
        /\ Len(SubSeq(c, 1, Len(p))) = IF 1 <= Len(p) THEN Len(p) - 1 + 1 ELSE 0
        /\ \A i \in 1 .. Len(p) - 1 + 1 : SubSeq(c, 1, Len(p))[i] = c[1 + i - 1]
    BY <1>1, <2>1, SubSeqProperties
  <2>3. \A i \in 1 .. Len(p) : SubSeq(c, 1, Len(p))[i] = p[i]
    BY <1>1, <2>2
  <2> QED
    BY <1>1, <2>2, <2>3, SeqEqual
<1>4. SubSeq(c, Len(p) + 1, Len(c)) = q
  <2> DEFINE m == Len(p) + 1
             n == Len(c)
  <2>1. m \in Int /\ n \in Int /\ \A i \in m .. n : c[i] \in S
    BY <1>1, <1>2
  <2>2. /\ SubSeq(c, m, n) \in Seq(S)
        /\ Len(SubSeq(c, m, n)) = IF m <= n THEN n - m + 1 ELSE 0
        /\ \A i \in 1 .. n - m + 1 : SubSeq(c, m, n)[i] = c[m + i - 1]
    BY <1>1, <2>1, SubSeqProperties
  <2>3. \A i \in 1 .. Len(q) : SubSeq(c, m, n)[i] = q[i]
    BY <1>1, <2>2, SMTT(60)
  <2> QED
    BY <1>1, <2>2, <2>3, SeqEqual
<1> QED
  BY <1>3, <1>4 DEF c

\* An element added at the end of the second part.
LEMMA ConcatAppend ==
  ASSUME NEW S, NEW s \in Seq(S), NEW t \in Seq(S), NEW x \in S
  PROVE  s \o Append(t, x) = Append(s \o t, x) /\ s \o t \in Seq(S)
<1>1. <<x>> \in Seq(S) /\ s \o t \in Seq(S)
  BY ConcatProperties
<1>2. Append(t, x) = t \o <<x>>
  BY AppendIsConcat
<1>3. Append(s \o t, x) = (s \o t) \o <<x>>
  BY <1>1, AppendIsConcat
<1>4. (s \o t) \o <<x>> = s \o (t \o <<x>>)
  BY <1>1, ConcatAssociative, SMTT(60)
<1> QED
  BY <1>1, <1>2, <1>3, <1>4, Zenon


\* f starts at v0 and goes from each value to the next by step, up to n.
Iterates(f, v0, step, n) ==
  /\ f[0] = v0
  /\ \A i \in 0 .. n - 1 : f[i + 1] = step[<<i, f[i]>>]

\* An iteration can be carried out up to any n.
LEMMA IteratesUpTo ==
  ASSUME NEW V, NEW v0 \in V, NEW step \in [Nat \X V -> V], NEW n \in Nat
  PROVE  \E f \in [0 .. n -> V] : Iterates(f, v0, step, n)
<1> DEFINE Bad == {k \in Nat : ~\E f \in [0 .. k -> V] : Iterates(f, v0, step, k)}
<1> SUFFICES ASSUME Bad # {} PROVE FALSE
  OBVIOUS
<1>1. PICK m \in Bad : \A k \in Bad : m <= k
  BY LeastNatural
<1>2. m \in Nat /\ ~\E f \in [0 .. m -> V] : Iterates(f, v0, step, m)
  OBVIOUS
<1>3. m # 0
  <2>1. PICK f : f = [i \in 0 .. 0 |-> v0]
    OBVIOUS
  <2>2. f \in [0 .. 0 -> V] /\ f[0] = v0
    BY <2>1
  <2>3. \A i : i \notin 0 .. 0 - 1
    OBVIOUS
  <2>4. Iterates(f, v0, step, 0)
    BY <2>2, <2>3 DEF Iterates
  <2> QED
    BY <1>2, <2>2, <2>4
<1>4. PICK k \in Nat : m = k + 1
  <2>1. m - 1 \in Nat /\ m = (m - 1) + 1
    BY <1>2, <1>3
  <2> QED
    BY <2>1
<1>5. k \notin Bad
  BY <1>1, <1>4
<1>6. PICK f \in [0 .. k -> V] : Iterates(f, v0, step, k)
  BY <1>5
<1> HIDE DEF Bad
<1>7. PICK g : g = [i \in 0 .. m |-> IF i = m THEN step[<<k, f[k]>>] ELSE f[i]]
  OBVIOUS
<1>8. /\ \A i \in 0 .. k : g[i] = f[i] /\ i \in 0 .. m
      /\ g[m] = step[<<k, f[k]>>]
  BY <1>2, <1>4, <1>7
<1>9. g \in [0 .. m -> V]
  <2>1. k \in 0 .. k /\ step[<<k, f[k]>>] \in V
    OBVIOUS
  <2>2. \A i \in 0 .. m : i # m => i \in 0 .. k
    BY <1>4
  <2> QED
    BY <1>7, <2>1, <2>2
<1>10. Iterates(g, v0, step, m)
  <2>1. g[0] = v0
    BY <1>6, <1>8 DEF Iterates
  <2>2. ASSUME NEW i \in 0 .. m - 1 PROVE g[i + 1] = step[<<i, g[i]>>]
    <3>1. CASE i = k
      BY <1>4, <1>8, <3>1, SMTT(60)
    <3>2. CASE i # k
      <4>1. i \in 0 .. k - 1 /\ i + 1 \in 0 .. k /\ i \in 0 .. k
        BY <1>4, <3>2
      <4> QED
        BY <1>6, <1>8, <4>1 DEF Iterates
    <3> QED
      BY <3>1, <3>2
  <2> QED
    BY <2>1, <2>2 DEF Iterates
<1> QED
  BY <1>2, <1>9, <1>10

\* Two iterations agree as far as both go.
LEMMA IteratesUnique ==
  ASSUME NEW v0, NEW step, NEW m \in Nat, NEW n \in Nat, m <= n, NEW f, NEW g,
         Iterates(f, v0, step, m), Iterates(g, v0, step, n)
  PROVE  f[m] = g[m]
<1> DEFINE Bad == {k \in 0 .. m : f[k] # g[k]}
<1> SUFFICES ASSUME Bad # {} PROVE FALSE
  BY m \in 0 .. m
<1>1. PICK k \in Bad : \A i \in Bad : k <= i
  <2>1. Bad \subseteq Nat
    OBVIOUS
  <2> QED
    BY <2>1, LeastNatural
<1>2. k \in 0 .. m /\ f[k] # g[k]
  OBVIOUS
<1>3. k # 0
  BY <1>2 DEF Iterates
<1>4. PICK j \in Nat : k = j + 1
  <2>1. k - 1 \in Nat /\ k = (k - 1) + 1
    BY <1>2, <1>3
  <2> QED
    BY <2>1
<1>5. j \in 0 .. m /\ ~(k <= j) /\ j \in 0 .. m - 1 /\ j \in 0 .. n - 1
  BY <1>2, <1>4
<1>6. f[j] = g[j]
  BY <1>1, <1>5
<1> HIDE DEF Bad
<1>7. f[j + 1] = step[<<j, f[j]>>] /\ g[j + 1] = step[<<j, g[j]>>]
  BY <1>5 DEF Iterates
<1> QED
  BY <1>2, <1>4, <1>6, <1>7

\* The same for all natural numbers.
Iteration(f, v0, step) ==
  f[0] = v0 /\ \A n \in Nat : f[n + 1] = step[<<n, f[n]>>]

\* Recursion over the natural numbers: the function exists.
LEMMA IterationExists ==
  ASSUME NEW V, NEW v0 \in V, NEW step \in [Nat \X V -> V]
  PROVE  \E f \in [Nat -> V] : Iteration(f, v0, step)
<1> DEFINE Up(n) == CHOOSE f \in [0 .. n -> V] : Iterates(f, v0, step, n)
<1>1. \A n \in Nat : Up(n) \in [0 .. n -> V] /\ Iterates(Up(n), v0, step, n)
  BY IteratesUpTo
<1> HIDE DEF Up
<1>2. PICK f : f = [n \in Nat |-> Up(n)[n]]
  OBVIOUS
<1>3. f \in [Nat -> V]
  <2>1. \A n \in Nat : n \in 0 .. n
    OBVIOUS
  <2> QED
    BY <1>1, <1>2, <2>1
<1>4. f[0] = v0
  BY <1>1, <1>2 DEF Iterates
<1>5. ASSUME NEW n \in Nat PROVE f[n + 1] = step[<<n, f[n]>>]
  <2>1. n + 1 \in Nat /\ n <= n + 1 /\ n \in 0 .. (n + 1) - 1
    OBVIOUS
  <2>2. f[n + 1] = Up(n + 1)[n + 1] /\ f[n] = Up(n)[n]
    BY <1>2, <2>1
  <2>3. Up(n + 1)[n + 1] = step[<<n, Up(n + 1)[n]>>]
    BY <1>1, <2>1 DEF Iterates
  <2>4. Up(n)[n] = Up(n + 1)[n]
    BY <1>1, <2>1, IteratesUnique
  <2> QED
    BY <2>2, <2>3, <2>4
<1> QED
  BY <1>3, <1>4, <1>5 DEF Iteration
=============================================================================
