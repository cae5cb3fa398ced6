----------------------------- MODULE RpcProofs ------------------------------
(***************************************************************************)
(* Proofs about ByteArray and about one remote call (Rpc).                 *)
(***************************************************************************)
EXTENDS Rpc, SeqLemmas

-----------------------------------------------------------------------------
(* ByteArray *)

\* An array as every caller of send() and receive() has it.
Array(b) == b \in [readPos : Nat, writePos : Nat, buf : Seq(Int)] /\ Sound(b)

\* Byte i of what is unread.
Unread(b, i) == b.buf[b.readPos + i]

\* A part of a sequence that lies within it.
LEMMA PartIs ==
  ASSUME NEW S, NEW s \in Seq(S), NEW m \in Nat, NEW n \in Nat, m <= n, n <= Len(s)
  PROVE  /\ SubSeq(s, m + 1, n) \in Seq(S)
         /\ Len(SubSeq(s, m + 1, n)) = n - m
         /\ \A i \in 1 .. n - m : SubSeq(s, m + 1, n)[i] = s[m + i]
<1>1. Len(s) \in Nat /\ \A i \in m + 1 .. n : s[i] \in S
  OBVIOUS
<1>2. m + 1 \in Int /\ n \in Int /\ n - (m + 1) + 1 = n - m
  OBVIOUS
<1>3. /\ SubSeq(s, m + 1, n) \in Seq(S)
      /\ Len(SubSeq(s, m + 1, n)) = IF m + 1 <= n THEN n - (m + 1) + 1 ELSE 0
      /\ \A i \in 1 .. n - (m + 1) + 1 : SubSeq(s, m + 1, n)[i] = s[(m + 1) + i - 1]
  BY <1>1, <1>2, SubSeqProperties
<1>4. \A i \in 1 .. n - m : (m + 1) + i - 1 = m + i
  OBVIOUS
<1> QED
  BY <1>2, <1>3, <1>4

\* q is what s holds behind m up to n.
PartOf(q, S, s, m, n) ==
  q \in Seq(S) /\ Len(q) = n - m /\ \A i \in 1 .. n - m : q[i] = s[m + i]

\* PartIs, in one word.
LEMMA PartOfIs ==
  ASSUME NEW S, NEW s \in Seq(S), NEW m \in Nat, NEW n \in Nat, m <= n, n <= Len(s)
  PROVE  PartOf(SubSeq(s, m + 1, n), S, s, m, n)
  BY PartIs DEF PartOf

\* t is s with bytes in place of what was there behind at.
CopyOf(t, S, s, at, bytes) ==
  /\ t \in Seq(S) /\ Len(t) = Len(s)
  /\ \A i \in 1 .. Len(s) : t[i] =
       IF i <= at THEN s[i] ELSE IF i <= at + Len(bytes) THEN bytes[i - at] ELSE s[i]

\* A copy into a vector that has the room changes the bytes copied over, no other.
LEMMA CopiedToIs ==
  ASSUME NEW S, NEW s \in Seq(S), NEW bytes \in Seq(S), NEW at \in Nat,
         at + Len(bytes) <= Len(s)
  PROVE  CopyOf(CopiedTo(s, at, bytes), S, s, at, bytes)
<1>1. PICK k \in Nat : k = Len(bytes)
  OBVIOUS
<1>2. PICK n \in Nat : n = Len(s)
  OBVIOUS
<1>3. PICK p : p = SubSeq(s, 1, at)
  OBVIOUS
<1>4. PICK q : q = SubSeq(s, at + k + 1, n)
  OBVIOUS
<1>5. p \in Seq(S) /\ Len(p) = at /\ \A i \in 1 .. at : p[i] = s[i]
  <2>1. 0 + 1 = 1 /\ at - 0 = at /\ \A i \in 1 .. at : 0 + i = i
    OBVIOUS
  <2>2. 0 \in Nat /\ 0 <= at /\ at <= Len(s)
    BY <1>1, <1>2
  <2> QED
    BY <1>3, <2>1, <2>2, PartIs
<1>6. q \in Seq(S) /\ Len(q) = n - (at + k) /\ \A i \in 1 .. n - (at + k) : q[i] = s[at + k + i]
  <2>1. at + k \in Nat /\ at + k <= n /\ n <= Len(s)
    BY <1>1, <1>2
  <2> QED
    BY <1>4, <2>1, PartIs, ZenonT(60)
<1>7. PICK pb : pb = p \o bytes
  OBVIOUS
<1>8. /\ pb \in Seq(S) /\ Len(pb) = at + k
      /\ \A i \in 1 .. at + k : pb[i] = IF i <= at THEN s[i] ELSE bytes[i - at]
  <2>1. p \in Seq(S)
    BY <1>5
  <2>2. /\ p \o bytes \in Seq(S) /\ Len(p \o bytes) = Len(p) + Len(bytes)
        /\ \A i \in 1 .. Len(p) + Len(bytes) : (p \o bytes)[i] =
             IF i <= Len(p) THEN p[i] ELSE bytes[i - Len(p)]
    BY <2>1, ConcatProperties
  <2> QED
    BY <1>1, <1>5, <1>7, <2>2
<1>9. CopiedTo(s, at, bytes) = pb \o q
  BY <1>1, <1>2, <1>3, <1>4, <1>7 DEF CopiedTo
<1>10. /\ pb \o q \in Seq(S) /\ Len(pb \o q) = n
       /\ \A i \in 1 .. n : (pb \o q)[i] = IF i <= at + k THEN pb[i] ELSE q[i - (at + k)]
  <2>1. /\ pb \o q \in Seq(S) /\ Len(pb \o q) = Len(pb) + Len(q)
        /\ \A i \in 1 .. Len(pb) + Len(q) : (pb \o q)[i] =
             IF i <= Len(pb) THEN pb[i] ELSE q[i - Len(pb)]
    <3>1. pb \in Seq(S) /\ q \in Seq(S)
      BY <1>6, <1>8
    <3> QED
      BY <3>1, ConcatProperties
  <2>2. Len(pb) + Len(q) = n
    BY <1>6, <1>8
  <2> QED
    BY <1>8, <2>1, <2>2
<1>11. \A i \in 1 .. n : i > at + k => i - (at + k) \in 1 .. n - (at + k) /\ at + k + (i - (at + k)) = i
  OBVIOUS
<1> QED
  <2>1. PICK t : t = pb \o q
    OBVIOUS
  <2>2. /\ t \in Seq(S) /\ Len(t) = n
        /\ \A i \in 1 .. n : t[i] = IF i <= at + k THEN pb[i] ELSE q[i - (at + k)]
    BY <1>10, <2>1
  <2>3. ASSUME NEW i \in 1 .. n
        PROVE  t[i] = IF i <= at THEN s[i] ELSE IF i <= at + k THEN bytes[i - at] ELSE s[i]
    <3>1. CASE i <= at + k
      <4>1. i \in 1 .. at + k
        BY <3>1
      <4> QED
        BY <1>8, <2>2, <3>1, <4>1
    <3>2. CASE ~(i <= at + k)
      <4>1. i - (at + k) \in 1 .. n - (at + k) /\ at + k + (i - (at + k)) = i /\ ~(i <= at)
        BY <3>2
      <4>2. q[i - (at + k)] = s[i]
        BY <1>6, <4>1
      <4> QED
        BY <2>2, <3>2, <4>1, <4>2
    <3> QED
      BY <3>1, <3>2
  <2> QED
    BY <1>1, <1>2, <1>9, <2>1, <2>2, <2>3 DEF CopyOf

\* A larger vector starts with what it held.
LEMMA ResizedIs ==
  ASSUME NEW s \in Seq(Int), NEW n \in Nat, n >= Len(s)
  PROVE  /\ Resized(s, n) \in Seq(Int) /\ Len(Resized(s, n)) = n
         /\ \A i \in 1 .. Len(s) : Resized(s, n)[i] = s[i]
<1>1. CASE n = Len(s)
  <2>1. Resized(s, n) = SubSeq(s, 0 + 1, n)
    BY <1>1 DEF Resized
  <2>2. 0 \in Nat /\ 0 <= n /\ n <= Len(s) /\ n - 0 = n /\ \A i \in 1 .. n : 0 + i = i
    BY <1>1
  <2> QED
    BY <1>1, <2>1, <2>2, PartIs
<1>2. CASE n > Len(s)
  <2>1. PICK z : z = [i \in 1 .. n - Len(s) |-> 0]
    OBVIOUS
  <2>2. z \in Seq(Int) /\ Len(z) = n - Len(s)
    BY <1>2, <2>1
  <2>3. Resized(s, n) = s \o z
    BY <1>2, <2>1 DEF Resized
  <2> QED
    BY <2>2, <2>3, ConcatProperties
<1> QED
  BY <1>1, <1>2


\* The array with these positions and bytes.
Arr(rp, wp, s) == [readPos |-> rp, writePos |-> wp, buf |-> s]

InOrder(rp, wp, s) ==
  /\ rp \in Nat /\ wp \in Nat /\ s \in Seq(Int)
  /\ kCheapPrepend <= rp /\ rp <= wp /\ wp <= Len(s)

\* An array, taken apart into its positions and its vector.
LEMMA ArrayParts ==
  ASSUME NEW b, Array(b)
  PROVE  \E rp \in Nat, wp \in Nat, s \in Seq(Int) : b = Arr(rp, wp, s) /\ InOrder(rp, wp, s)
<1>1. b \in [readPos : Nat, writePos : Nat, buf : Seq(Int)]
  BY DEF Array
<1>2. b = Arr(b.readPos, b.writePos, b.buf)
  BY <1>1 DEF Arr
<1>3. b.readPos \in Nat /\ b.writePos \in Nat /\ b.buf \in Seq(Int) /\ kCheapPrepend \in Nat
  BY <1>1, ByteArrayAssumption
<1>4. InOrder(b.readPos, b.writePos, b.buf)
  BY <1>3 DEF Array, Sound, InOrder
<1> QED
  BY <1>2, <1>3, <1>4

\* And put together again.
LEMMA PartsArray ==
  ASSUME NEW rp, NEW wp, NEW s, InOrder(rp, wp, s)
  PROVE  /\ Array(Arr(rp, wp, s))
         /\ getReadSize(Arr(rp, wp, s)) = wp - rp /\ wp - rp \in Nat
         /\ getWriteSize(Arr(rp, wp, s)) = Len(s) - wp
         /\ \A i : Unread(Arr(rp, wp, s), i) = s[rp + i]
<1>1. /\ rp \in Nat /\ wp \in Nat /\ s \in Seq(Int) /\ kCheapPrepend \in Nat
      /\ kCheapPrepend <= rp /\ rp <= wp /\ wp <= Len(s)
  BY ByteArrayAssumption DEF InOrder
<1>2. PICK c : c = Arr(rp, wp, s)
  OBVIOUS
<1>3. /\ c \in [readPos : Nat, writePos : Nat, buf : Seq(Int)]
      /\ c.readPos = rp /\ c.writePos = wp /\ c.buf = s
  BY <1>1, <1>2 DEF Arr
<1>4. Array(c) /\ getReadSize(c) = wp - rp /\ wp - rp \in Nat /\ getWriteSize(c) = Len(s) - wp
  BY <1>1, <1>3 DEF Array, Sound, getReadSize, getWriteSize
<1>5. \A i : Unread(c, i) = s[rp + i]
  BY <1>3 DEF Unread
<1> QED
  BY <1>2, <1>4, <1>5

\* A ByteArray just constructed has nothing to read.
LEMMA NewIs == Array(New) /\ getReadSize(New) = 0
<1>1. kCheapPrepend \in Nat /\ kInitSize \in Nat
  BY ByteArrayAssumption
<1>2. PICK z : z = [i \in 1 .. kCheapPrepend + kInitSize |-> 0]
  OBVIOUS
<1>3. z \in Seq(Int) /\ Len(z) = kCheapPrepend + kInitSize
  BY <1>1, <1>2
<1>4. New = Arr(kCheapPrepend, kCheapPrepend, z)
  BY <1>2 DEF New, Arr
<1>5. InOrder(kCheapPrepend, kCheapPrepend, z)
  BY <1>1, <1>3 DEF InOrder
<1>6. kCheapPrepend - kCheapPrepend = 0
  BY <1>1
<1> QED
  BY <1>4, <1>5, <1>6, PartsArray

\* addCapacity makes the room it is asked for and keeps what is unread, whether
\* the vector grows or the bytes move.
LEMMA AddCapacityIs ==
  ASSUME NEW b, Array(b), NEW n \in Nat
  PROVE  /\ Array(addCapacity(b, n))
         /\ getReadSize(addCapacity(b, n)) = getReadSize(b)
         /\ getWriteSize(addCapacity(b, n)) >= n
         /\ \A i \in 1 .. getReadSize(b) : Unread(addCapacity(b, n), i) = Unread(b, i)
<1>1. PICK rp \in Nat, wp \in Nat, s \in Seq(Int) : b = Arr(rp, wp, s) /\ InOrder(rp, wp, s)
  BY ArrayParts
<1>2. /\ kCheapPrepend \in Nat /\ Len(s) \in Nat
      /\ kCheapPrepend <= rp /\ rp <= wp /\ wp <= Len(s)
  BY <1>1, ByteArrayAssumption DEF InOrder
<1>3. /\ getReadSize(b) = wp - rp /\ getWriteSize(b) = Len(s) - wp
      /\ \A i : Unread(b, i) = s[rp + i]
  BY <1>1, PartsArray
<1>4. b.readPos = rp /\ b.writePos = wp /\ b.buf = s
  BY <1>1 DEF Arr
<1>5. PICK c : c = addCapacity(b, n)
  OBVIOUS
<1>6. CASE MustGrow(b, n)
  <2>1. Len(s) < wp + n /\ wp + n \in Nat
    BY <1>2, <1>3, <1>4, <1>6 DEF MustGrow
  <2>2. PICK t : t = Resized(s, wp + n)
    OBVIOUS
  <2>3. t \in Seq(Int) /\ Len(t) = wp + n /\ \A i \in 1 .. Len(s) : t[i] = s[i]
    BY <1>2, <2>1, <2>2, ResizedIs, SMTT(60)
  <2>4. c = Arr(rp, wp, t)
    BY <1>1, <1>4, <1>5, <1>6, <2>2 DEF addCapacity, Arr
  <2>5. InOrder(rp, wp, t)
    BY <1>2, <2>3 DEF InOrder
  <2>6. /\ Array(c) /\ getReadSize(c) = wp - rp /\ getWriteSize(c) = Len(t) - wp
        /\ \A i : Unread(c, i) = t[rp + i]
    BY <2>4, <2>5, PartsArray
  <2>7. \A i \in 1 .. wp - rp : rp + i \in 1 .. Len(s)
    BY <1>2
  <2>8. Len(t) - wp >= n
    BY <2>3
  <2> QED
    BY <1>3, <1>5, <2>3, <2>6, <2>7, <2>8
<1>7. CASE ~MustGrow(b, n)
  <2>1. Len(s) - wp + rp >= n + kCheapPrepend
    BY <1>2, <1>3, <1>4, <1>7 DEF MustGrow
  <2>2. PICK r : r = Readable(b)
    OBVIOUS
  <2>3. r \in Seq(Int) /\ Len(r) = wp - rp /\ \A i \in 1 .. wp - rp : r[i] = s[rp + i]
    BY <1>2, <1>4, <2>2, PartIs, SMTT(60) DEF Readable
  <2>4. PICK t : t = CopiedTo(s, kCheapPrepend, r)
    OBVIOUS
  <2>5. /\ t \in Seq(Int) /\ Len(t) = Len(s)
        /\ \A i \in 1 .. Len(s) : t[i] =
             IF i <= kCheapPrepend THEN s[i]
             ELSE IF i <= kCheapPrepend + Len(r) THEN r[i - kCheapPrepend] ELSE s[i]
    <3>1. kCheapPrepend + Len(r) <= Len(s)
      BY <1>2, <2>1, <2>3
    <3>2. r \in Seq(Int) /\ kCheapPrepend \in Nat
      BY <1>2, <2>3
    <3>3. CopyOf(t, Int, s, kCheapPrepend, r)
      BY <2>4, <3>1, <3>2, CopiedToIs
    <3> QED
      BY <3>3 DEF CopyOf
  <2>6. PICK q \in Nat : q = kCheapPrepend + (wp - rp)
    BY <1>2
  <2>7. c = Arr(kCheapPrepend, q, t)
    BY <1>1, <1>3, <1>4, <1>5, <1>7, <2>2, <2>4, <2>6 DEF addCapacity, Arr
  <2>8. InOrder(kCheapPrepend, q, t)
    BY <1>2, <2>1, <2>5, <2>6 DEF InOrder
  <2>9. /\ Array(c) /\ getReadSize(c) = q - kCheapPrepend /\ getWriteSize(c) = Len(t) - q
        /\ \A i : Unread(c, i) = t[kCheapPrepend + i]
    BY <2>7, <2>8, PartsArray
  <2>10. q - kCheapPrepend = wp - rp /\ Len(t) - q >= n
    BY <1>2, <2>1, <2>5, <2>6, SMTT(60)
  <2>11. ASSUME NEW i \in 1 .. wp - rp PROVE t[kCheapPrepend + i] = s[rp + i]
    <3>1. /\ kCheapPrepend + i \in 1 .. Len(s) /\ (kCheapPrepend + i) - kCheapPrepend = i
          /\ ~(kCheapPrepend + i <= kCheapPrepend)
      BY <1>2
    <3>2. kCheapPrepend + i <= kCheapPrepend + Len(r)
      BY <1>2, <2>3
    <3>3. t[kCheapPrepend + i] = r[i]
      BY <2>5, <3>1, <3>2
    <3> QED
      BY <2>3, <3>3
  <2> QED
    BY <1>3, <1>5, <2>9, <2>10, <2>11
<1> QED
  BY <1>6, <1>7

\* Bytes written into the room that is there come after what is unread.
LEMMA FilledIs ==
  ASSUME NEW b, Array(b), NEW bytes \in Seq(Int), Len(bytes) <= getWriteSize(b)
  PROVE  /\ Array(Filled(b, bytes))
         /\ Filled(b, bytes).readPos = b.readPos
         /\ getReadSize(Filled(b, bytes)) = getReadSize(b) + Len(bytes)
         /\ \A i \in 1 .. getReadSize(b) + Len(bytes) : Unread(Filled(b, bytes), i) =
              IF i <= getReadSize(b) THEN Unread(b, i) ELSE bytes[i - getReadSize(b)]
<1>1. PICK rp \in Nat, wp \in Nat, s \in Seq(Int) : b = Arr(rp, wp, s) /\ InOrder(rp, wp, s)
  BY ArrayParts
<1>2. /\ kCheapPrepend \in Nat /\ Len(s) \in Nat
      /\ kCheapPrepend <= rp /\ rp <= wp /\ wp <= Len(s)
  BY <1>1, ByteArrayAssumption DEF InOrder
<1>3. /\ getReadSize(b) = wp - rp /\ getWriteSize(b) = Len(s) - wp
      /\ \A i : Unread(b, i) = s[rp + i]
  BY <1>1, PartsArray
<1>4. b.readPos = rp /\ b.writePos = wp /\ b.buf = s
  BY <1>1 DEF Arr
<1>5. PICK n \in Nat : n = Len(bytes)
  OBVIOUS
<1>6. wp + n <= Len(s)
  BY <1>2, <1>3, <1>5
<1>7. PICK t : t = CopiedTo(s, wp, bytes)
  OBVIOUS
<1>8. /\ t \in Seq(Int) /\ Len(t) = Len(s)
      /\ \A i \in 1 .. Len(s) : t[i] =
           IF i <= wp THEN s[i] ELSE IF i <= wp + n THEN bytes[i - wp] ELSE s[i]
  <2>1. wp + Len(bytes) <= Len(s)
    BY <1>5, <1>6
  <2>2. CopyOf(t, Int, s, wp, bytes)
    BY <1>7, <2>1, CopiedToIs
  <2> QED
    BY <1>5, <2>2 DEF CopyOf
<1>9. PICK c : c = Filled(b, bytes)
  OBVIOUS
<1>10. c = Arr(rp, wp + n, t) /\ c.readPos = rp
  BY <1>1, <1>4, <1>5, <1>7, <1>9 DEF Filled, Arr
<1>11. InOrder(rp, wp + n, t)
  BY <1>2, <1>6, <1>8 DEF InOrder
<1>12. /\ Array(c) /\ getReadSize(c) = wp + n - rp /\ \A i : Unread(c, i) = t[rp + i]
  BY <1>10, <1>11, PartsArray
<1>13. wp + n - rp = (wp - rp) + n
  OBVIOUS
<1>14. ASSUME NEW i \in 1 .. (wp - rp) + n
       PROVE  t[rp + i] = IF i <= wp - rp THEN s[rp + i] ELSE bytes[i - (wp - rp)]
  <2>1. /\ rp + i \in 1 .. Len(s) /\ (rp + i <= wp <=> i <= wp - rp)
        /\ rp + i <= wp + n /\ (rp + i) - wp = i - (wp - rp)
    BY <1>2, <1>6
  <2> QED
    BY <1>8, <2>1
<1> QED
  BY <1>3, <1>4, <1>5, <1>9, <1>10, <1>12, <1>13, <1>14, ZenonT(60)

\* Bytes that are there can be skipped.
LEMMA SkipIs ==
  ASSUME NEW b, Array(b), NEW n \in 0 .. getReadSize(b)
  PROVE  /\ Array(Skip(b, n))
         /\ getReadSize(Skip(b, n)) = getReadSize(b) - n
         /\ \A i \in 1 .. getReadSize(b) - n : Unread(Skip(b, n), i) = Unread(b, n + i)
<1>1. PICK rp \in Nat, wp \in Nat, s \in Seq(Int) : b = Arr(rp, wp, s) /\ InOrder(rp, wp, s)
  BY ArrayParts
<1>2. /\ kCheapPrepend \in Nat /\ Len(s) \in Nat
      /\ kCheapPrepend <= rp /\ rp <= wp /\ wp <= Len(s)
  BY <1>1, ByteArrayAssumption DEF InOrder
<1>3. getReadSize(b) = wp - rp /\ \A i : Unread(b, i) = s[rp + i]
  BY <1>1, PartsArray
<1>4. PICK c : c = Skip(b, n)
  OBVIOUS
<1>5. n \in Nat /\ n <= wp - rp
  BY <1>2, <1>3
<1>6. c = Arr(rp + n, wp, s)
  BY <1>1, <1>4 DEF Skip, Arr
<1>7. InOrder(rp + n, wp, s)
  BY <1>2, <1>5 DEF InOrder
<1>8. Array(c) /\ getReadSize(c) = wp - (rp + n) /\ \A i : Unread(c, i) = s[(rp + n) + i]
  BY <1>6, <1>7, PartsArray
<1>9. wp - (rp + n) = (wp - rp) - n /\ \A i \in 1 .. (wp - rp) - n : (rp + n) + i = rp + (n + i)
  BY <1>5
<1> QED
  BY <1>3, <1>4, <1>8, <1>9


-----------------------------------------------------------------------------
(* Integers as bytes *)

\* Division is determined by quotient and remainder.
LEMMA DivisionIs ==
  ASSUME NEW d \in Nat, d > 0, NEW q \in Nat, NEW r \in 0 .. d - 1
  PROVE  (q * d + r) \div d = q /\ (q * d + r) % d = r
  OBVIOUS

\* Division with remainder.
LEMMA DivisionBy ==
  ASSUME NEW a \in Nat, NEW d \in Nat, d > 0
  PROVE  a \div d \in Nat /\ a % d \in 0 .. d - 1 /\ a = (a \div d) * d + (a % d)
  OBVIOUS

\* Positive factors have a positive product.
LEMMA ProductPositive ==
  ASSUME NEW a \in Nat, a > 0, NEW b \in Nat, b > 0
  PROVE  a * b \in Nat /\ a * b > 0
  OBVIOUS

\* Dividing by a product is dividing twice.
LEMMA DivisionTwice ==
  ASSUME NEW v \in Nat, NEW p \in Nat, p > 0, NEW d \in Nat, d > 0
  PROVE  v \div (d * p) = (v \div p) \div d
<1>1. PICK q \in Nat : q = v \div p
  BY DivisionBy
<1>2. PICK r \in 0 .. p - 1 : v = q * p + r
  BY <1>1, DivisionBy
<1>3. PICK q2 \in Nat : q2 = q \div d
  BY DivisionBy
<1>4. PICK r2 \in 0 .. d - 1 : q = q2 * d + r2
  BY <1>3, DivisionBy
<1>5. v = q2 * (d * p) + (r2 * p + r)
  BY <1>2, <1>4
<1>6. r2 * p + r \in Nat /\ r2 * p + r < d * p
  <2>1. r2 * p \in Nat /\ r2 * p <= (d - 1) * p
    OBVIOUS
  <2>2. (d - 1) * p = d * p - p
    OBVIOUS
  <2>3. d * p \in Nat
    OBVIOUS
  <2> QED
    BY <2>1, <2>2, <2>3
<1>7. d * p \in Nat /\ d * p > 0
  BY ProductPositive
<1>8. v \div (d * p) = q2
  BY <1>5, <1>6, <1>7, DivisionIs
<1> QED
  BY <1>1, <1>3, <1>8

\* Powers of the base.
LEMMA PowerIs ==
  /\ Power[0] = 1
  /\ \A n \in Nat : Power[n] \in Nat /\ Power[n] > 0 /\ Power[n + 1] = Base * Power[n]
<1> DEFINE V == Nat \ {0}
           step == [x \in Nat \X V |-> Base * x[2]]
           Is(f) == f = [n \in Nat |-> IF n = 0 THEN 1 ELSE Base * f[n - 1]]
<1>1. Base \in Nat /\ Base > 1
  BY ByteArrayAssumption
<1>2. step \in [Nat \X V -> V]
  <2>1. \A x \in Nat \X V : Base * x[2] \in V
    BY <1>1, ProductPositive
  <2> QED
    BY <2>1
<1>3. PICK f \in [Nat -> V] : Iteration(f, 1, step)
  <2>1. 1 \in V
    OBVIOUS
  <2> HIDE DEF V, step
  <2> QED
    BY <1>2, <2>1, IterationExists
<1>4. \A n \in Nat : step[<<n, f[n]>>] = Base * f[n]
  BY <1>3
<1> HIDE DEF step
<1>5. \A n \in Nat : n # 0 => n - 1 \in Nat /\ n = (n - 1) + 1
  OBVIOUS
<1>6. \A n \in Nat : f[n] = IF n = 0 THEN 1 ELSE Base * f[n - 1]
  BY <1>3, <1>4, <1>5 DEF Iteration
<1>7. Is(f)
  BY <1>3, <1>6
<1>8. Power = CHOOSE g : Is(g)
  BY DEF Power
<1>9. Is(Power)
  BY <1>7, <1>8
<1>10. Power[0] = 1 /\ \A n \in Nat : Power[n + 1] = Base * Power[n]
  <2>1. \A n \in Nat : Power[n] = IF n = 0 THEN 1 ELSE Base * Power[n - 1]
    BY <1>9
  <2>2. \A n \in Nat : n + 1 \in Nat /\ n + 1 # 0 /\ (n + 1) - 1 = n
    OBVIOUS
  <2> QED
    BY <2>1, <2>2
<1>11. ASSUME NEW n \in Nat PROVE Power[n] \in Nat /\ Power[n] > 0
  <2> DEFINE Bad == {k \in Nat : ~(Power[k] \in Nat /\ Power[k] > 0)}
  <2> SUFFICES ASSUME Bad # {} PROVE FALSE
    OBVIOUS
  <2>1. PICK k \in Bad : \A i \in Bad : k <= i
    BY LeastNatural
  <2>2. k \in Nat /\ ~(Power[k] \in Nat /\ Power[k] > 0)
    OBVIOUS
  <2>3. k # 0
    BY <1>10, <2>2
  <2>4. k - 1 \in Nat /\ (k - 1) + 1 = k /\ ~(k <= k - 1)
    BY <2>2, <2>3
  <2>5. Power[k - 1] \in Nat /\ Power[k - 1] > 0
    BY <2>1, <2>4
  <2>6. Power[k] = Base * Power[k - 1]
    BY <1>10, <2>4
  <2> QED
    BY <1>1, <2>2, <2>5, <2>6, ProductPositive
<1> QED
  BY <1>10, <1>11

\* The digits an integer is written as, the most significant first.
LEMMA IntBytesIs ==
  ASSUME NEW v \in Nat, NEW w \in Nat
  PROVE  /\ IntBytes(v, w) \in Seq(0 .. Base - 1) /\ Len(IntBytes(v, w)) = w
         /\ \A i \in 1 .. w : IntBytes(v, w)[i] = (v \div Power[w - i]) % Base
<1>1. Base \in Nat /\ Base > 1
  BY ByteArrayAssumption
<1>2. ASSUME NEW i \in 1 .. w PROVE (v \div Power[w - i]) % Base \in 0 .. Base - 1
  <2>1. w - i \in Nat
    OBVIOUS
  <2>2. v \div Power[w - i] \in Nat
    BY <2>1, PowerIs, DivisionBy
  <2> QED
    BY <1>1, <2>2, DivisionBy
<1>3. PICK f : f = [i \in 1 .. w |-> (v \div Power[w - i]) % Base]
  OBVIOUS
<1>4. f \in [1 .. w -> 0 .. Base - 1]
  BY <1>2, <1>3
<1>5. f \in Seq(0 .. Base - 1) /\ Len(f) = w
  <2>1. f \in Seq(0 .. Base - 1)
    BY <1>4, SeqDef
  <2>2. DOMAIN f = 1 .. w
    BY <1>4
  <2> QED
    BY <2>1, <2>2, LenProperties
<1> QED
  BY <1>3, <1>5 DEF IntBytes


\* val runs over the bytes as Unsigned does.
Reads(val, bytes) ==
  /\ val[0] = 0
  /\ \A i \in 1 .. Len(bytes) : val[i] = val[i - 1] * Base + bytes[i]

\* Reading an integer is Horner's scheme over its digits.
LEMMA UnsignedIs ==
  ASSUME NEW bytes \in Seq(Nat)
  PROVE  \E val \in [0 .. Len(bytes) -> Nat] :
           Reads(val, bytes) /\ Unsigned(bytes) = val[Len(bytes)]
<1> DEFINE w == Len(bytes)
           step == [x \in Nat \X Nat |-> IF x[1] < w THEN x[2] * Base + bytes[x[1] + 1] ELSE 0]
           Is(f) == f = [n \in 0 .. w |-> IF n = 0 THEN 0 ELSE f[n - 1] * Base + bytes[n]]
<1>1. Base \in Nat /\ w \in Nat
  BY ByteArrayAssumption
<1>2. step \in [Nat \X Nat -> Nat]
  <2>1. ASSUME NEW x \in Nat \X Nat, x[1] < w PROVE x[2] * Base + bytes[x[1] + 1] \in Nat
    <3>1. x[1] + 1 \in 1 .. w
      BY <1>1, <2>1
    <3>2. PICK y \in Nat : y = bytes[x[1] + 1]
      BY <3>1
    <3>3. PICK z \in Nat : z = x[2] * Base
      BY <1>1
    <3> QED
      BY <3>2, <3>3, SMTT(60)
  <2> QED
    BY <2>1
<1>3. PICK f \in [0 .. w -> Nat] : Iterates(f, 0, step, w)
  <2> HIDE DEF step, w
  <2> QED
    BY <1>1, <1>2, IteratesUpTo
<1>4. ASSUME NEW i \in 1 .. w PROVE f[i] = f[i - 1] * Base + bytes[i]
  <2>1. i - 1 \in 0 .. w - 1 /\ i - 1 \in Nat /\ (i - 1) + 1 = i /\ i - 1 < w /\ i - 1 \in 0 .. w
    BY <1>1
  <2>2. f[i] = step[<<i - 1, f[i - 1]>>] /\ f[i - 1] \in Nat
    <3> HIDE DEF step
    <3> QED
      BY <1>3, <2>1 DEF Iterates
  <2> QED
    BY <2>1, <2>2
<1>5. f[0] = 0
  BY <1>3 DEF Iterates
<1> HIDE DEF step
<1>6. \A n \in 0 .. w : f[n] = IF n = 0 THEN 0 ELSE f[n - 1] * Base + bytes[n]
  <2>1. \A n \in 0 .. w : n # 0 => n \in 1 .. w
    BY <1>1
  <2> QED
    BY <1>4, <1>5, <2>1
<1>7. Is(f)
  BY <1>3, <1>6
<1>8. PICK c : c = CHOOSE g : Is(g)
  OBVIOUS
<1>9. Is(c)
  BY <1>7, <1>8
<1>10. Unsigned(bytes) = c[w]
  BY <1>8 DEF Unsigned
<1>11. \A n \in 0 .. w : c[n] = IF n = 0 THEN 0 ELSE c[n - 1] * Base + bytes[n]
  BY <1>9
<1> HIDE DEF Is
<1>12. ASSUME NEW n \in 0 .. w PROVE c[n] = f[n]
  <2> DEFINE Bad == {k \in 0 .. w : c[k] # f[k]}
  <2> SUFFICES ASSUME Bad # {} PROVE FALSE
    OBVIOUS
  <2>1. PICK k \in Bad : \A i \in Bad : k <= i
    <3>1. Bad \subseteq Nat
      OBVIOUS
    <3> QED
      BY <3>1, LeastNatural
  <2>2. k \in 0 .. w /\ c[k] # f[k]
    OBVIOUS
  <2>3. k # 0
    BY <1>6, <1>11, <2>2
  <2>4. k - 1 \in 0 .. w /\ ~(k <= k - 1)
    BY <1>1, <2>2, <2>3
  <2>5. c[k - 1] = f[k - 1]
    BY <2>1, <2>4
  <2> QED
    BY <1>6, <1>11, <2>2, <2>3, <2>5
<1>13. w \in 0 .. w
  BY <1>1
<1> QED
  BY <1>4, <1>5, <1>10, <1>12, <1>13 DEF Reads

\* What is written as an integer that fits is read back.
LEMMA RoundTrip ==
  ASSUME NEW v \in Nat, NEW w \in Nat, 2 * v < Power[w]
  PROVE  IntValue(IntBytes(v, w)) = v
<1>1. PICK bytes : bytes = IntBytes(v, w)
  OBVIOUS
<1>2. Base \in Nat /\ Base > 1
  BY ByteArrayAssumption
<1>3. /\ bytes \in Seq(0 .. Base - 1) /\ Len(bytes) = w
      /\ \A i \in 1 .. w : bytes[i] = (v \div Power[w - i]) % Base
  BY <1>1, IntBytesIs
<1>4. bytes \in Seq(Nat)
  <2>1. 0 .. Base - 1 \subseteq Nat
    BY <1>2
  <2> QED
    BY <1>3, <2>1, SeqMonotonic
<1>5. PICK val \in [0 .. w -> Nat] : Reads(val, bytes) /\ Unsigned(bytes) = val[w]
  BY <1>3, <1>4, UnsignedIs
<1>6. ASSUME NEW n \in 0 .. w PROVE val[n] = v \div Power[w - n]
  <2> DEFINE Bad == {k \in 0 .. w : val[k] # v \div Power[w - k]}
  <2> SUFFICES ASSUME Bad # {} PROVE FALSE
    OBVIOUS
  <2>1. PICK k \in Bad : \A i \in Bad : k <= i
    <3>1. Bad \subseteq Nat
      OBVIOUS
    <3> QED
      BY <3>1, LeastNatural
  <2>2. k \in 0 .. w /\ val[k] # v \div Power[w - k]
    OBVIOUS
  <2>3. k # 0
    <3> SUFFICES ASSUME k = 0 PROVE FALSE
      OBVIOUS
    <3> HIDE DEF Bad
    <3>1. PICK p \in Nat : p = Power[w]
      BY PowerIs
    <3>2. v \in 0 .. p - 1 /\ p > 0 /\ 0 * p + v = v /\ w - 0 = w
      BY <3>1
    <3>3. v \div p = 0
      BY <3>2, DivisionIs
    <3> QED
      BY <1>5, <2>2, <3>1, <3>2, <3>3 DEF Reads
  <2>4. k - 1 \in 0 .. w /\ ~(k <= k - 1) /\ k \in 1 .. w /\ w - k \in Nat /\ w - (k - 1) = (w - k) + 1
    BY <2>2, <2>3
  <2>5. val[k - 1] = v \div Power[(w - k) + 1]
    BY <2>1, <2>4
  <2> HIDE DEF Bad
  <2>6. PICK p \in Nat : p = Power[w - k] /\ p > 0 /\ Power[(w - k) + 1] = Base * p
    BY <2>4, PowerIs
  <2>7. v \div (Base * p) = (v \div p) \div Base
    <3>1. Base > 0
      BY <1>2
    <3> QED
      BY <1>2, <2>6, <3>1, DivisionTwice, ZenonT(60)
  <2>8. PICK q \in Nat : q = v \div p
    BY <2>6, DivisionBy
  <2>9. val[k] = (q \div Base) * Base + (q % Base)
    BY <1>3, <1>5, <2>4, <2>5, <2>6, <2>7, <2>8 DEF Reads
  <2>10. q = (q \div Base) * Base + (q % Base)
    BY <1>2, DivisionBy
  <2> QED
    BY <2>2, <2>6, <2>8, <2>9, <2>10
<1>7. Unsigned(bytes) = v
  <2>1. w \in 0 .. w /\ w - w = 0 /\ Power[0] = 1 /\ v \div 1 = v
    BY PowerIs
  <2> QED
    BY <1>5, <1>6, <2>1
<1> QED
  BY <1>1, <1>3, <1>7 DEF IntValue

\* An integer is at least what its first byte makes it, or negative.
LEMMA FirstByteDecides ==
  ASSUME NEW bytes \in Seq(0 .. Base - 1), NEW w \in Nat \ {0}, Len(bytes) = w
  PROVE  IntValue(bytes) \in Int /\ (IntValue(bytes) >= bytes[1] * Power[w - 1] \/ IntValue(bytes) < 0)
<1>1. Base \in Nat /\ Base > 1
  BY ByteArrayAssumption
<1>2. bytes \in Seq(Nat)
  <2>1. 0 .. Base - 1 \subseteq Nat
    BY <1>1
  <2> QED
    BY <2>1, SeqMonotonic
<1>3. PICK val \in [0 .. w -> Nat] : Reads(val, bytes) /\ Unsigned(bytes) = val[w]
  BY <1>2, UnsignedIs
<1>4. \A i \in 1 .. w : bytes[i] \in 0 .. Base - 1
  BY ElementOfSeq
<1> DEFINE Good(k) == val[k] >= bytes[1] * Power[k - 1] /\ val[k] < Power[k]
<1>5. ASSUME NEW n \in 1 .. w PROVE Good(n)
  <2> DEFINE Bad == {k \in 1 .. w : ~Good(k)}
  <2> SUFFICES ASSUME Bad # {} PROVE FALSE
    OBVIOUS
  <2>1. PICK k \in Bad : \A i \in Bad : k <= i
    <3>1. Bad \subseteq Nat
      OBVIOUS
    <3> QED
      BY <3>1, LeastNatural
  <2>2. k \in 1 .. w /\ ~Good(k)
    OBVIOUS
  <2>3. val[k] = val[k - 1] * Base + bytes[k] /\ val[k] \in Nat /\ val[k - 1] \in Nat
    <3>1. k - 1 \in 0 .. w /\ k \in 0 .. w
      OBVIOUS
    <3> QED
      BY <1>3, <2>2, <3>1 DEF Reads
  <2>4. k # 1
    <3> SUFFICES ASSUME k = 1 PROVE FALSE
      OBVIOUS
    <3> HIDE DEF Bad
    <3>1. PICK o \in Nat : o = 0
      OBVIOUS
    <3>2. Power[0] = 1 /\ Power[o + 1] = Base * Power[o]
      BY <3>1, PowerIs
    <3>5. Power[1 - 1] = 1 /\ Power[1] = Base
      BY <1>1, <3>1, <3>2
    <3>3. val[1] = bytes[1]
      BY <1>1, <1>3, <1>4, <2>3 DEF Reads
    <3>4. bytes[1] \in 0 .. Base - 1 /\ bytes[1] * 1 = bytes[1]
      BY <1>4, <2>2
    <3> QED
      BY <1>1, <2>2, <3>3, <3>4, <3>5
  <2>5. k - 1 \in 1 .. w /\ ~(k <= k - 1)
    BY <2>2, <2>4
  <2>6. Good(k - 1)
    BY <2>1, <2>5
  <2> HIDE DEF Bad
  <2>7. PICK j \in Nat : j = k - 2
    BY <2>2, <2>4
  <2>8. k - 1 = j + 1 /\ k = (j + 1) + 1 /\ (k - 1) - 1 = j
    BY <2>7, SMTT(60)
  <2>9. PICK p \in Nat : p = Power[j] /\ p > 0 /\ Power[j + 1] = Base * p
    BY PowerIs
  <2>10. j + 1 \in Nat /\ Power[(j + 1) + 1] = Base * Power[j + 1]
    BY PowerIs
  <2>11. PICK a \in Nat : a = val[k - 1]
    BY <2>3
  <2>12. PICK x \in Nat : x = bytes[1]
    BY <1>1, <1>4
  <2>13. PICK y \in 0 .. Base - 1 : y = bytes[k]
    BY <1>4, <2>2
  <2>14. PICK P \in Nat : P = Base * p
    BY <1>1
  <2>15. a >= x * p /\ a < P
    BY <2>6, <2>8, <2>9, <2>11, <2>12, <2>14
  <2>16. val[k] = a * Base + y
    BY <2>3, <2>11, <2>13
  <2>17. a * Base + y < Base * P
    <3>1. a * Base <= (P - 1) * Base
      BY <1>1, <2>15
    <3>2. (P - 1) * Base = Base * P - Base
      BY <1>1
    <3>3. PICK aB \in Nat : aB = a * Base
      BY <1>1
    <3>4. PICK BP \in Nat : BP = Base * P
      BY <1>1
    <3>5. aB <= BP - Base
      BY <3>1, <3>2, <3>3, <3>4, Zenon
    <3>6. aB + y < BP
      BY <1>1, <3>5
    <3> QED
      BY <3>3, <3>4, <3>6, Zenon
  <2>18. a * Base + y >= x * P
    <3>1. a * Base >= (x * p) * Base
      BY <1>1, <2>15
    <3>2. (x * p) * Base = x * P
      BY <1>1, <2>14
    <3>3. PICK aB \in Nat : aB = a * Base
      BY <1>1
    <3>4. PICK xP \in Nat : xP = x * P
      BY <1>1
    <3>5. aB >= xP
      BY <3>1, <3>2, <3>3, <3>4, Zenon
    <3>6. aB + y >= xP
      BY <1>1, <3>5
    <3> QED
      BY <3>3, <3>4, <3>6, Zenon
  <2>19. Power[k] = Base * P /\ Power[k - 1] = P
    BY <2>8, <2>9, <2>10, <2>14
  <2> QED
    BY <2>2, <2>12, <2>16, <2>17, <2>18, <2>19
<1>6. val[w] \in Nat /\ Power[w] \in Nat /\ Good(w) /\ Power[w - 1] \in Nat
  <2>1. w \in 0 .. w /\ w \in 1 .. w /\ w - 1 \in Nat
    OBVIOUS
  <2> QED
    BY <1>5, <2>1, PowerIs
<1> QED
  BY <1>3, <1>6, SMTT(60) DEF IntValue


-----------------------------------------------------------------------------
(* The packet *)

\* What is readable, byte by byte.
LEMMA ReadableIs ==
  ASSUME NEW b, Array(b)
  PROVE  /\ Readable(b) \in Seq(Int) /\ Len(Readable(b)) = getReadSize(b)
         /\ \A i \in 1 .. getReadSize(b) : Readable(b)[i] = Unread(b, i)
<1>1. PICK rp \in Nat, wp \in Nat, s \in Seq(Int) : b = Arr(rp, wp, s) /\ InOrder(rp, wp, s)
  BY ArrayParts
<1>2. getReadSize(b) = wp - rp /\ \A i : Unread(b, i) = s[rp + i]
  BY <1>1, PartsArray
<1>3. rp <= wp /\ wp <= Len(s)
  BY <1>1 DEF InOrder
<1>4. Readable(b) = SubSeq(s, rp + 1, wp)
  BY <1>1 DEF Readable, Arr
<1> QED
  BY <1>2, <1>3, <1>4, PartIs, SMTT(60)

\* What getWriteArea and setWritePos do for the bytes of one read or write.
LEMMA GrowFill ==
  ASSUME NEW b, Array(b), NEW n \in Nat, NEW bytes \in Seq(Int), Len(bytes) <= n
  PROVE  LET c == Filled(addCapacity(b, n), bytes)
         IN  /\ Array(c) /\ getReadSize(c) = getReadSize(b) + Len(bytes)
             /\ \A i \in 1 .. getReadSize(b) + Len(bytes) : Unread(c, i) =
                  IF i <= getReadSize(b) THEN Unread(b, i) ELSE bytes[i - getReadSize(b)]
             /\ Readable(c) = Readable(b) \o bytes
<1>1. PICK a : a = addCapacity(b, n)
  OBVIOUS
<1>2. /\ Array(a) /\ getReadSize(a) = getReadSize(b) /\ getWriteSize(a) >= n
      /\ \A i \in 1 .. getReadSize(b) : Unread(a, i) = Unread(b, i)
  BY <1>1, AddCapacityIs
<1>3. PICK k \in Nat : k = getReadSize(b)
  BY ArrayParts, PartsArray
<1>4. PICK l \in Nat : l = Len(bytes)
  OBVIOUS
<1>5. Len(bytes) <= getWriteSize(a)
  <2>1. getWriteSize(a) \in Int
    <3>1. PICK rp \in Nat, wp \in Nat, s \in Seq(Int) : a = Arr(rp, wp, s) /\ InOrder(rp, wp, s)
      BY <1>2, ArrayParts
    <3>2. getWriteSize(a) = Len(s) - wp
      BY <3>1, PartsArray
    <3> QED
      BY <3>2
  <2> QED
    BY <1>2, <1>4, <2>1
<1>6. PICK c : c = Filled(a, bytes)
  OBVIOUS
<1>7. /\ Array(c) /\ getReadSize(c) = k + l
      /\ \A i \in 1 .. k + l : Unread(c, i) = IF i <= k THEN Unread(a, i) ELSE bytes[i - k]
  BY <1>2, <1>3, <1>4, <1>5, <1>6, FilledIs, SMTT(60)
<1>8. \A i \in 1 .. k + l : Unread(c, i) = IF i <= k THEN Unread(b, i) ELSE bytes[i - k]
  BY <1>2, <1>3, <1>7
<1>9. Readable(c) = Readable(b) \o bytes
  <2>1. /\ Readable(b) \in Seq(Int) /\ Len(Readable(b)) = k
        /\ \A i \in 1 .. k : Readable(b)[i] = Unread(b, i)
    BY <1>3, ReadableIs
  <2>2. /\ Readable(c) \in Seq(Int) /\ Len(Readable(c)) = k + l
        /\ \A i \in 1 .. k + l : Readable(c)[i] = Unread(c, i)
    BY <1>7, ReadableIs
  <2>3. PICK r \in Seq(Int) : r = Readable(b) \o bytes
    BY <2>1, ConcatProperties
  <2>4. Len(r) = k + l /\ \A i \in 1 .. k + l : r[i] = IF i <= k THEN Readable(b)[i] ELSE bytes[i - k]
    <3>1. Readable(b) \in Seq(Int)
      BY <2>1
    <3>2. /\ Len(Readable(b) \o bytes) = Len(Readable(b)) + Len(bytes)
          /\ \A i \in 1 .. Len(Readable(b)) + Len(bytes) : (Readable(b) \o bytes)[i] =
               IF i <= Len(Readable(b)) THEN Readable(b)[i] ELSE bytes[i - Len(Readable(b))]
      BY <3>1, ConcatProperties
    <3> QED
      BY <1>4, <2>1, <2>3, <3>2
  <2>5. ASSUME NEW i \in 1 .. k + l PROVE Readable(c)[i] = r[i]
    <3>1. Readable(c)[i] = IF i <= k THEN Unread(b, i) ELSE bytes[i - k]
      BY <1>8, <2>2
    <3>2. i <= k => Readable(b)[i] = Unread(b, i)
      BY <2>1
    <3> QED
      BY <2>4, <3>1, <3>2
  <2> QED
    BY <2>2, <2>3, <2>4, <2>5, SeqEqual
<1> QED
  BY <1>1, <1>3, <1>4, <1>6, <1>7, <1>8, <1>9

\* write() appends to what is readable, however it makes room.
LEMMA WriteIs ==
  ASSUME NEW b, Array(b), NEW bytes \in Seq(Int)
  PROVE  Array(write(b, bytes)) /\ Readable(write(b, bytes)) = Readable(b) \o bytes
<1>1. CASE bytes = <<>>
  <2>1. write(b, bytes) = b
    BY <1>1 DEF write
  <2>2. Readable(b) \o <<>> = Readable(b)
    BY ReadableIs, ConcatEmptySeq
  <2> QED
    BY <1>1, <2>1, <2>2
<1>2. CASE bytes # <<>>
  <2>1. write(b, bytes) = Filled(addCapacity(b, Len(bytes)), bytes)
    BY <1>2 DEF write
  <2>2. Len(bytes) \in Nat /\ Len(bytes) <= Len(bytes)
    OBVIOUS
  <2> QED
    BY <2>1, <2>2, GrowFill
<1> QED
  BY <1>1, <1>2

\* The room in front takes a length.
LEMMA PrependIs ==
  ASSUME NEW b, Array(b), NEW bytes \in Seq(Int), Len(bytes) <= kCheapPrepend
  PROVE  Readable(writePrepend(b, bytes)) = bytes \o Readable(b)
<1>1. PICK rp \in Nat, wp \in Nat, s \in Seq(Int) : b = Arr(rp, wp, s) /\ InOrder(rp, wp, s)
  BY ArrayParts
<1>2. /\ kCheapPrepend \in Nat /\ Len(s) \in Nat
      /\ kCheapPrepend <= rp /\ rp <= wp /\ wp <= Len(s)
  BY <1>1, ByteArrayAssumption DEF InOrder
<1>3. PICK n \in Nat : n = Len(bytes)
  OBVIOUS
<1>4. PICK at \in Nat : at = rp - n
  <2>1. rp - n \in Nat
    BY <1>2, <1>3
  <2> QED
    BY <2>1
<1>5. PICK t : t = CopiedTo(s, at, bytes)
  OBVIOUS
<1>6. /\ t \in Seq(Int) /\ Len(t) = Len(s)
      /\ \A i \in 1 .. Len(s) : t[i] =
           IF i <= at THEN s[i] ELSE IF i <= at + n THEN bytes[i - at] ELSE s[i]
  <2>1. at + Len(bytes) <= Len(s)
    BY <1>2, <1>3, <1>4
  <2>2. CopyOf(t, Int, s, at, bytes)
    BY <1>5, <2>1, CopiedToIs
  <2> QED
    BY <1>3, <2>2 DEF CopyOf
<1>7. Readable(writePrepend(b, bytes)) = SubSeq(t, at + 1, wp)
  BY <1>1, <1>3, <1>4, <1>5 DEF Readable, writePrepend, Arr
<1>8. Readable(b) = SubSeq(s, rp + 1, wp)
  BY <1>1 DEF Readable, Arr
<1>9. PICK x : x = SubSeq(t, at + 1, wp)
  OBVIOUS
<1>10. x \in Seq(Int) /\ Len(x) = wp - at /\ \A i \in 1 .. wp - at : x[i] = t[at + i]
  <2>1. at <= wp /\ wp <= Len(t)
    BY <1>2, <1>4, <1>6
  <2> QED
    BY <1>6, <1>9, <2>1, PartIs, SMTT(60)
<1>11. PICK y : y = SubSeq(s, rp + 1, wp)
  OBVIOUS
<1>12. y \in Seq(Int) /\ Len(y) = wp - rp /\ \A i \in 1 .. wp - rp : y[i] = s[rp + i]
  <2>1. rp <= wp /\ wp <= Len(s)
    BY <1>2
  <2> QED
    BY <1>11, <2>1, PartIs
<1>13. PICK z : z = bytes \o y
  OBVIOUS
<1>14. /\ z \in Seq(Int) /\ Len(z) = n + (wp - rp)
       /\ \A i \in 1 .. n + (wp - rp) : z[i] = IF i <= n THEN bytes[i] ELSE y[i - n]
  <2>1. y \in Seq(Int)
    BY <1>12
  <2>2. /\ bytes \o y \in Seq(Int) /\ Len(bytes \o y) = Len(bytes) + Len(y)
        /\ \A i \in 1 .. Len(bytes) + Len(y) : (bytes \o y)[i] =
             IF i <= Len(bytes) THEN bytes[i] ELSE y[i - Len(bytes)]
    BY <2>1, ConcatProperties
  <2> QED
    BY <1>3, <1>12, <1>13, <2>2
<1>15. n + (wp - rp) = wp - at
  BY <1>4
<1>16. ASSUME NEW i \in 1 .. wp - at PROVE x[i] = z[i]
  <2>1. at + i \in 1 .. Len(s) /\ ~(at + i <= at) /\ (at + i) - at = i
    BY <1>2, <1>4
  <2>2. CASE i <= n
    BY <1>6, <1>10, <1>14, <1>15, <2>1, <2>2
  <2>3. CASE i > n
    <3>1. i - n \in 1 .. wp - rp /\ rp + (i - n) = at + i /\ ~(at + i <= at + n) /\ ~(i <= n)
      BY <1>2, <1>4, <2>3
    <3> QED
      BY <1>6, <1>10, <1>12, <1>14, <1>15, <2>1, <3>1, ZenonT(60)
  <2> QED
    BY <2>2, <2>3
<1>17. x = z
  BY <1>10, <1>14, <1>15, <1>16, SeqEqual
<1> QED
  BY <1>7, <1>8, <1>9, <1>11, <1>13, <1>17


Byte == 0 .. Base - 1

\* Everything of a message behind its length.
BodyLen(m) == kHeaderLen + NameLen(m) + Len(m.payload)

\* What CodecAssumption says of a single message.
LEMMA MessageIs ==
  ASSUME NEW m \in Messages
  PROVE  /\ Byte \subseteq Int /\ Byte \subseteq Nat /\ kHeaderLen \in Nat /\ kHeaderLen >= 1
         /\ m.type \in Types /\ m.payload \in Payloads /\ m = [type |-> m.type, payload |-> m.payload]
         /\ NameOf[m.type] \in Seq(Byte) /\ m.payload \in Seq(Byte)
         /\ NameLen(m) \in Nat /\ NameLen(m) >= 2 /\ Len(NameOf[m.type]) = NameLen(m) - 1
         /\ Len(m.payload) \in Nat
         /\ BodyLen(m) \in Nat /\ BodyLen(m) = kHeaderLen + NameLen(m) + Len(m.payload)
         /\ 2 * BodyLen(m) < Power[kHeaderLen] /\ 2 * NameLen(m) < Power[kHeaderLen]
<1>1. Base \in Nat /\ Base > 1 /\ kCheapPrepend \in Nat
  BY ByteArrayAssumption
<1>2. Byte \subseteq Int /\ Byte \subseteq Nat /\ kHeaderLen \in Nat /\ kHeaderLen >= 1
  BY <1>1, CodecAssumption DEF Byte
<1>3. m.type \in Types /\ m.payload \in Payloads /\ m = [type |-> m.type, payload |-> m.payload]
  BY DEF Messages
<1>4. m.payload \in Seq(Byte)
  BY <1>3, CodecAssumption DEF Byte
<1>5. NameOf[m.type] \in Seq(1 .. Base - 1) /\ NameOf[m.type] # <<>>
  BY <1>3, CodecAssumption
<1>6. NameOf[m.type] \in Seq(Byte)
  <2>1. 1 .. Base - 1 \subseteq Byte
    BY <1>1 DEF Byte
  <2> QED
    BY <1>5, <2>1, SeqMonotonic
<1>7. Len(NameOf[m.type]) \in Nat \ {0} /\ Len(m.payload) \in Nat
  BY <1>4, <1>5, EmptySeq, LenProperties
<1>8. PICK nl \in Nat : nl = NameLen(m)
  BY <1>7 DEF NameLen
<1>9. nl >= 2 /\ Len(NameOf[m.type]) = nl - 1
  BY <1>7, <1>8 DEF NameLen
<1>10. 2 * (kHeaderLen + nl + Len(m.payload)) < Power[kHeaderLen]
  BY <1>8, CodecAssumption
<1>11. Power[kHeaderLen] \in Nat
  BY <1>2, PowerIs
<1>12. 2 * nl < Power[kHeaderLen]
  <2>1. PICK pw \in Nat : pw = Power[kHeaderLen]
    BY <1>11
  <2>2. PICK pl \in Nat : pl = Len(m.payload)
    BY <1>7
  <2>3. PICK h \in Nat : h = kHeaderLen
    BY <1>2
  <2>4. 2 * (h + nl + pl) < pw
    BY <1>10, <2>1, <2>2, <2>3
  <2>5. 2 * nl < pw
    BY <2>4
  <2> QED
    BY <2>1, <2>5
<1> QED
  BY <1>2, <1>3, <1>4, <1>6, <1>7, <1>8, <1>9, <1>10, <1>12, SMTT(60) DEF BodyLen

\* The layout of a packet, byte by byte.
Layout(p, m) ==
  /\ p \in Seq(Byte) /\ Len(p) = kHeaderLen + BodyLen(m)
  /\ \A i \in 1 .. kHeaderLen : p[i] = IntBytes(BodyLen(m), kHeaderLen)[i]
  /\ \A i \in 1 .. kHeaderLen : p[kHeaderLen + i] = IntBytes(NameLen(m), kHeaderLen)[i]
  /\ \A i \in 1 .. NameLen(m) - 1 : p[2 * kHeaderLen + i] = NameOf[m.type][i]
  /\ p[2 * kHeaderLen + NameLen(m)] = 0
  /\ \A i \in 1 .. Len(m.payload) : p[2 * kHeaderLen + NameLen(m) + i] = m.payload[i]

\* r is p, of length m, and then q, of length n.
Joins(S, r, p, m, q, n) ==
  /\ r \in Seq(S) /\ Len(r) = m + n
  /\ \A i \in 1 .. m : r[i] = p[i]
  /\ \A i \in 1 .. n : r[m + i] = q[i]

\* Two sequences of known lengths, joined.
LEMMA ConcatIs ==
  ASSUME NEW S, NEW p \in Seq(S), NEW q \in Seq(S), NEW m \in Nat, NEW n \in Nat,
         Len(p) = m, Len(q) = n
  PROVE  Joins(S, p \o q, p, m, q, n)
<1>1. /\ p \o q \in Seq(S) /\ Len(p \o q) = Len(p) + Len(q)
      /\ \A i \in 1 .. Len(p) + Len(q) : (p \o q)[i] = IF i <= Len(p) THEN p[i] ELSE q[i - Len(p)]
  BY ConcatProperties
<1>2. /\ \A i \in 1 .. m : i \in 1 .. m + n /\ i <= m
      /\ \A i \in 1 .. n : m + i \in 1 .. m + n /\ ~(m + i <= m) /\ (m + i) - m = i
  OBVIOUS
<1> QED
  BY <1>1, <1>2 DEF Joins

\* send() puts length, length of the name, name, 0 and payload in a row.
LEMMA PacketIs ==
  ASSUME NEW m \in Messages
  PROVE  Layout(Packet(m), m)
<1>1. PICK h \in Nat : h = kHeaderLen
  BY MessageIs
<1>2. PICK nl \in Nat : nl = NameLen(m)
  BY MessageIs
<1>3. PICK pl \in Nat : pl = Len(m.payload)
  BY MessageIs
<1>4. PICK L \in Nat : L = BodyLen(m)
  BY MessageIs
<1>5. nl >= 2 /\ L = h + nl + pl
  BY <1>1, <1>2, <1>3, <1>4, MessageIs
<1>6. Byte \subseteq Int
  BY MessageIs
<1>7. PICK x \in Seq(Byte) : x = IntBytes(nl, h)
  BY IntBytesIs DEF Byte
<1>8. PICK y \in Seq(Byte) : y = NameOf[m.type]
  BY MessageIs
<1>9. PICK z \in Seq(Byte) : z = <<0>>
  <2>1. PICK o \in Byte : o = 0
    BY ByteArrayAssumption DEF Byte
  <2>2. <<o>> \in Seq(Byte)
    OBVIOUS
  <2> QED
    BY <2>1, <2>2
<1>10. PICK v \in Seq(Byte) : v = m.payload
  BY MessageIs
<1>11. PICK u \in Seq(Byte) : u = IntBytes(L, h)
  BY IntBytesIs DEF Byte
<1>12. Len(x) = h /\ Len(y) = nl - 1 /\ Len(z) = 1 /\ z[1] = 0 /\ Len(v) = pl /\ Len(u) = h
  BY <1>2, <1>3, <1>7, <1>8, <1>9, <1>10, <1>11, MessageIs, IntBytesIs
<1>13. \A s \in Seq(Byte) : s \in Seq(Int)
  BY <1>6, SeqMonotonic
<1>14. PICK r0 \in Seq(Byte) : r0 = Readable(New) /\ r0 = <<>>
  <2>1. Readable(New) \in Seq(Int) /\ Len(Readable(New)) = 0
    BY NewIs, ReadableIs
  <2> QED
    BY <2>1, EmptySeq
<1>15. PICK b1 : b1 = writeInt(New, nl, h)
  OBVIOUS
<1>16. Array(b1) /\ Readable(b1) = x
  <2>1. b1 = write(New, x) /\ x \in Seq(Int)
    BY <1>7, <1>13, <1>15 DEF writeInt
  <2>2. Array(b1) /\ Readable(b1) = r0 \o x
    BY <1>14, <2>1, NewIs, WriteIs
  <2> QED
    BY <1>14, <2>2, ConcatEmptySeq
<1>17. PICK b2 : b2 = write(b1, y)
  OBVIOUS
<1>18. Array(b2) /\ Readable(b2) = x \o y
  BY <1>13, <1>16, <1>17, WriteIs
<1>19. PICK b3 : b3 = write(b2, z)
  OBVIOUS
<1>20. Array(b3) /\ Readable(b3) = (x \o y) \o z
  BY <1>13, <1>18, <1>19, WriteIs
<1>21. PICK b4 : b4 = Filled(addCapacity(b3, pl), v)
  OBVIOUS
<1>22. PICK w : w = ((x \o y) \o z) \o v
  OBVIOUS
<1>23. Array(b4) /\ Readable(b4) = w
  <2>1. v \in Seq(Int) /\ Len(v) <= pl
    BY <1>12, <1>13
  <2>2. Array(b4) /\ Readable(b4) = Readable(b3) \o v
    BY <1>20, <1>21, <2>1, GrowFill
  <2> QED
    BY <1>20, <1>22, <2>2
<1>24. b4 = Body(m)
  BY <1>1, <1>2, <1>3, <1>8, <1>9, <1>10, <1>15, <1>17, <1>19, <1>21 DEF Body, getWriteArea
<1>25. PICK xy : xy = x \o y
  OBVIOUS
<1>26. /\ xy \in Seq(Byte) /\ Len(xy) = h + (nl - 1)
       /\ \A i \in 1 .. h : xy[i] = x[i]
       /\ \A i \in 1 .. nl - 1 : xy[h + i] = y[i]
  <2>1. nl - 1 \in Nat
    BY <1>5
  <2>2. Joins(Byte, xy, x, h, y, nl - 1)
    BY <1>12, <1>25, <2>1, ConcatIs
  <2> QED
    BY <2>2 DEF Joins
<1>27. PICK xyz : xyz = xy \o z
  OBVIOUS
<1>28. /\ xyz \in Seq(Byte) /\ Len(xyz) = h + nl
       /\ \A i \in 1 .. h + (nl - 1) : xyz[i] = xy[i]
       /\ xyz[h + nl] = 0
  <2>1. h + (nl - 1) \in Nat
    BY <1>5
  <2>2. PICK k \in Nat : k = h + (nl - 1)
    BY <2>1
  <2>3. PICK o \in Nat : o = 1
    OBVIOUS
  <2>4. xy \in Seq(Byte) /\ Len(xy) = k /\ Len(z) = o
    BY <1>12, <1>26, <2>2, <2>3
  <2>8. Joins(Byte, xyz, xy, k, z, o)
    BY <1>27, <2>4, ConcatIs
  <2>5. /\ xyz \in Seq(Byte) /\ Len(xyz) = k + o
        /\ \A i \in 1 .. k : xyz[i] = xy[i]
        /\ \A i \in 1 .. o : xyz[k + i] = z[i]
    BY <2>8 DEF Joins
  <2>6. k + o = h + nl /\ o \in 1 .. o
    BY <2>2, <2>3
  <2>7. xyz[h + nl] = z[o]
    BY <2>5, <2>6
  <2> QED
    BY <1>12, <2>2, <2>3, <2>5, <2>6, <2>7
<1>29. /\ w \in Seq(Byte) /\ Len(w) = L
       /\ \A i \in 1 .. h + nl : w[i] = xyz[i]
       /\ \A i \in 1 .. pl : w[(h + nl) + i] = v[i]
  <2>1. w = xyz \o v
    BY <1>22, <1>25, <1>27
  <2>2. PICK k \in Nat : k = h + nl
    OBVIOUS
  <2>3. xyz \in Seq(Byte) /\ Len(xyz) = k /\ Len(v) = pl
    BY <1>12, <1>28, <2>2
  <2>4. Joins(Byte, w, xyz, k, v, pl)
    BY <2>1, <2>3, ConcatIs
  <2> QED
    BY <1>5, <2>2, <2>4 DEF Joins
<1>30. PICK p : p = Packet(m)
  OBVIOUS
<1>31. p = u \o w
  <2>1. getReadSize(b4) = L
    BY <1>23, <1>29, ReadableIs
  <2>2. p = Readable(writePrepend(b4, u))
    BY <1>1, <1>11, <1>24, <1>30, <2>1 DEF Packet, serializeToByteArray
  <2>3. Len(u) <= kCheapPrepend /\ u \in Seq(Int)
    BY <1>1, <1>12, <1>13, CodecAssumption, ByteArrayAssumption
  <2> QED
    BY <1>23, <2>2, <2>3, PrependIs
<1>32. /\ p \in Seq(Byte) /\ Len(p) = h + L
       /\ \A i \in 1 .. h : p[i] = u[i]
       /\ \A i \in 1 .. L : p[h + i] = w[i]
  <2>1. w \in Seq(Byte) /\ Len(w) = L /\ Len(u) = h
    BY <1>12, <1>29
  <2>2. Joins(Byte, p, u, h, w, L)
    BY <1>31, <2>1, ConcatIs
  <2> QED
    BY <2>2 DEF Joins
<1>33. \A i \in 1 .. h : p[h + i] = x[i]
  <2>1. \A i \in 1 .. h : i \in 1 .. L /\ i \in 1 .. h + nl /\ i \in 1 .. h + (nl - 1)
    BY <1>5
  <2> QED
    BY <1>26, <1>28, <1>29, <1>32, <2>1, ZenonT(60)
<1>34. ASSUME NEW i \in 1 .. nl - 1 PROVE p[2 * h + i] = y[i]
  <2>1. /\ h + i \in 1 .. L /\ h + i \in 1 .. h + nl /\ h + i \in 1 .. h + (nl - 1)
        /\ h + (h + i) = 2 * h + i
    BY <1>5
  <2>2. p[h + (h + i)] = w[h + i] /\ w[h + i] = xyz[h + i] /\ xyz[h + i] = xy[h + i]
    BY <1>28, <1>29, <1>32, <2>1
  <2> QED
    BY <1>26, <2>1, <2>2
<1>35. p[2 * h + nl] = 0
  <2>1. h + nl \in 1 .. L /\ h + nl \in 1 .. h + nl /\ h + (h + nl) = 2 * h + nl
    BY <1>5
  <2>2. p[h + (h + nl)] = w[h + nl] /\ w[h + nl] = xyz[h + nl]
    BY <1>29, <1>32, <2>1
  <2> QED
    BY <1>28, <2>1, <2>2
<1>36. ASSUME NEW i \in 1 .. pl PROVE p[2 * h + nl + i] = v[i]
  <2>1. (h + nl) + i \in 1 .. L /\ h + ((h + nl) + i) = 2 * h + nl + i
    BY <1>5
  <2>2. p[h + ((h + nl) + i)] = w[(h + nl) + i]
    BY <1>32, <2>1
  <2> QED
    BY <1>29, <2>1, <2>2
<1> QED
  BY <1>1, <1>2, <1>3, <1>4, <1>7, <1>8, <1>10, <1>11, <1>30, <1>32, <1>33, <1>34, <1>35, <1>36
     DEF Layout


-----------------------------------------------------------------------------
(* One turn of receive() *)

\* What is unread are bytes of p, from behind position at on.
Shows(b, p, at) ==
  /\ Array(b) /\ at + getReadSize(b) <= Len(p)
  /\ \A i \in 1 .. getReadSize(b) : Unread(b, i) = p[at + i]

\* The read size is a natural number.
LEMMA ReadSizeIs ==
  ASSUME NEW b, Array(b)
  PROVE  getReadSize(b) \in Nat
  BY ArrayParts, PartsArray

\* Skipping n bytes shows the packet from n bytes further on.
LEMMA SkipShows ==
  ASSUME NEW b, NEW p, NEW at \in Nat, Shows(b, p, at), NEW n \in Nat, n <= getReadSize(b)
  PROVE  Shows(Skip(b, n), p, at + n) /\ getReadSize(Skip(b, n)) = getReadSize(b) - n
<1>1. PICK k \in Nat : k = getReadSize(b)
  BY ReadSizeIs DEF Shows
<1>2. PICK c : c = Skip(b, n)
  OBVIOUS
<1>3. /\ Array(c) /\ getReadSize(c) = k - n
      /\ \A i \in 1 .. k - n : Unread(c, i) = Unread(b, n + i)
  <2>1. n \in 0 .. getReadSize(b) /\ Array(b)
    BY <1>1 DEF Shows
  <2> QED
    BY <1>1, <1>2, <2>1, SkipIs
<1>4. (at + n) + (k - n) <= Len(p)
  <2>1. at + k <= Len(p)
    BY <1>1 DEF Shows
  <2>2. (at + n) + (k - n) = at + k
    OBVIOUS
  <2> QED
    BY <2>1, <2>2
<1>5. ASSUME NEW i \in 1 .. k - n PROVE Unread(c, i) = p[(at + n) + i]
  <2>1. n + i \in 1 .. k /\ at + (n + i) = (at + n) + i
    BY <1>1
  <2>2. Unread(b, n + i) = p[at + (n + i)]
    BY <1>1, <2>1 DEF Shows
  <2> QED
    BY <1>3, <2>1, <2>2
<1> QED
  BY <1>1, <1>2, <1>3, <1>4, <1>5 DEF Shows

\* n bytes taken are the next n bytes of p.
TakesFrom(s, p, at, n) ==
  s \in Seq(Byte) /\ Len(s) = n /\ \A i \in 1 .. n : s[i] = p[at + i]

\* What is taken from the array is that part of the packet.
LEMMA TakenIs ==
  ASSUME NEW b, NEW p \in Seq(Byte), NEW at \in Nat, Shows(b, p, at),
         NEW n \in Nat, n <= getReadSize(b)
  PROVE  TakesFrom(Taken(b, n), p, at, n)
<1>1. PICK rp \in Nat, wp \in Nat, s \in Seq(Int) : b = Arr(rp, wp, s) /\ InOrder(rp, wp, s)
  BY ArrayParts DEF Shows
<1>2. getReadSize(b) = wp - rp /\ \A i : Unread(b, i) = s[rp + i]
  BY <1>1, PartsArray
<1>3. rp <= wp /\ wp <= Len(s) /\ Len(s) \in Nat
  BY <1>1 DEF InOrder
<1>4. PICK t : t = Taken(b, n)
  OBVIOUS
<1>5. t = SubSeq(s, rp + 1, rp + n)
  BY <1>1, <1>4 DEF Taken, Arr
<1>6. PICK k \in Nat : k = rp + n
  OBVIOUS
<1>7. t \in Seq(Int) /\ Len(t) = n /\ \A i \in 1 .. n : t[i] = s[rp + i]
  <2>1. rp <= k /\ k <= Len(s) /\ k - rp = n
    BY <1>2, <1>3, <1>6
  <2>2. t = SubSeq(s, rp + 1, k)
    BY <1>5, <1>6
  <2>3. PartOf(t, Int, s, rp, k)
    BY <2>1, <2>2, PartOfIs
  <2> QED
    BY <2>1, <2>3 DEF PartOf
<1>8. ASSUME NEW i \in 1 .. n PROVE t[i] = p[at + i] /\ p[at + i] \in Byte
  <2>1. i \in 1 .. wp - rp /\ at + (wp - rp) <= Len(p)
    BY <1>2, <1>3 DEF Shows
  <2>2. Unread(b, i) = p[at + i]
    BY <1>2, <2>1 DEF Shows
  <2>3. at + i \in 1 .. Len(p)
    BY <1>3, <2>1
  <2>4. p[at + i] \in Byte
    BY <2>3, ElementOfSeq
  <2> QED
    BY <1>2, <1>7, <2>2, <2>4
<1>9. t \in Seq(Byte)
  <2>1. DOMAIN t = 1 .. n /\ t \in [1 .. n -> Int]
    BY <1>7, LenProperties
  <2>2. t \in [1 .. n -> Byte]
    BY <1>8, <2>1
  <2> QED
    BY <2>2, SeqDef
<1> QED
  BY <1>4, <1>7, <1>8, <1>9 DEF TakesFrom

\* What is taken is the sequence t when p has t there.
LEMMA TakenEquals ==
  ASSUME NEW s, NEW p, NEW at, NEW n \in Nat, TakesFrom(s, p, at, n),
         NEW t \in Seq(Byte), Len(t) = n, \A i \in 1 .. n : p[at + i] = t[i]
  PROVE  s = t
<1>1. s \in Seq(Byte) /\ Len(s) = Len(t) /\ \A i \in 1 .. Len(s) : s[i] = t[i]
  BY DEF TakesFrom
<1> QED
  BY <1>1, SeqEqual

\* The parts of a packet are read as they were written.
LEMMA ReadParts ==
  ASSUME NEW m \in Messages, NEW p, Layout(p, m), NEW b
  PROVE  /\ Shows(b, p, 0) /\ kHeaderLen <= getReadSize(b) => readInt(b, kHeaderLen) = BodyLen(m)
         /\ Shows(b, p, kHeaderLen) /\ kHeaderLen <= getReadSize(b)
              => readInt(b, kHeaderLen) = NameLen(m)
         /\ Shows(b, p, 2 * kHeaderLen) /\ NameLen(m) - 1 <= getReadSize(b)
              => Taken(b, NameLen(m) - 1) = NameOf[m.type]
         /\ Shows(b, p, 2 * kHeaderLen + NameLen(m) - 1) /\ 1 <= getReadSize(b)
              => Taken(b, 1) = <<0>>
         /\ Shows(b, p, 2 * kHeaderLen + NameLen(m)) /\ Len(m.payload) <= getReadSize(b)
              => Taken(b, Len(m.payload)) = m.payload
<1>1. PICK h \in Nat : h = kHeaderLen
  BY MessageIs
<1>2. PICK nl \in Nat : nl = NameLen(m) /\ nl >= 2
  BY MessageIs
<1>3. PICK pl \in Nat : pl = Len(m.payload)
  BY MessageIs
<1>4. PICK L \in Nat : L = BodyLen(m)
  BY MessageIs
<1>5. /\ p \in Seq(Byte) /\ Len(p) = h + L
      /\ \A i \in 1 .. h : p[i] = IntBytes(L, h)[i]
      /\ \A i \in 1 .. h : p[h + i] = IntBytes(nl, h)[i]
      /\ \A i \in 1 .. nl - 1 : p[2 * h + i] = NameOf[m.type][i]
      /\ p[2 * h + nl] = 0
      /\ \A i \in 1 .. pl : p[2 * h + nl + i] = m.payload[i]
  BY <1>1, <1>2, <1>3, <1>4 DEF Layout
<1>6. ASSUME NEW v \in Nat, 2 * v < Power[h], NEW at \in Nat, Shows(b, p, at), h <= getReadSize(b),
             \A i \in 1 .. h : p[at + i] = IntBytes(v, h)[i]
      PROVE  readInt(b, h) = v
  <2>1. PICK t \in Seq(Byte) : t = IntBytes(v, h) /\ Len(t) = h
    BY IntBytesIs DEF Byte
  <2>2. TakesFrom(Taken(b, h), p, at, h)
    BY <1>5, <1>6, TakenIs
  <2>3. Taken(b, h) = t
    BY <1>6, <2>1, <2>2, TakenEquals
  <2> QED
    BY <1>6, <2>1, <2>3, RoundTrip DEF readInt
<1>7. 2 * L < Power[h] /\ 2 * nl < Power[h]
  BY <1>1, <1>2, <1>4, MessageIs
<1>8. ASSUME Shows(b, p, 0), h <= getReadSize(b) PROVE readInt(b, h) = L
  <2>1. 0 \in Nat /\ \A i \in 1 .. h : p[0 + i] = IntBytes(L, h)[i]
    BY <1>5
  <2> QED
    BY <1>6, <1>7, <1>8, <2>1
<1>9. ASSUME Shows(b, p, h), h <= getReadSize(b) PROVE readInt(b, h) = nl
  BY <1>5, <1>6, <1>7, <1>9
<1>10. ASSUME Shows(b, p, 2 * h), nl - 1 <= getReadSize(b) PROVE Taken(b, nl - 1) = NameOf[m.type]
  <2>1. PICK t \in Seq(Byte) : t = NameOf[m.type] /\ Len(t) = nl - 1
    BY <1>2, MessageIs
  <2>2. PICK n \in Nat : n = nl - 1
    BY <1>2
  <2>3. PICK at \in Nat : at = 2 * h
    OBVIOUS
  <2>4. TakesFrom(Taken(b, n), p, at, n)
    BY <1>5, <1>10, <2>2, <2>3, TakenIs
  <2>5. Len(t) = n /\ \A i \in 1 .. n : p[at + i] = t[i]
    BY <1>5, <2>1, <2>2, <2>3
  <2>6. Taken(b, n) = t
    BY <2>4, <2>5, TakenEquals
  <2> QED
    BY <2>1, <2>2, <2>6
<1>11. ASSUME Shows(b, p, 2 * h + nl - 1), 1 <= getReadSize(b) PROVE Taken(b, 1) = <<0>>
  <2>1. PICK o \in Byte : o = 0
    BY ByteArrayAssumption DEF Byte
  <2>2. PICK t \in Seq(Byte) : t = <<o>>
    <3>1. <<o>> \in Seq(Byte)
      OBVIOUS
    <3> QED
      BY <3>1
  <2>3. PICK at \in Nat : at = 2 * h + nl - 1
    BY <1>2
  <2>4. PICK n \in Nat : n = 1
    OBVIOUS
  <2>5. TakesFrom(Taken(b, n), p, at, n)
    BY <1>5, <1>11, <2>3, <2>4, TakenIs
  <2>6. at + 1 = 2 * h + nl /\ Len(t) = 1 /\ t[1] = o
    BY <2>2, <2>3
  <2>7. Len(t) = n /\ \A i \in 1 .. n : p[at + i] = t[i]
    BY <1>5, <2>1, <2>4, <2>6
  <2>8. Taken(b, n) = t
    BY <2>5, <2>7, TakenEquals
  <2> QED
    BY <2>1, <2>2, <2>4, <2>8
<1>12. ASSUME Shows(b, p, 2 * h + nl), pl <= getReadSize(b) PROVE Taken(b, pl) = m.payload
  <2>1. PICK t \in Seq(Byte) : t = m.payload
    BY MessageIs
  <2>2. PICK at \in Nat : at = 2 * h + nl
    OBVIOUS
  <2>3. TakesFrom(Taken(b, pl), p, at, pl)
    BY <1>5, <1>12, <2>2, TakenIs
  <2>4. Len(t) = pl /\ \A i \in 1 .. pl : p[at + i] = t[i]
    BY <1>3, <1>5, <2>1, <2>2
  <2> QED
    BY <2>1, <2>3, <2>4, TakenEquals
<1> QED
  BY <1>1, <1>2, <1>3, <1>4, <1>8, <1>9, <1>10, <1>11, <1>12


\* The bytes of a name are no length: an integer read there is too large, or negative.
LEMMA NameIsNoLength ==
  ASSUME NEW m \in Messages, NEW p, Layout(p, m), NEW b,
         Shows(b, p, 2 * kHeaderLen), kHeaderLen <= getReadSize(b)
  PROVE  /\ readInt(b, kHeaderLen) \in Int
         /\ readInt(b, kHeaderLen) > kMaxMessageLen \/ readInt(b, kHeaderLen) < 0
<1>1. PICK h \in Nat \ {0} : h = kHeaderLen
  BY MessageIs
<1>2. PICK at \in Nat : at = 2 * h
  OBVIOUS
<1>3. PICK s : s = Taken(b, h)
  OBVIOUS
<1>4. TakesFrom(s, p, at, h)
  <2>1. p \in Seq(Byte) /\ Shows(b, p, at) /\ h \in Nat /\ h <= getReadSize(b)
    BY <1>1, <1>2 DEF Layout
  <2> QED
    BY <1>3, <2>1, TakenIs
<1>5. s \in Seq(Byte) /\ Len(s) = h /\ s[1] = p[2 * h + 1]
  <2>1. 1 \in 1 .. h
    OBVIOUS
  <2> QED
    BY <1>2, <1>4, <2>1 DEF TakesFrom
<1>6. s[1] = NameOf[m.type][1] /\ 1 \in DOMAIN NameOf[m.type] /\ m.type \in Types
  <2>1. 1 \in 1 .. NameLen(m) - 1
    BY MessageIs
  <2>2. p[2 * h + 1] = NameOf[m.type][1]
    BY <1>1, <2>1 DEF Layout
  <2>3. DOMAIN NameOf[m.type] = 1 .. NameLen(m) - 1
    BY MessageIs, LenProperties
  <2> QED
    BY <1>5, <2>1, <2>2, <2>3, MessageIs
<1>7. s[1] * Power[h - 1] > kMaxMessageLen
  BY <1>1, <1>6, CodecAssumption
<1>8. IntValue(s) \in Int /\ (IntValue(s) >= s[1] * Power[h - 1] \/ IntValue(s) < 0)
  BY <1>5, FirstByteDecides DEF Byte
<1>9. PICK x \in Int : x = s[1] * Power[h - 1]
  <2>1. s[1] \in Byte /\ Byte \subseteq Nat
    BY <1>5, ElementOfSeq, MessageIs, SMTT(60)
  <2>2. h - 1 \in Nat
    OBVIOUS
  <2>3. PICK y \in Nat : y = s[1]
    BY <2>1
  <2>4. PICK z \in Nat : z = Power[h - 1]
    BY <2>2, PowerIs
  <2>5. y * z \in Int
    OBVIOUS
  <2> QED
    BY <2>3, <2>4, <2>5
<1>10. PICK y \in Int : y = IntValue(s)
  BY <1>8
<1>11. y > kMaxMessageLen \/ y < 0
  <2>1. kMaxMessageLen \in Nat
    BY CodecAssumption
  <2>2. x > kMaxMessageLen /\ (y >= x \/ y < 0)
    BY <1>7, <1>8, <1>9, <1>10
  <2> QED
    BY <2>1, <2>2
<1> QED
  BY <1>1, <1>3, <1>10, <1>11 DEF readInt

\* A complete body parses to the message it was made of.
LEMMA WholeParse ==
  ASSUME NEW m \in Messages, NEW p, Layout(p, m), NEW b,
         Shows(b, p, kHeaderLen), BodyLen(m) <= getReadSize(b)
  PROVE  Parse(b, BodyLen(m)) = [err |-> "kNoError", msg |-> m]
<1>1. PICK h \in Nat : h = kHeaderLen
  BY MessageIs
<1>2. PICK nl \in Nat : nl = NameLen(m) /\ nl >= 2
  BY MessageIs
<1>3. PICK pl \in Nat : pl = Len(m.payload)
  BY MessageIs
<1>4. PICK L \in Nat : L = BodyLen(m) /\ L = h + nl + pl
  BY <1>1, <1>2, <1>3, MessageIs
<1>5. PICK k \in Nat : k = getReadSize(b) /\ k >= L
  BY <1>4, ReadSizeIs DEF Shows
<1>6. readInt(b, h) = nl
  <2>1. h <= k
    BY <1>4, <1>5
  <2> QED
    BY <1>1, <1>2, <1>5, <2>1, ReadParts
<1>7. PICK b1 : b1 = Skip(b, h)
  OBVIOUS
<1>8. Shows(b1, p, 2 * h) /\ getReadSize(b1) = k - h
  <2>1. h <= k /\ h + h = 2 * h
    BY <1>4, <1>5
  <2>2. Shows(b, p, h)
    BY <1>1
  <2>3. Shows(b1, p, h + h) /\ getReadSize(b1) = k - h
    BY <1>5, <1>7, <2>1, <2>2, SkipShows
  <2> QED
    BY <2>1, <2>3
<1>9. Taken(b1, nl - 1) = NameOf[m.type]
  <2>1. nl - 1 <= k - h
    BY <1>4, <1>5
  <2> QED
    BY <1>1, <1>2, <1>8, <2>1, ReadParts
<1>10. PICK b2 : b2 = Skip(b1, nl - 1)
  OBVIOUS
<1>11. Shows(b2, p, 2 * h + nl - 1) /\ getReadSize(b2) = k - h - nl + 1
  <2>1. PICK n \in Nat : n = nl - 1
    BY <1>2
  <2>2. PICK at \in Nat : at = 2 * h
    OBVIOUS
  <2>3. n <= k - h /\ at + n = 2 * h + nl - 1 /\ (k - h) - n = k - h - nl + 1
    BY <1>4, <1>5, <2>1, <2>2
  <2>4. Shows(b2, p, at + n) /\ getReadSize(b2) = (k - h) - n
    BY <1>8, <1>10, <2>1, <2>2, <2>3, SkipShows
  <2> QED
    BY <2>3, <2>4
<1>12. Taken(b2, 1) = <<0>>
  <2>1. 1 <= k - h - nl + 1
    BY <1>4, <1>5
  <2> QED
    BY <1>1, <1>2, <1>11, <2>1, ReadParts
<1>13. PICK b3 : b3 = Skip(b2, 1)
  OBVIOUS
<1>14. Shows(b3, p, 2 * h + nl) /\ getReadSize(b3) = k - h - nl
  <2>1. PICK n \in Nat : n = 1
    OBVIOUS
  <2>2. PICK at \in Nat : at = 2 * h + nl - 1
    BY <1>2
  <2>3. n <= k - h - nl + 1 /\ at + n = 2 * h + nl /\ (k - h - nl + 1) - n = k - h - nl
    BY <1>4, <1>5, <2>1, <2>2
  <2>4. Shows(b3, p, at + n) /\ getReadSize(b3) = (k - h - nl + 1) - n
    BY <1>11, <1>13, <2>1, <2>2, <2>3, SkipShows
  <2> QED
    BY <2>3, <2>4
<1>15. Taken(b3, pl) = m.payload
  <2>1. pl <= k - h - nl
    BY <1>4, <1>5
  <2> QED
    BY <1>1, <1>2, <1>3, <1>14, <2>1, ReadParts
<1>16. CreateMessage(NameOf[m.type]) = {m.type}
  BY MessageIs, CodecAssumption DEF CreateMessage
<1>17. PICK c : c = CHOOSE t \in CreateMessage(NameOf[m.type]) : TRUE
  OBVIOUS
<1>18. c = m.type
  BY <1>16, <1>17
<1>19. PayloadLen(L, nl) = pl /\ ~(nl < 2) /\ ~(nl > L - h)
  BY <1>1, <1>2, <1>4 DEF PayloadLen
<1>20. Parse(b, L) = [err |-> "kNoError", msg |-> [type |-> c, payload |-> m.payload]]
  <2>1. m.payload \in Payloads
    BY MessageIs
  <2> QED
    BY <1>1, <1>6, <1>7, <1>9, <1>10, <1>12, <1>13, <1>15, <1>16, <1>17, <1>19, <2>1 DEF Parse
<1> QED
  BY <1>4, <1>18, <1>20, MessageIs

\* The first look at the length.  The packet is there and is the message that was
\* sent, or it is too long, or the length is taken and the rest is waited for.
LEMMA FirstTurn ==
  ASSUME NEW m \in Messages, NEW p, Layout(p, m), NEW b, Shows(b, p, 0), LengthKnown(b)
  PROVE  \/ BodyLen(m) > kMaxMessageLen /\ Turn(b).res = Failed("kInvalidLength")
         \/ Len(p) <= getReadSize(b) /\ Turn(b).res = [err |-> "kNoError", msg |-> m]
         \/ getReadSize(b) < Len(p) /\ Turn(b) = More(Skip(b, kHeaderLen))
<1>1. PICK h \in Nat : h = kHeaderLen
  BY MessageIs
<1>2. PICK L \in Nat : L = BodyLen(m)
  BY MessageIs
<1>3. PICK k \in Nat : k = getReadSize(b)
  BY ReadSizeIs DEF Shows
<1>4. k >= h /\ Len(p) = h + L
  BY <1>1, <1>2, <1>3 DEF LengthKnown, kMinMessageLen, Layout
<1>5. readInt(b, h) = L
  BY <1>1, <1>2, <1>3, <1>4, ReadParts
<1>6. PICK rest : rest = Skip(b, h)
  OBVIOUS
<1>7. Shows(rest, p, h) /\ getReadSize(rest) = k - h
  <2>1. PICK o \in Nat : o = 0
    OBVIOUS
  <2>2. o + h = h /\ Shows(b, p, o)
    BY <2>1
  <2>3. Shows(rest, p, o + h) /\ getReadSize(rest) = k - h
    BY <1>3, <1>4, <1>6, <2>2, SkipShows
  <2> QED
    BY <2>2, <2>3
<1>8. ~(L < kMinMessageLen)
  BY <1>1, <1>2, MessageIs, SMTT(60) DEF kMinMessageLen
<1>9. PICK t : t = Turn(b)
  OBVIOUS
<1>10. CASE L > kMaxMessageLen
  <2>1. t = [ba |-> rest, res |-> Failed("kInvalidLength")]
    BY <1>1, <1>5, <1>6, <1>9, <1>10 DEF Turn
  <2> QED
    BY <1>2, <1>9, <1>10, <2>1
<1>11. CASE ~(L > kMaxMessageLen) /\ k - h >= L
  <2>1. t = [ba |-> rest, res |-> Parse(rest, L)]
    BY <1>1, <1>5, <1>6, <1>7, <1>8, <1>9, <1>11 DEF Turn
  <2>2. Parse(rest, L) = [err |-> "kNoError", msg |-> m]
    <3>1. BodyLen(m) <= getReadSize(rest)
      BY <1>2, <1>7, <1>11
    <3> QED
      BY <1>1, <1>2, <1>7, <3>1, WholeParse
  <2>3. Len(p) <= getReadSize(b)
    BY <1>3, <1>4, <1>11
  <2> QED
    BY <1>9, <2>1, <2>2, <2>3
<1>12. CASE ~(L > kMaxMessageLen) /\ ~(k - h >= L)
  <2>1. t = More(rest)
    BY <1>1, <1>5, <1>6, <1>7, <1>8, <1>9, <1>12 DEF Turn
  <2>2. getReadSize(b) < Len(p)
    BY <1>3, <1>4, <1>12
  <2> QED
    BY <1>1, <1>6, <1>9, <2>1, <2>2
<1> QED
  BY <1>10, <1>11, <1>12

\* A second look takes the length of the name for that of the message, and never
\* makes a message of it.
LEMMA SecondTurn ==
  ASSUME NEW m \in Messages, NEW p, Layout(p, m), NEW b, Shows(b, p, kHeaderLen), LengthKnown(b)
  PROVE  \/ \E code \in {"kInvalidLength", "kInvalidNameLength"} : Turn(b).res = Failed(code)
         \/ Turn(b) = More(Skip(b, kHeaderLen))
<1>1. PICK h \in Nat : h = kHeaderLen
  BY MessageIs
<1>2. PICK nl \in Nat : nl = NameLen(m)
  BY MessageIs
<1>3. PICK k \in Nat : k = getReadSize(b)
  BY ReadSizeIs DEF Shows
<1>4. k >= h /\ k - h >= h
  BY <1>1, <1>3 DEF LengthKnown, kMinMessageLen
<1>5. readInt(b, h) = nl
  BY <1>1, <1>2, <1>3, <1>4, ReadParts
<1>6. PICK rest : rest = Skip(b, h)
  OBVIOUS
<1>7. Shows(rest, p, 2 * h) /\ getReadSize(rest) = k - h
  <2>1. Shows(b, p, h) /\ h + h = 2 * h
    BY <1>1
  <2>2. Shows(rest, p, h + h) /\ getReadSize(rest) = k - h
    BY <1>3, <1>4, <1>6, <2>1, SkipShows
  <2> QED
    BY <2>1, <2>2
<1>8. PICK t : t = Turn(b)
  OBVIOUS
<1>9. CASE nl > kMaxMessageLen \/ nl < kMinMessageLen
  <2>1. t = [ba |-> rest, res |-> Failed("kInvalidLength")]
    BY <1>1, <1>5, <1>6, <1>8, <1>9 DEF Turn
  <2> QED
    BY <1>8, <2>1
<1>10. CASE ~(nl > kMaxMessageLen \/ nl < kMinMessageLen) /\ k - h >= nl
  <2>1. t = [ba |-> rest, res |-> Parse(rest, nl)]
    BY <1>1, <1>5, <1>6, <1>7, <1>8, <1>10 DEF Turn
  <2>2. PICK x \in Int : x = readInt(rest, h) /\ (x > kMaxMessageLen \/ x < 0)
    <3>1. Shows(rest, p, 2 * kHeaderLen) /\ kHeaderLen <= getReadSize(rest)
      BY <1>1, <1>4, <1>7
    <3> QED
      BY <1>1, <3>1, NameIsNoLength
  <2>3. x < 2 \/ x > nl - h
    <3>1. kMaxMessageLen \in Nat
      BY CodecAssumption
    <3>2. nl <= kMaxMessageLen
      BY <1>10, <3>1
    <3> QED
      BY <2>2, <3>1, <3>2
  <2>4. Parse(rest, nl) = Failed("kInvalidNameLength")
    BY <1>1, <2>2, <2>3 DEF Parse
  <2> QED
    BY <1>8, <2>1, <2>4
<1>11. CASE ~(nl > kMaxMessageLen \/ nl < kMinMessageLen) /\ ~(k - h >= nl)
  <2>1. t = More(rest)
    BY <1>1, <1>5, <1>6, <1>7, <1>8, <1>11 DEF Turn
  <2> QED
    BY <1>1, <1>6, <1>8, <2>1
<1> QED
  BY <1>9, <1>10, <1>11

\* A third look takes the name for a length, and fails.
LEMMA ThirdTurn ==
  ASSUME NEW m \in Messages, NEW p, Layout(p, m), NEW b, Shows(b, p, 2 * kHeaderLen), LengthKnown(b)
  PROVE  Turn(b).res = Failed("kInvalidLength")
<1>1. PICK h \in Nat : h = kHeaderLen
  BY MessageIs
<1>2. PICK k \in Nat : k = getReadSize(b)
  BY ReadSizeIs DEF Shows
<1>3. k >= h
  BY <1>1, <1>2 DEF LengthKnown, kMinMessageLen
<1>4. PICK x \in Int : x = readInt(b, h) /\ (x > kMaxMessageLen \/ x < 0)
  BY <1>1, <1>2, <1>3, NameIsNoLength
<1>5. x > kMaxMessageLen \/ x < kMinMessageLen
  BY <1>1, <1>4 DEF kMinMessageLen
<1>6. Turn(b) = [ba |-> Skip(b, h), res |-> Failed("kInvalidLength")]
  BY <1>1, <1>4, <1>5 DEF Turn
<1> QED
  BY <1>6


-----------------------------------------------------------------------------
(* receive() *)

StartOf(stream, p) ==
  /\ stream \in Seq(Byte) /\ Len(stream) <= Len(p)
  /\ \A i \in 1 .. Len(stream) : stream[i] = p[i]

\* Between two reads: t bytes of the stream are read, of which the array holds all,
\* all but the length, or all but the length and the name's length.  f is 0 as long
\* as no length was read, and then less than the packet has.
Receiving(b, stream, t, f, m) ==
  \E at \in {0, kHeaderLen, 2 * kHeaderLen} :
    /\ Shows(b, stream, at) /\ at + getReadSize(b) = t
    /\ at = 0 => f = 0
    /\ at # 0 => f # 0 /\ f < Len(Packet(m))

\* When receive() has returned g.
Returned(g, f, m) ==
  /\ g.err = "kNoError" => g.msg = m /\ f >= Len(Packet(m))
  /\ g.err # "kNoError" => f < Len(Packet(m)) \/ BodyLen(m) > kMaxMessageLen

\* The array after a read of the next n bytes.
Read(b, stream, t, n) == Filled(getWriteArea(b, ReadMax), SubSeq(stream, t + 1, t + n))

\* The header has at least one byte.
LEMMA HeaderIs == kHeaderLen \in Nat /\ kHeaderLen >= 1 /\ Byte \subseteq Int
  BY CodecAssumption, ByteArrayAssumption DEF Byte

\* A read keeps the array in step with the stream.
LEMMA ReadShows ==
  ASSUME NEW b, NEW stream \in Seq(Byte), NEW at \in Nat, NEW t \in Nat, NEW n \in 1 .. ReadMax,
         Shows(b, stream, at), at + getReadSize(b) = t, t + n <= Len(stream)
  PROVE  /\ Shows(Read(b, stream, t, n), stream, at)
         /\ at + getReadSize(Read(b, stream, t, n)) = t + n
<1>1. PICK k \in Nat : k = getReadSize(b) /\ t = at + k
  BY ReadSizeIs DEF Shows
<1>2. ReadMax \in Nat /\ n \in Nat
  BY RpcAssumption
<1>3. PICK e \in Nat : e = t + n
  BY <1>2
<1>4. PICK x : x = SubSeq(stream, t + 1, e)
  OBVIOUS
<1>5. x \in Seq(Byte) /\ Len(x) = n /\ \A i \in 1 .. n : x[i] = stream[t + i]
  <2>1. t <= e /\ e <= Len(stream) /\ e - t = n
    BY <1>2, <1>3
  <2>2. x \in Seq(Byte) /\ Len(x) = e - t /\ \A i \in 1 .. e - t : x[i] = stream[t + i]
    BY <1>4, <2>1, PartIs
  <2> QED
    BY <2>1, <2>2
<1>6. x \in Seq(Int) /\ Len(x) <= ReadMax
  <2>1. x \in Seq(Byte) /\ Byte \subseteq Int
    BY <1>5, HeaderIs
  <2>2. x \in Seq(Int)
    BY <2>1, SeqMonotonic
  <2>3. n <= ReadMax
    BY <1>2
  <2> QED
    BY <1>5, <2>2, <2>3
<1>7. PICK c : c = Filled(addCapacity(b, ReadMax), x)
  OBVIOUS
<1>8. /\ Array(c) /\ getReadSize(c) = k + n
      /\ \A i \in 1 .. k + n : Unread(c, i) = IF i <= k THEN Unread(b, i) ELSE x[i - k]
  <2>1. Array(b)
    BY DEF Shows
  <2> QED
    BY <1>1, <1>2, <1>5, <1>6, <1>7, <2>1, GrowFill, ZenonT(60)
<1>9. c = Read(b, stream, t, n)
  BY <1>3, <1>4, <1>7 DEF Read, getWriteArea
<1>10. ASSUME NEW i \in 1 .. k + n PROVE Unread(c, i) = stream[at + i]
  <2>1. CASE i <= k
    <3>1. i \in 1 .. k
      BY <2>1
    <3>2. Unread(b, i) = stream[at + i]
      BY <1>1, <3>1 DEF Shows
    <3> QED
      BY <1>8, <2>1, <3>2
  <2>2. CASE ~(i <= k)
    <3>1. i - k \in 1 .. n /\ t + (i - k) = at + i
      BY <1>1, <1>2, <2>2, SMTT(60)
    <3>2. x[i - k] = stream[t + (i - k)]
      BY <1>5, <3>1
    <3> QED
      BY <1>8, <2>2, <3>1, <3>2
  <2> QED
    BY <2>1, <2>2
<1>11. at + (k + n) = t + n
  BY <1>1, <1>2
<1> QED
  BY <1>8, <1>9, <1>10, <1>11 DEF Shows

\* A part of a packet's start is a part of the packet.
LEMMA ShowsPacket ==
  ASSUME NEW b, NEW stream, NEW p \in Seq(Byte), NEW at \in Nat, StartOf(stream, p), Shows(b, stream, at)
  PROVE  Shows(b, p, at)
<1>1. PICK k \in Nat : k = getReadSize(b)
  BY ReadSizeIs DEF Shows
<1>2. PICK l \in Nat : l = Len(stream)
  BY DEF StartOf
<1>3. PICK q \in Nat : q = Len(p)
  OBVIOUS
<1>4. at + k <= l /\ l <= q
  BY <1>1, <1>2, <1>3 DEF StartOf, Shows
<1>5. ASSUME NEW i \in 1 .. k PROVE Unread(b, i) = p[at + i]
  <2>1. at + i \in 1 .. l
    BY <1>4
  <2>2. stream[at + i] = p[at + i]
    BY <1>2, <2>1 DEF StartOf
  <2> QED
    BY <1>1, <2>2 DEF Shows
<1>6. at + k <= q
  BY <1>4
<1> QED
  BY <1>1, <1>3, <1>5, <1>6 DEF Shows

\* Every turn of receive() goes on receiving or returns what it may return.
LEMMA ReceiveTurn ==
  ASSUME NEW m \in Messages, NEW stream, StartOf(stream, Packet(m)),
         NEW b, NEW t \in Nat, NEW f \in Nat, Receiving(b, stream, t, f, m),
         NEW n \in 1 .. ReadMax, t + n <= Len(stream),
         NEW c, c = Read(b, stream, t, n),
         NEW g, g = IF f = 0 /\ LengthKnown(c) THEN t + n ELSE f
  PROVE  /\ g \in Nat
         /\ Turn(c).res.err = "more" => Receiving(Turn(c).ba, stream, t + n, g, m)
         /\ Turn(c).res.err # "more" => Turn(c).res # Nothing /\ Returned(Turn(c).res, g, m)
<1>1. PICK h \in Nat : h = kHeaderLen /\ h >= 1
  BY HeaderIs
<1>2. n \in Nat /\ n >= 1 /\ stream \in Seq(Byte) /\ Len(stream) \in Nat
  BY RpcAssumption DEF StartOf
<1>3. PICK p \in Seq(Byte) : p = Packet(m) /\ Layout(p, m)
  BY PacketIs DEF Layout
<1>4. PICK at \in {0, h, 2 * h} :
        /\ Shows(b, stream, at) /\ at + getReadSize(b) = t
        /\ at = 0 => f = 0
        /\ at # 0 => f # 0 /\ f < Len(p)
  BY <1>1, <1>3 DEF Receiving
<1>5. at \in Nat
  BY <1>4
<1>6. Shows(c, stream, at) /\ at + getReadSize(c) = t + n
  BY <1>2, <1>4, <1>5, ReadShows
<1>7. Shows(c, p, at)
  BY <1>3, <1>5, <1>6, ShowsPacket
<1>8. PICK k \in Nat : k = getReadSize(c)
  BY <1>6, ReadSizeIs DEF Shows
<1>9. PICK l \in Nat : l = Len(p)
  OBVIOUS
<1>10. g \in Nat
  BY <1>2
<1>11. PICK r : r = Turn(c)
  OBVIOUS
<1>12. CASE ~LengthKnown(c)
  <2>1. r = More(c) /\ g = f
    BY <1>11, <1>12 DEF Turn
  <2>2. r.ba = c /\ r.res.err = "more"
    BY <2>1 DEF More
  <2>3. Receiving(c, stream, t + n, g, m)
    BY <1>1, <1>3, <1>4, <1>6, <2>1 DEF Receiving
  <2> QED
    BY <1>10, <1>11, <2>2, <2>3
<1>13. ASSUME LengthKnown(c), r = More(Skip(c, h)), at # 2 * h, g # 0, g < l
       PROVE  r.res.err = "more" /\ Receiving(r.ba, stream, t + n, g, m)
  <2>1. r.ba = Skip(c, h) /\ r.res.err = "more"
    BY <1>13 DEF More
  <2>2. h <= k
    BY <1>1, <1>8, <1>13 DEF LengthKnown, kMinMessageLen
  <2>3. Shows(Skip(c, h), stream, at + h) /\ getReadSize(Skip(c, h)) = k - h
    BY <1>5, <1>6, <1>8, <2>2, SkipShows, SMTT(60)
  <2>4. (at + h) + (k - h) = t + n /\ at + h \in {0, h, 2 * h} /\ at + h # 0
    <3>1. at = 0 \/ at = h
      BY <1>4, <1>13
    <3>2. (at + h) + (k - h) = at + k /\ at + k = t + n
      BY <1>5, <1>6, <1>8
    <3>3. at + h \in {h, 2 * h} /\ at + h # 0
      BY <1>1, <3>1
    <3> QED
      BY <3>2, <3>3
  <2>5. PICK at2 \in {0, h, 2 * h} : at2 = at + h
    BY <2>4
  <2>6. /\ Shows(r.ba, stream, at2) /\ at2 + getReadSize(r.ba) = t + n
        /\ at2 # 0 /\ g # 0 /\ g < Len(Packet(m))
    BY <1>3, <1>9, <1>13, <2>1, <2>3, <2>4, <2>5
  <2> QED
    BY <1>1, <2>1, <2>5, <2>6 DEF Receiving
<1>14. CASE LengthKnown(c) /\ at = 0
  <2>1. f = 0 /\ g = t + n /\ k = t + n
    BY <1>4, <1>6, <1>8, <1>14
  <2>2. g # 0
    BY <1>2, <2>1
  <2>3. Shows(c, p, 0)
    BY <1>7, <1>14
  <2>4. \/ BodyLen(m) > kMaxMessageLen /\ r.res = Failed("kInvalidLength")
        \/ l <= k /\ r.res = [err |-> "kNoError", msg |-> m]
        \/ k < l /\ r = More(Skip(c, h))
    BY <1>1, <1>3, <1>8, <1>9, <1>11, <1>14, <2>3, FirstTurn
  <2>5. CASE BodyLen(m) > kMaxMessageLen /\ r.res = Failed("kInvalidLength")
    <3>1. r.res # Nothing /\ r.res.err = "kInvalidLength"
      BY <2>5 DEF Failed, Nothing
    <3> QED
      BY <1>10, <1>11, <2>5, <3>1 DEF Returned
  <2>6. CASE l <= k /\ r.res = [err |-> "kNoError", msg |-> m]
    <3>1. r.res # Nothing /\ r.res.err = "kNoError" /\ r.res.msg = m
      BY <2>6 DEF Failed, Nothing
    <3>2. g >= Len(Packet(m))
      BY <1>2, <1>3, <1>9, <2>1, <2>6
    <3> QED
      BY <1>10, <1>11, <3>1, <3>2 DEF Returned
  <2>7. CASE k < l /\ r = More(Skip(c, h))
    <3>1. g < l /\ at # 2 * h
      BY <1>1, <1>14, <2>1, <2>7
    <3> QED
      BY <1>10, <1>11, <1>13, <1>14, <2>2, <2>7, <3>1
  <2> QED
    BY <2>4, <2>5, <2>6, <2>7
<1>15. ASSUME at # 0, NEW code \in {"kInvalidLength", "kInvalidNameLength"}, r.res = Failed(code)
       PROVE  r.res.err # "more" /\ r.res # Nothing /\ Returned(r.res, g, m)
  <2>1. g = f /\ g < Len(Packet(m))
    BY <1>3, <1>4, <1>15
  <2>2. r.res # Nothing /\ r.res.err = code
    BY <1>15 DEF Failed, Nothing
  <2> QED
    BY <2>1, <2>2 DEF Returned
<1>16. CASE LengthKnown(c) /\ at = h
  <2>1. at # 0 /\ at # 2 * h
    BY <1>1, <1>16
  <2>2. g = f /\ g # 0 /\ g < l
    BY <1>4, <1>9, <2>1
  <2>3. \/ \E code \in {"kInvalidLength", "kInvalidNameLength"} : r.res = Failed(code)
        \/ r = More(Skip(c, h))
    BY <1>1, <1>3, <1>7, <1>11, <1>16, SecondTurn
  <2> QED
    BY <1>10, <1>11, <1>13, <1>15, <1>16, <2>1, <2>2, <2>3
<1>17. CASE LengthKnown(c) /\ at = 2 * h
  <2>1. at # 0
    BY <1>1, <1>17
  <2>2. r.res = Failed("kInvalidLength")
    BY <1>1, <1>3, <1>7, <1>11, <1>17, ThirdTurn
  <2> QED
    BY <1>10, <1>11, <1>15, <2>1, <2>2
<1> QED
  BY <1>4, <1>12, <1>14, <1>16, <1>17


-----------------------------------------------------------------------------
(* The inductive invariant *)

Early == {"idle", "connect", "send", "none", "backlog"}
ClientAt == {"idle", "connect", "send", "recv", "close", "done"}
ServerAt == {"none", "backlog", "recv", "lookup", "onMessage", "close", "done"}

Typed ==
  /\ pc \in [Sides -> ClientAt \cup ServerAt]
  /\ pc["client"] \in ClientAt /\ pc["server"] \in ServerAt
  /\ sent \in [Sides -> Seq(Byte)]
  /\ taken \in [Sides -> Nat] /\ first \in [Sides -> Nat]
  /\ DOMAIN ba = Sides /\ DOMAIN got = Sides

\* The request is there before anything is sent, and nobody sends early.
Started ==
  /\ pc["client"] # "idle" => request \in Messages
  /\ pc["client"] \in {"idle", "connect"} => pc["server"] = "none"
  /\ pc["client"] \in {"idle", "connect", "send"} => sent["client"] = <<>>
  /\ pc["server"] \in ServerAt \ {"close", "done"} => sent["server"] = <<>>

\* What is sent is the start of the packet that is expected.
Streams ==
  pc["client"] # "idle" =>
    /\ StartOf(sent["client"], Packet(request))
    /\ StartOf(sent["server"], Packet(Answer[request.type]))

\* A side at a, with got = g, ba = b, taken = t and first = f, that is to receive m.
SideOK(a, g, b, stream, t, f, m) ==
  /\ a \in Early => t = 0 /\ f = 0 /\ g = Nothing
  /\ a # "recv" => b = New
  /\ a = "recv" => g = Nothing /\ Receiving(b, stream, t, f, m)
  /\ a \notin Early \cup {"recv"} => g = Nothing \/ Returned(g, f, m)
  /\ a \in {"lookup", "onMessage"} => g.err = "kNoError" /\ Returned(g, f, m)

Client == SideOK(pc["client"], got["client"], ba["client"], sent["server"],
                 taken["client"], first["client"], Answer[request.type])
Server == SideOK(pc["server"], got["server"], ba["server"], sent["client"],
                 taken["server"], first["server"], request)

IInv == Typed /\ Started /\ Streams /\ Client /\ Server

\* The two ends of the connection.
LEMMA PeerIs == Peer("client") = "server" /\ Peer("server") = "client"
  BY DEF Peer, Sides

\* receive() begins with an empty array and nothing taken.
LEMMA ReceiveStarts ==
  ASSUME NEW stream \in Seq(Byte), NEW m
  PROVE  Receiving(New, stream, 0, 0, m)
<1>1. Array(New) /\ getReadSize(New) = 0 /\ Len(stream) \in Nat
  BY NewIs
<1>2. Shows(New, stream, 0) /\ 0 + getReadSize(New) = 0
  BY <1>1 DEF Shows
<1> QED
  BY <1>2 DEF Receiving

\* Nothing was read of a stream that was empty.
LEMMA StreamFills ==
  ASSUME NEW b, NEW t, NEW f, NEW m, Receiving(b, <<>>, t, f, m), NEW stream \in Seq(Byte)
  PROVE  Receiving(b, stream, t, f, m)
<1>1. PICK at \in {0, kHeaderLen, 2 * kHeaderLen} :
        /\ Shows(b, <<>>, at) /\ at + getReadSize(b) = t
        /\ at = 0 => f = 0
        /\ at # 0 => f # 0 /\ f < Len(Packet(m))
  BY DEF Receiving
<1>2. at \in Nat
  BY HeaderIs
<1>3. PICK k \in Nat : k = getReadSize(b)
  BY <1>1, ReadSizeIs DEF Shows
<1>4. at + k <= 0
  BY <1>1, <1>3 DEF Shows
<1>5. at = 0 /\ k = 0
  BY <1>2, <1>4
<1>6. Shows(b, stream, 0)
  BY <1>1, <1>3, <1>5 DEF Shows
<1> QED
  BY <1>1, <1>5, <1>6 DEF Receiving

\* Before the call nothing is sent and nothing received.
LEMMA InitInv == Init => IInv
<1> SUFFICES ASSUME Init PROVE IInv
  OBVIOUS
<1>1. <<>> \in Seq(Byte)
  OBVIOUS
<1>2. Typed
  BY <1>1 DEF Init, Typed, Sides, ClientAt, ServerAt
<1>3. Started /\ Streams
  BY DEF Init, Started, Streams, Sides
<1>4. Client /\ Server
  BY DEF Init, Client, Server, SideOK, Sides, Early
<1> QED
  BY <1>2, <1>3, <1>4 DEF IInv

\* What an action leaves alone.
LEMMA OthersKept ==
  ASSUME IInv
  PROVE  /\ UNCHANGED <<pc["client"], got, ba, sent, taken, first, request>> => Client'
         /\ UNCHANGED <<pc["server"], got, ba, sent, taken, first, request>> => Server'
         /\ UNCHANGED <<sent, request>> /\ (pc'["client"] # "idle" => pc["client"] # "idle") => Streams'
  BY DEF IInv, Client, Server, Streams


\* A side that has not received anything may go on, and what it is to receive may
\* still change.
LEMMA EarlySide ==
  ASSUME NEW a, NEW a2 \in Early, NEW g, NEW b, NEW st, NEW st2, NEW t, NEW f, NEW m, NEW m2,
         a \in Early, SideOK(a, g, b, st, t, f, m)
  PROVE  SideOK(a2, g, b, st2, t, f, m2)
  BY DEF SideOK, Early

\* A side that has not begun may begin to receive.
LEMMA SideStarts ==
  ASSUME NEW a \in Early, NEW g, NEW b, NEW st \in Seq(Byte), NEW t, NEW f, NEW m,
         SideOK(a, g, b, st, t, f, m)
  PROVE  SideOK("recv", g, b, st, t, f, m)
<1>1. t = 0 /\ f = 0 /\ g = Nothing /\ b = New
  BY DEF SideOK, Early
<1> QED
  BY <1>1, ReceiveStarts DEF SideOK, Early

\* A side that is done with receive() goes on.
LEMMA SideEnds ==
  ASSUME NEW a, a \notin Early \cup {"recv"}, NEW a2 \in {"close", "done"}, NEW g, NEW b,
         NEW st, NEW st2, NEW t, NEW f, NEW m, SideOK(a, g, b, st, t, f, m)
  PROVE  SideOK(a2, g, b, st2, t, f, m)
  BY DEF SideOK, Early

\* The peer sends.
LEMMA SideSees ==
  ASSUME NEW a, NEW g, NEW b, NEW st \in Seq(Byte), NEW t, NEW f, NEW m, SideOK(a, g, b, <<>>, t, f, m)
  PROVE  SideOK(a, g, b, st, t, f, m)
  BY StreamFills DEF SideOK

\* A step of one side leaves the other where it is.
LEMMA PcMoves ==
  ASSUME Typed, NEW s \in Sides, NEW at, Goto(s, at),
         at \in IF s = "client" THEN ClientAt ELSE ServerAt
  PROVE  /\ pc'[s] = at /\ pc' \in [Sides -> ClientAt \cup ServerAt]
         /\ pc'["client"] \in ClientAt /\ pc'["server"] \in ServerAt
         /\ \A r \in Sides : r # s => pc'[r] = pc[r]
  BY DEF Typed, Goto, Sides

\* The client picks its request.
LEMMA CallStep ==
  ASSUME IInv, NEW m \in Messages, Call(m)
  PROVE  IInv'
<1> USE DEF IInv
<1>1. /\ pc["client"] = "idle" /\ request' = m /\ Goto("client", "connect")
      /\ UNCHANGED <<sent, taken, ba, got, first>>
  BY DEF Call, conn, recv
<1>2. /\ pc'["client"] = "connect" /\ pc' \in [Sides -> ClientAt \cup ServerAt]
      /\ pc'["client"] \in ClientAt /\ pc'["server"] \in ServerAt /\ pc'["server"] = pc["server"]
  BY <1>1, PcMoves DEF Sides, ClientAt
<1>3. Typed'
  BY <1>1, <1>2 DEF Typed
<1>4. pc["server"] = "none" /\ sent["client"] = <<>> /\ sent["server"] = <<>>
  BY <1>1 DEF Started, ServerAt
<1>5. Started'
  BY <1>1, <1>2, <1>4 DEF Started
<1>6. Streams'
  <2>1. \A r \in Messages : Packet(r) \in Seq(Byte)
    BY PacketIs DEF Layout
  <2>2. Answer[m.type] \in Messages
    BY RpcAssumption, MessageIs
  <2>3. \A r \in Messages : StartOf(<<>>, Packet(r))
    BY <2>1 DEF StartOf
  <2> QED
    BY <1>1, <1>4, <2>2, <2>3 DEF Streams
<1>7. Client'
  <2>1. "idle" \in Early /\ "connect" \in Early
    BY DEF Early
  <2> QED
    BY <1>1, <1>2, <2>1, EarlySide DEF Client
<1>8. Server'
  <2>1. "none" \in Early
    BY DEF Early
  <2> QED
    BY <1>1, <1>2, <1>4, <2>1, EarlySide DEF Server
<1> QED
  BY <1>3, <1>5, <1>6, <1>7, <1>8

\* The connection is made or refused.
LEMMA ConnectStep ==
  ASSUME IInv, Connect \/ ConnectFails
  PROVE  IInv'
<1> USE DEF IInv
<1>1. /\ pc["client"] = "connect" /\ UNCHANGED <<request, sent, taken, ba, got, first>>
  BY DEF Connect, ConnectFails, conn, recv
<1>2. pc["server"] = "none" /\ sent["client"] = <<>> /\ sent["server"] = <<>> /\ request \in Messages
  BY <1>1 DEF Started, ServerAt
<1>3. Streams'
  BY <1>1 DEF Streams
<1>4. CASE Connect
  <2>1. pc' = [client |-> "send", server |-> "backlog"]
    BY <1>4 DEF Connect
  <2>2. /\ pc' \in [Sides -> ClientAt \cup ServerAt]
        /\ pc'["client"] = "send" /\ pc'["server"] = "backlog"
    BY <2>1 DEF Sides, ClientAt, ServerAt
  <2>3. Typed' /\ Started'
    BY <1>1, <1>2, <2>2 DEF Typed, Started, ClientAt, ServerAt
  <2>4. {"connect", "send", "none", "backlog"} \subseteq Early
    BY DEF Early
  <2>5. Client'
    BY <1>1, <2>2, <2>4, EarlySide DEF Client
  <2>6. Server'
    BY <1>1, <1>2, <2>2, <2>4, EarlySide DEF Server
  <2> QED
    BY <1>3, <2>3, <2>5, <2>6
<1>5. CASE ConnectFails
  <2>1. Goto("client", "done")
    BY <1>5 DEF ConnectFails
  <2>2. /\ pc'["client"] = "done" /\ pc' \in [Sides -> ClientAt \cup ServerAt]
        /\ pc'["client"] \in ClientAt /\ pc'["server"] \in ServerAt /\ pc'["server"] = pc["server"]
    BY <2>1, PcMoves DEF Sides, ClientAt
  <2>3. Typed' /\ Started'
    BY <1>1, <1>2, <2>2 DEF Typed, Started
  <2>4. Client'
    BY <1>1, <2>2 DEF Client, SideOK, Early
  <2>5. Server'
    BY <1>1, <2>2 DEF Server
  <2> QED
    BY <1>3, <2>3, <2>4, <2>5
<1> QED
  BY <1>4, <1>5

\* The server accepts and starts to receive.
LEMMA AcceptStep ==
  ASSUME IInv, Accept
  PROVE  IInv'
<1> USE DEF IInv
<1>1. /\ pc["server"] = "backlog" /\ Goto("server", "recv")
      /\ UNCHANGED <<request, sent, taken, ba, got, first>>
  BY DEF Accept, conn, recv
<1>2. /\ pc'["server"] = "recv" /\ pc' \in [Sides -> ClientAt \cup ServerAt]
      /\ pc'["client"] \in ClientAt /\ pc'["server"] \in ServerAt /\ pc'["client"] = pc["client"]
  BY <1>1, PcMoves DEF Sides, ServerAt
<1>3. Typed' /\ Started' /\ Streams' /\ Client'
  BY <1>1, <1>2 DEF Typed, Started, Streams, Client, ServerAt
<1>4. Server'
  <2>1. "backlog" \in Early /\ sent["client"] \in Seq(Byte)
    BY DEF Early, Typed, Sides
  <2> QED
    BY <1>1, <1>2, <2>1, SideStarts DEF Server
<1> QED
  BY <1>3, <1>4

\* What Send puts on the stream.
LEMMA SendIs ==
  ASSUME Typed, NEW s \in Sides, NEW m \in Messages, Send(s, m)
  PROVE  /\ sent'[s] \in Seq(Byte) /\ StartOf(sent'[s], Packet(m))
         /\ sent' \in [Sides -> Seq(Byte)] /\ \A r \in Sides : r # s => sent'[r] = sent[r]
         /\ UNCHANGED <<request, taken, ba, got, first>>
<1>1. PICK p \in Packets : \E n \in 0 .. Len(p[2]) :
        p[1] = m /\ sent' = [sent EXCEPT ![s] = SubSeq(p[2], 1, n)]
  BY DEF Send
<1>2. PICK q \in Seq(Byte) : q = Packet(m) /\ p[2] = q
  <2>1. p[1] = m
    BY <1>1
  <2>2. p[2] = Packet(m)
    BY <1>1, <2>1 DEF Packets
  <2> QED
    BY <2>2, PacketIs DEF Layout
<1>3. PICK n \in 0 .. Len(q) : sent' = [sent EXCEPT ![s] = SubSeq(q, 1, n)]
  BY <1>1, <1>2
<1>4. PICK x : x = SubSeq(q, 1, n)
  OBVIOUS
<1>5. x \in Seq(Byte) /\ Len(x) = n /\ \A i \in 1 .. n : x[i] = q[i]
  <2>1. PICK o \in Nat : o = 0
    OBVIOUS
  <2>2. n \in Nat /\ o <= n /\ n <= Len(q) /\ n - o = n /\ o + 1 = 1 /\ \A i \in 1 .. n : o + i = i
    BY <2>1
  <2>3. x = SubSeq(q, o + 1, n)
    BY <1>4, <2>2
  <2>4. x \in Seq(Byte) /\ Len(x) = n - o /\ \A i \in 1 .. n - o : x[i] = q[o + i]
    BY <2>2, <2>3, PartIs
  <2> QED
    BY <2>2, <2>4
<1>6. StartOf(x, q)
  BY <1>5 DEF StartOf
<1>7. sent' = [sent EXCEPT ![s] = x]
  BY <1>3, <1>4
<1>8. UNCHANGED <<request, taken, ba, got, first>>
  BY DEF Send, recv
<1> QED
  BY <1>2, <1>5, <1>6, <1>7, <1>8 DEF Typed

\* The client sends a start of its packet and waits for the answer.
LEMMA ClientSendsStep ==
  ASSUME IInv, ClientSends
  PROVE  IInv'
<1> USE DEF IInv
<1>1. pc["client"] = "send" /\ Send("client", request) /\ Goto("client", "recv")
  BY DEF ClientSends
<1>2. request \in Messages /\ sent["client"] = <<>>
  BY <1>1 DEF Started
<1>3. "client" \in Sides /\ "server" \in Sides
  BY DEF Sides
<1>4. /\ pc'["client"] = "recv" /\ pc' \in [Sides -> ClientAt \cup ServerAt]
      /\ pc'["client"] \in ClientAt /\ pc'["server"] \in ServerAt /\ pc'["server"] = pc["server"]
  BY <1>1, <1>3, PcMoves DEF ClientAt
<1>5. /\ sent'["client"] \in Seq(Byte) /\ StartOf(sent'["client"], Packet(request))
      /\ sent' \in [Sides -> Seq(Byte)] /\ sent'["server"] = sent["server"]
      /\ UNCHANGED <<request, taken, ba, got, first>>
  BY <1>1, <1>2, <1>3, SendIs
<1>6. Typed' /\ Started'
  BY <1>2, <1>4, <1>5 DEF Typed, Started
<1>7. Streams'
  BY <1>1, <1>5 DEF Streams
<1>8. Client'
  <2>1. "send" \in Early /\ sent["server"] \in Seq(Byte)
    BY <1>3 DEF Early, Typed
  <2> QED
    BY <1>1, <1>4, <1>5, <2>1, SideStarts DEF Client
<1>9. Server'
  BY <1>2, <1>4, <1>5, SideSees DEF Server
<1> QED
  BY <1>6, <1>7, <1>8, <1>9

\* The server sends a start of the answer to the message it got.
LEMMA OnMessageStep ==
  ASSUME IInv, OnMessage
  PROVE  IInv'
<1> USE DEF IInv
<1>1. /\ pc["server"] = "onMessage" /\ Send("server", Answer[got["server"].msg.type])
      /\ Goto("server", "close")
  BY DEF OnMessage
<1>2. got["server"].msg = request /\ pc["client"] # "idle" /\ pc["client"] # "connect"
  BY <1>1 DEF Server, SideOK, Returned, Started
<1>3. request \in Messages /\ Answer[request.type] \in Messages /\ sent["server"] = <<>>
  BY <1>1, <1>2, RpcAssumption, MessageIs DEF Started, ServerAt
<1>4. "client" \in Sides /\ "server" \in Sides
  BY DEF Sides
<1>5. /\ pc'["server"] = "close" /\ pc' \in [Sides -> ClientAt \cup ServerAt]
      /\ pc'["client"] \in ClientAt /\ pc'["server"] \in ServerAt /\ pc'["client"] = pc["client"]
  BY <1>1, <1>4, PcMoves DEF ServerAt
<1>6. /\ sent'["server"] \in Seq(Byte) /\ StartOf(sent'["server"], Packet(Answer[request.type]))
      /\ sent' \in [Sides -> Seq(Byte)] /\ sent'["client"] = sent["client"]
      /\ UNCHANGED <<request, taken, ba, got, first>>
  BY <1>1, <1>2, <1>3, <1>4, SendIs
<1>7. Typed' /\ Started'
  BY <1>2, <1>5, <1>6 DEF Typed, Started
<1>8. Streams'
  BY <1>2, <1>6 DEF Streams
<1>9. Client'
  BY <1>3, <1>5, <1>6, SideSees DEF Client
<1>10. Server'
  <2>1. "onMessage" \notin Early \cup {"recv"}
    BY DEF Early
  <2> QED
    BY <1>1, <1>5, <1>6, <2>1, SideEnds DEF Server
<1> QED
  BY <1>7, <1>8, <1>9, <1>10


\* The server looks the handler up, or closes.
LEMMA LookupStep ==
  ASSUME IInv, Lookup
  PROVE  IInv'
<1> USE DEF IInv
<1>1. PICK at \in {"onMessage", "close"} :
        /\ pc["server"] = "lookup" /\ Goto("server", at)
        /\ UNCHANGED <<request, sent, taken, ba, got, first>>
  BY DEF Lookup, conn, recv
<1>2. /\ pc'["server"] = at /\ pc' \in [Sides -> ClientAt \cup ServerAt]
      /\ pc'["client"] \in ClientAt /\ pc'["server"] \in ServerAt /\ pc'["client"] = pc["client"]
  BY <1>1, PcMoves DEF Sides, ServerAt
<1>3. Typed' /\ Started' /\ Streams' /\ Client'
  BY <1>1, <1>2 DEF Typed, Started, Streams, Client, ServerAt
<1>4. Server'
  BY <1>1, <1>2 DEF Server, SideOK, Early
<1> QED
  BY <1>3, <1>4

\* A side closes its end.
LEMMA CloseStep ==
  ASSUME IInv, NEW s \in Sides, Close(s)
  PROVE  IInv'
<1> USE DEF IInv
<1>1. /\ pc[s] = "close" /\ Goto(s, "done")
      /\ UNCHANGED <<request, sent, taken, ba, got, first>>
  BY DEF Close, recv
<1>2. /\ pc'[s] = "done" /\ pc' \in [Sides -> ClientAt \cup ServerAt]
      /\ pc'["client"] \in ClientAt /\ pc'["server"] \in ServerAt
      /\ \A r \in Sides : r # s => pc'[r] = pc[r]
  BY <1>1, PcMoves DEF ClientAt, ServerAt
<1>3. "close" \notin Early \cup {"recv"}
  BY DEF Early
<1>4. CASE s = "client"
  <2>1. pc'["server"] = pc["server"]
    BY <1>2, <1>4 DEF Sides
  <2>2. Typed' /\ Started' /\ Streams' /\ Server'
    BY <1>1, <1>2, <1>4, <2>1 DEF Typed, Started, Streams, Server
  <2>3. Client'
    BY <1>1, <1>2, <1>3, <1>4, SideEnds DEF Client
  <2> QED
    BY <2>2, <2>3
<1>5. CASE s = "server"
  <2>1. pc'["client"] = pc["client"]
    BY <1>2, <1>5 DEF Sides
  <2>2. Typed' /\ Started' /\ Streams' /\ Client'
    BY <1>1, <1>2, <1>5, <2>1 DEF Typed, Started, Streams, Client
  <2>3. Server'
    BY <1>1, <1>2, <1>3, <1>5, SideEnds DEF Server
  <2> QED
    BY <2>2, <2>3
<1> QED
  BY <1>4, <1>5 DEF Sides

\* Lost connections, stray timeouts and new handlers touch neither stream nor array.
LEMMA EnvironmentStep ==
  ASSUME IInv, TimeoutAstray \/ Lose \/ \E t \in Types : registerRpcHandler(t)
  PROVE  IInv'
<1>1. UNCHANGED <<pc, request, sent, taken, ba, got, first>>
  BY DEF TimeoutAstray, Lose, registerRpcHandler, conn, recv
<1> QED
  BY <1>1 DEF IInv, Typed, Started, Streams, Client, Server

\* A receive that fails delivers no message.
LEMMA SideFails ==
  ASSUME NEW m \in Messages, NEW g, NEW b, NEW st, NEW t, NEW f \in Nat,
         SideOK("recv", g, b, st, t, f, m)
  PROVE  SideOK("close", Failed("kServerClosed"), New, st, t, f, m)
<1>1. Receiving(b, st, t, f, m)
  BY DEF SideOK
<1>2. PICK l \in Nat : l = Len(Packet(m)) /\ l > 0
  <2>1. PICK k \in Nat : k = BodyLen(m)
    BY MessageIs
  <2>2. Len(Packet(m)) = kHeaderLen + k
    BY <2>1, PacketIs DEF Layout
  <2>3. kHeaderLen + k \in Nat /\ kHeaderLen + k > 0
    BY HeaderIs
  <2> QED
    BY <2>2, <2>3
<1>3. f < l
  BY <1>1, <1>2 DEF Receiving
<1>4. Returned(Failed("kServerClosed"), f, m)
  BY <1>2, <1>3 DEF Returned, Failed
<1> QED
  BY <1>4 DEF SideOK, Early

\* The peer's close, a reset or the receive timeout ends a receive.
LEMMA ReceiveEndsStep ==
  ASSUME IInv, NEW s \in Sides, ReceiveEnds(s)
  PROVE  IInv'
<1> USE DEF IInv
<1>1. /\ pc[s] = "recv" /\ Goto(s, "close")
      /\ ba' = [ba EXCEPT ![s] = New] /\ got' = [got EXCEPT ![s] = Failed("kServerClosed")]
      /\ UNCHANGED <<request, sent, taken, first>>
  BY DEF ReceiveEnds, conn
<1>2. /\ pc'[s] = "close" /\ pc' \in [Sides -> ClientAt \cup ServerAt]
      /\ pc'["client"] \in ClientAt /\ pc'["server"] \in ServerAt
      /\ \A r \in Sides : r # s => pc'[r] = pc[r]
  BY <1>1, PcMoves DEF ClientAt, ServerAt
<1>3. /\ DOMAIN ba' = Sides /\ DOMAIN got' = Sides
      /\ ba'[s] = New /\ got'[s] = Failed("kServerClosed")
      /\ \A r \in Sides : r # s => ba'[r] = ba[r] /\ got'[r] = got[r]
  BY <1>1 DEF Typed
<1>4. pc["client"] # "idle"
  BY <1>1 DEF Started, Sides
<1>5. request \in Messages /\ Answer[request.type] \in Messages
  BY <1>4, RpcAssumption, MessageIs DEF Started
<1>6. first[s] \in Nat
  BY DEF Typed
<1>7. CASE s = "client"
  <2>1. "server" \in Sides /\ "server" # s
    BY <1>7 DEF Sides
  <2>2. Typed' /\ Started' /\ Streams' /\ Server'
    BY <1>1, <1>2, <1>3, <1>4, <1>7, <2>1 DEF Typed, Started, Streams, Server
  <2>3. Client'
    BY <1>1, <1>2, <1>3, <1>5, <1>6, <1>7, SideFails DEF Client
  <2> QED
    BY <2>2, <2>3
<1>8. CASE s = "server"
  <2>1. "client" \in Sides /\ "client" # s
    BY <1>8 DEF Sides
  <2>2. Typed' /\ Started' /\ Streams' /\ Client'
    BY <1>1, <1>2, <1>3, <1>4, <1>8, <2>1 DEF Typed, Started, Streams, Client, ServerAt
  <2>3. Server'
    BY <1>1, <1>2, <1>3, <1>5, <1>6, <1>8, SideFails DEF Server
  <2> QED
    BY <2>2, <2>3
<1> QED
  BY <1>7, <1>8 DEF Sides

\* What Receive does to its side, with the turn of the loop named.
Reading(s, n, c, g) ==
  /\ c = Read(ba[s], sent[Peer(s)], taken[s], n)
  /\ g = IF first[s] = 0 /\ LengthKnown(c) THEN taken[s] + n ELSE first[s]

\* A recv of n bytes and the turn behind it.
LEMMA ReceiveIs ==
  ASSUME Typed, NEW s \in Sides, NEW n \in 1 .. ReadMax, Receive(s, n), NEW c, NEW g, Reading(s, n, c, g)
  PROVE  /\ pc[s] = "recv" /\ taken[s] + n <= Len(sent[Peer(s)])
         /\ ba' = [ba EXCEPT ![s] = IF Turn(c).res.err = "more" THEN Turn(c).ba ELSE New]
         /\ first' = [first EXCEPT ![s] = g]
         /\ IF Turn(c).res.err = "more"
              THEN UNCHANGED <<pc, got>>
              ELSE got' = [got EXCEPT ![s] = Turn(c).res] /\ Goto(s, After(s, Turn(c).res))
         /\ taken' = [taken EXCEPT ![s] = taken[s] + n]
         /\ UNCHANGED <<request, sent>>
<1>1. pc[s] = "recv" /\ n <= Here(s) /\ UNCHANGED <<request, sent>>
  BY DEF Receive, conn
<1>2. c = Filled(getWriteArea(ba[s], ReadMax), SubSeq(sent[Peer(s)], taken[s] + 1, taken[s] + n))
  BY DEF Reading, Read
<1>3. PICK t : t = Turn(c)
  OBVIOUS
<1>4. /\ ba' = [ba EXCEPT ![s] = IF t.res.err = "more" THEN t.ba ELSE New]
      /\ first' = IF first[s] = 0 /\ LengthKnown(c)
                    THEN [first EXCEPT ![s] = taken[s] + n] ELSE first
      /\ IF t.res.err = "more"
           THEN UNCHANGED <<pc, got>>
           ELSE got' = [got EXCEPT ![s] = t.res] /\ Goto(s, After(s, t.res))
      /\ taken' = [taken EXCEPT ![s] = @ + n]
  BY <1>2, <1>3 DEF Receive
<1>5. first' = [first EXCEPT ![s] = g]
  BY <1>4 DEF Reading, Typed
<1>6. taken[s] + n <= Len(sent[Peer(s)])
  <2>1. Peer(s) \in Sides
    BY PeerIs DEF Sides
  <2>2. taken[s] \in Nat /\ sent[Peer(s)] \in Seq(Byte) /\ n \in Nat
    BY <2>1, RpcAssumption DEF Typed
  <2>3. Len(sent[Peer(s)]) \in Nat
    BY <2>2, LenProperties
  <2> QED
    BY <1>1, <2>2, <2>3 DEF Here
<1> QED
  BY <1>1, <1>3, <1>4, <1>5, <1>6

\* A side after a read: it reads on, or it has a result.
LEMMA SideReads ==
  ASSUME NEW m \in Messages, NEW g, NEW b, NEW st, StartOf(st, Packet(m)), NEW t \in Nat,
         NEW f \in Nat, SideOK("recv", g, b, st, t, f, m),
         NEW n \in 1 .. ReadMax, t + n <= Len(st), NEW c, c = Read(b, st, t, n),
         NEW f2, f2 = IF f = 0 /\ LengthKnown(c) THEN t + n ELSE f
  PROVE  /\ f2 \in Nat
         /\ Turn(c).res.err = "more" => SideOK("recv", g, Turn(c).ba, st, t + n, f2, m)
         /\ Turn(c).res.err # "more" =>
              /\ SideOK("close", Turn(c).res, New, st, t + n, f2, m)
              /\ Turn(c).res.err = "kNoError" => SideOK("lookup", Turn(c).res, New, st, t + n, f2, m)
<1>1. Receiving(b, st, t, f, m) /\ g = Nothing
  BY DEF SideOK
<1>2. PICK r : r = Turn(c)
  OBVIOUS
<1>3. /\ f2 \in Nat
      /\ r.res.err = "more" => Receiving(r.ba, st, t + n, f2, m)
      /\ r.res.err # "more" => r.res # Nothing /\ Returned(r.res, f2, m)
  BY <1>1, <1>2, ReceiveTurn
<1>4. r.res.err = "more" => SideOK("recv", g, r.ba, st, t + n, f2, m)
  BY <1>1, <1>3 DEF SideOK, Early
<1>5. r.res.err # "more" => SideOK("close", r.res, New, st, t + n, f2, m)
  BY <1>3 DEF SideOK, Early
<1>6. r.res.err # "more" /\ r.res.err = "kNoError" => SideOK("lookup", r.res, New, st, t + n, f2, m)
  BY <1>3 DEF SideOK, Early
<1> QED
  BY <1>2, <1>3, <1>4, <1>5, <1>6


\* A turn of the client, which is to get the answer to its request.
LEMMA ClientReceives ==
  ASSUME IInv, NEW n \in 1 .. ReadMax, Receive("client", n)
  PROVE  IInv'
<1> USE DEF IInv
<1>1. PICK c : c = Read(ba["client"], sent["server"], taken["client"], n)
  OBVIOUS
<1>2. PICK g : g = IF first["client"] = 0 /\ LengthKnown(c) THEN taken["client"] + n ELSE first["client"]
  OBVIOUS
<1>3. "client" \in Sides /\ "server" \in Sides /\ Reading("client", n, c, g)
  BY <1>1, <1>2, PeerIs DEF Reading, Sides
<1>4. PICK r : r = Turn(c)
  OBVIOUS
<1>5. /\ pc["client"] = "recv" /\ taken["client"] + n <= Len(sent["server"])
      /\ ba' = [ba EXCEPT !["client"] = IF r.res.err = "more" THEN r.ba ELSE New]
      /\ first' = [first EXCEPT !["client"] = g]
      /\ IF r.res.err = "more"
           THEN UNCHANGED <<pc, got>>
           ELSE got' = [got EXCEPT !["client"] = r.res] /\ Goto("client", "close")
      /\ taken' = [taken EXCEPT !["client"] = taken["client"] + n]
      /\ UNCHANGED <<request, sent>>
  <2>1. After("client", r.res) = "close"
    BY DEF After
  <2> QED
    BY <1>3, <1>4, <2>1, ReceiveIs, PeerIs
<1>6. pc["client"] # "idle" /\ request \in Messages /\ Answer[request.type] \in Messages
  BY <1>5, RpcAssumption, MessageIs DEF Started
<1>7. taken["client"] \in Nat /\ first["client"] \in Nat /\ n \in Nat
  BY <1>3, RpcAssumption DEF Typed
<1>8. /\ g \in Nat
      /\ r.res.err = "more" => SideOK("recv", got["client"], r.ba, sent["server"],
                                      taken["client"] + n, g, Answer[request.type])
      /\ r.res.err # "more" => SideOK("close", r.res, New, sent["server"],
                                      taken["client"] + n, g, Answer[request.type])
  <2>1. PICK st : st = sent["server"] /\ StartOf(st, Packet(Answer[request.type]))
    BY <1>6 DEF Streams
  <2>2. PICK t \in Nat : t = taken["client"]
    BY <1>7
  <2>3. PICK f \in Nat : f = first["client"]
    BY <1>7
  <2>4. PICK m \in Messages : m = Answer[request.type]
    BY <1>6
  <2>5. SideOK("recv", got["client"], ba["client"], st, t, f, m)
    BY <1>5, <2>1, <2>2, <2>3, <2>4 DEF Client
  <2>6. /\ t + n <= Len(st) /\ c = Read(ba["client"], st, t, n) /\ StartOf(st, Packet(m))
        /\ g = IF f = 0 /\ LengthKnown(c) THEN t + n ELSE f
    BY <1>1, <1>2, <1>5, <2>1, <2>2, <2>3, <2>4
  <2>7. /\ g \in Nat
        /\ r.res.err = "more" => SideOK("recv", got["client"], r.ba, st, t + n, g, m)
        /\ r.res.err # "more" => SideOK("close", r.res, New, st, t + n, g, m)
    BY <1>4, <2>5, <2>6, SideReads
  <2> QED
    BY <2>1, <2>2, <2>4, <2>7
<1>9. /\ first' \in [Sides -> Nat] /\ taken' \in [Sides -> Nat] /\ DOMAIN ba' = Sides
      /\ first'["client"] = g /\ taken'["client"] = taken["client"] + n
      /\ ba'["client"] = IF r.res.err = "more" THEN r.ba ELSE New
      /\ first'["server"] = first["server"] /\ taken'["server"] = taken["server"]
      /\ ba'["server"] = ba["server"]
  BY <1>3, <1>5, <1>7, <1>8 DEF Typed
<1>10. CASE r.res.err = "more"
  <2>1. UNCHANGED <<pc, got>>
    BY <1>5, <1>10
  <2>2. Typed' /\ Started' /\ Streams' /\ Server'
    BY <1>5, <1>9, <2>1 DEF Typed, Started, Streams, Server
  <2>3. Client'
    BY <1>5, <1>8, <1>9, <1>10, <2>1 DEF Client
  <2> QED
    BY <2>2, <2>3
<1>11. CASE r.res.err # "more"
  <2>1. got' = [got EXCEPT !["client"] = r.res] /\ Goto("client", "close")
    BY <1>5, <1>11
  <2>2. /\ pc'["client"] = "close" /\ pc' \in [Sides -> ClientAt \cup ServerAt]
        /\ pc'["client"] \in ClientAt /\ pc'["server"] \in ServerAt /\ pc'["server"] = pc["server"]
    BY <1>3, <2>1, PcMoves DEF ClientAt
  <2>3. DOMAIN got' = Sides /\ got'["client"] = r.res /\ got'["server"] = got["server"]
    BY <1>3, <2>1 DEF Typed
  <2>4. Typed' /\ Started' /\ Streams' /\ Server'
    BY <1>5, <1>6, <1>9, <2>2, <2>3 DEF Typed, Started, Streams, Server
  <2>5. Client'
    BY <1>5, <1>8, <1>9, <1>11, <2>2, <2>3 DEF Client
  <2> QED
    BY <2>4, <2>5
<1> QED
  BY <1>10, <1>11

\* A turn of the server, which is to get the request.
LEMMA ServerReceives ==
  ASSUME IInv, NEW n \in 1 .. ReadMax, Receive("server", n)
  PROVE  IInv'
<1> USE DEF IInv
<1>1. PICK c : c = Read(ba["server"], sent["client"], taken["server"], n)
  OBVIOUS
<1>2. PICK g : g = IF first["server"] = 0 /\ LengthKnown(c) THEN taken["server"] + n ELSE first["server"]
  OBVIOUS
<1>3. "client" \in Sides /\ "server" \in Sides /\ Reading("server", n, c, g)
  BY <1>1, <1>2, PeerIs DEF Reading, Sides
<1>4. PICK r : r = Turn(c)
  OBVIOUS
<1>12. PICK at \in {"lookup", "close"} : at = After("server", r.res) /\ (at = "lookup" => r.res.err = "kNoError")
  BY DEF After
<1>5. /\ pc["server"] = "recv" /\ taken["server"] + n <= Len(sent["client"])
      /\ ba' = [ba EXCEPT !["server"] = IF r.res.err = "more" THEN r.ba ELSE New]
      /\ first' = [first EXCEPT !["server"] = g]
      /\ IF r.res.err = "more"
           THEN UNCHANGED <<pc, got>>
           ELSE got' = [got EXCEPT !["server"] = r.res] /\ Goto("server", at)
      /\ taken' = [taken EXCEPT !["server"] = taken["server"] + n]
      /\ UNCHANGED <<request, sent>>
  BY <1>3, <1>4, <1>12, ReceiveIs, PeerIs
<1>6. pc["client"] # "idle" /\ request \in Messages
  BY <1>5 DEF Started
<1>7. taken["server"] \in Nat /\ first["server"] \in Nat /\ n \in Nat
  BY <1>3, RpcAssumption DEF Typed
<1>8. /\ g \in Nat
      /\ r.res.err = "more" => SideOK("recv", got["server"], r.ba, sent["client"],
                                      taken["server"] + n, g, request)
      /\ r.res.err # "more" => SideOK(at, r.res, New, sent["client"],
                                      taken["server"] + n, g, request)
  <2>1. PICK st : st = sent["client"] /\ StartOf(st, Packet(request))
    BY <1>6 DEF Streams
  <2>2. PICK t \in Nat : t = taken["server"]
    BY <1>7
  <2>3. PICK f \in Nat : f = first["server"]
    BY <1>7
  <2>4. PICK m \in Messages : m = request
    BY <1>6
  <2>5. SideOK("recv", got["server"], ba["server"], st, t, f, m)
    BY <1>5, <2>1, <2>2, <2>3, <2>4 DEF Server
  <2>6. /\ t + n <= Len(st) /\ c = Read(ba["server"], st, t, n) /\ StartOf(st, Packet(m))
        /\ g = IF f = 0 /\ LengthKnown(c) THEN t + n ELSE f
    BY <1>1, <1>2, <1>5, <2>1, <2>2, <2>3, <2>4
  <2>7. /\ g \in Nat
        /\ r.res.err = "more" => SideOK("recv", got["server"], r.ba, st, t + n, g, m)
        /\ r.res.err # "more" =>
             /\ SideOK("close", r.res, New, st, t + n, g, m)
             /\ r.res.err = "kNoError" => SideOK("lookup", r.res, New, st, t + n, g, m)
    BY <1>4, <2>5, <2>6, SideReads
  <2>8. r.res.err # "more" => SideOK(at, r.res, New, st, t + n, g, m)
    BY <1>12, <2>7
  <2> QED
    BY <2>1, <2>2, <2>4, <2>7, <2>8
<1>9. /\ first' \in [Sides -> Nat] /\ taken' \in [Sides -> Nat] /\ DOMAIN ba' = Sides
      /\ first'["server"] = g /\ taken'["server"] = taken["server"] + n
      /\ ba'["server"] = IF r.res.err = "more" THEN r.ba ELSE New
      /\ first'["client"] = first["client"] /\ taken'["client"] = taken["client"]
      /\ ba'["client"] = ba["client"]
  BY <1>3, <1>5, <1>7, <1>8 DEF Typed
<1>10. CASE r.res.err = "more"
  <2>1. UNCHANGED <<pc, got>>
    BY <1>5, <1>10
  <2>2. Typed' /\ Started' /\ Streams' /\ Client'
    BY <1>5, <1>9, <2>1 DEF Typed, Started, Streams, Client
  <2>3. Server'
    BY <1>5, <1>8, <1>9, <1>10, <2>1 DEF Server
  <2> QED
    BY <2>2, <2>3
<1>11. CASE r.res.err # "more"
  <2>1. got' = [got EXCEPT !["server"] = r.res] /\ Goto("server", at)
    BY <1>5, <1>11
  <2>2. /\ pc'["server"] = at /\ pc' \in [Sides -> ClientAt \cup ServerAt]
        /\ pc'["client"] \in ClientAt /\ pc'["server"] \in ServerAt /\ pc'["client"] = pc["client"]
    BY <1>3, <2>1, PcMoves DEF ServerAt
  <2>3. DOMAIN got' = Sides /\ got'["server"] = r.res /\ got'["client"] = got["client"]
    BY <1>3, <2>1 DEF Typed
  <2>4. Typed' /\ Started' /\ Streams' /\ Client'
    BY <1>5, <1>6, <1>9, <2>2, <2>3 DEF Typed, Started, Streams, Client, ServerAt
  <2>5. Server'
    BY <1>5, <1>8, <1>9, <1>11, <2>2, <2>3 DEF Server
  <2> QED
    BY <2>4, <2>5
<1> QED
  BY <1>10, <1>11

\* Every step of client, server and network.
LEMMA NextInv == IInv /\ [Next]_vars => IInv'
<1> SUFFICES ASSUME IInv, [Next]_vars PROVE IInv'
  OBVIOUS
<1>1. CASE UNCHANGED vars
  BY <1>1 DEF vars, conn, recv, IInv, Typed, Started, Streams, Client, Server
<1>2. ASSUME NEW s \in Sides, ReceiveStep(s) PROVE IInv'
  <2>1. CASE ReceiveEnds(s)
    BY <2>1, ReceiveEndsStep
  <2>2. ASSUME NEW n \in 1 .. ReadMax, Receive(s, n) PROVE IInv'
    BY <2>2, ClientReceives, ServerReceives DEF Sides
  <2> QED
    BY <1>2, <2>1, <2>2 DEF ReceiveStep
<1>3. CASE ClientStep
  <2>1. "client" \in Sides
    BY DEF Sides
  <2> QED
    BY <1>2, <1>3, <2>1, ConnectStep, ClientSendsStep, CloseStep DEF ClientStep
<1>4. CASE ServerStep
  <2>1. "server" \in Sides
    BY DEF Sides
  <2> QED
    BY <1>2, <1>4, <2>1, AcceptStep, LookupStep, OnMessageStep, CloseStep DEF ServerStep
<1>5. CASE TimeoutAstray \/ Lose \/ \E t \in Types : registerRpcHandler(t)
  BY <1>5, EnvironmentStep
<1>6. CASE \E m \in Messages : Call(m)
  BY <1>6, CallStep
<1> QED
  BY <1>1, <1>3, <1>4, <1>5, <1>6 DEF Next

\* The invariant holds always.
THEOREM Invariance == Spec => []IInv
<1>1. Init => IInv
  BY InitInv
<1>2. IInv /\ [Next]_vars => IInv'
  BY NextInv
<1> QED
  BY <1>1, <1>2, PTL DEF Spec

\* While a side receives, its array holds the last bytes it took.
LEMMA ReceivingIsExact ==
  ASSUME NEW b, NEW stream \in Seq(Byte), NEW t, NEW f, NEW m, Receiving(b, stream, t, f, m)
  PROVE  Sound(b) /\ Readable(b) = SubSeq(stream, t - getReadSize(b) + 1, t)
<1>1. PICK at \in {0, kHeaderLen, 2 * kHeaderLen} : Shows(b, stream, at) /\ at + getReadSize(b) = t
  BY DEF Receiving
<1>2. at \in Nat
  BY HeaderIs
<1>3. PICK k \in Nat : k = getReadSize(b)
  BY <1>1, ReadSizeIs DEF Shows
<1>4. Array(b) /\ Sound(b)
  BY <1>1 DEF Shows, Array
<1>5. Readable(b) \in Seq(Int) /\ Len(Readable(b)) = k /\ \A i \in 1 .. k : Readable(b)[i] = Unread(b, i)
  BY <1>3, <1>4, ReadableIs
<1>6. PICK e \in Nat : e = at + k
  BY <1>2
<1>7. PICK x : x = SubSeq(stream, at + 1, e)
  OBVIOUS
<1>8. x \in Seq(Byte) /\ Len(x) = k /\ \A i \in 1 .. k : x[i] = stream[at + i]
  <2>1. at <= e /\ e <= Len(stream) /\ e - at = k
    BY <1>1, <1>2, <1>3, <1>6 DEF Shows
  <2>2. x \in Seq(Byte) /\ Len(x) = e - at /\ \A i \in 1 .. e - at : x[i] = stream[at + i]
    BY <1>2, <1>7, <2>1, PartIs
  <2> QED
    BY <2>1, <2>2
<1>9. x \in Seq(Int)
  <2>1. x \in Seq(Byte) /\ Byte \subseteq Int
    BY <1>8, HeaderIs
  <2> QED
    BY <2>1, SeqMonotonic
<1>10. \A i \in 1 .. k : Readable(b)[i] = x[i]
  BY <1>1, <1>3, <1>5, <1>8 DEF Shows
<1>11. Readable(b) = x
  BY <1>5, <1>8, <1>9, <1>10, SeqEqual
<1>12. t - getReadSize(b) + 1 = at + 1 /\ t = e
  BY <1>1, <1>2, <1>3, <1>6
<1> QED
  BY <1>4, <1>7, <1>11, <1>12

\* However the stream is cut, and whenever addCapacity grows the array or moves its
\* bytes, receive() holds the last bytes of the stream in order, behind the room for
\* a length: for any sizes of the array, of a read and of the messages.
THEOREM BufferAlwaysExact == Spec => []BufferExact
<1>1. IInv => BufferExact
  <2> SUFFICES ASSUME IInv, NEW s \in Sides
               PROVE  /\ Sound(ba[s])
                      /\ pc[s] = "recv" =>
                           Readable(ba[s]) = SubSeq(sent[Peer(s)], taken[s] - getReadSize(ba[s]) + 1, taken[s])
    BY DEF BufferExact
  <2>1. sent[Peer(s)] \in Seq(Byte)
    BY PeerIs DEF IInv, Typed, Sides
  <2>2. CASE pc[s] # "recv"
    <3>1. ba[s] = New
      BY <2>2 DEF IInv, Client, Server, SideOK, Sides
    <3> QED
      BY <2>2, <3>1, NewIs DEF Array
  <2>3. CASE pc[s] = "recv"
    <3>1. \E f, m : Receiving(ba[s], sent[Peer(s)], taken[s], f, m)
      <4>1. CASE s = "client"
        BY <2>3, <4>1, PeerIs DEF IInv, Client, SideOK
      <4>2. CASE s = "server"
        BY <2>3, <4>2, PeerIs DEF IInv, Server, SideOK
      <4> QED
        BY <4>1, <4>2 DEF Sides
    <3> QED
      BY <2>1, <2>3, <3>1, ReceivingIsExact
  <2> QED
    BY <2>2, <2>3
<1> QED
  BY <1>1, Invariance, PTL

\* receive() never returns a message that was not sent, although after an incomplete
\* first look it takes the name's length, and then the name, for the length of the
\* message; and the client never gets an answer to anything but its request.
THEOREM OnlyTheRightMessage == Spec => []RightMessage
<1>1. IInv => RightMessage
  <2> SUFFICES ASSUME IInv, NEW s \in Sides, got[s].err = "kNoError" PROVE got[s].msg = Expected(s)
    BY DEF RightMessage
  <2>1. got[s] # Nothing
    BY DEF Nothing, Failed
  <2>2. Returned(got[s], first[s], Expected(s))
    <3>1. CASE s = "client"
      BY <2>1, <3>1 DEF IInv, Client, SideOK, Expected
    <3>2. CASE s = "server"
      BY <2>1, <3>2 DEF IInv, Server, SideOK, Expected
    <3> QED
      BY <3>1, <3>2 DEF Sides
  <2> QED
    BY <2>2 DEF Returned
<1> QED
  BY <1>1, Invariance, PTL

\* When no message is longer than kMaxMessageLen, receive() succeeds exactly when the
\* whole packet was there at its first look at the length.  (send() does not test the
\* bound; a longer message is refused, whole or not.)
THEOREM ReceivedExactly ==
  ASSUME \A m \in Messages : BodyLen(m) <= kMaxMessageLen
  PROVE  Spec => []ReceivedIffWhole
<1>1. IInv => ReceivedIffWhole
  <2> SUFFICES ASSUME IInv, NEW s \in Sides, got[s] # Nothing
               PROVE  got[s].err = "kNoError" <=> first[s] >= Len(Packet(Expected(s)))
    BY DEF ReceivedIffWhole
  <2>1. pc["client"] # "idle"
    BY DEF IInv, Started, Client, Server, SideOK, Early, Sides
  <2>2. PICK m \in Messages : m = Expected(s)
    <3>1. request \in Messages
      BY <2>1 DEF IInv, Started
    <3>2. Answer[request.type] \in Messages
      BY <3>1, RpcAssumption, MessageIs
    <3> QED
      BY <3>1, <3>2 DEF Expected
  <2>3. Returned(got[s], first[s], m)
    <3>1. CASE s = "client"
      BY <2>2, <3>1 DEF IInv, Client, SideOK, Expected
    <3>2. CASE s = "server"
      BY <2>2, <3>2 DEF IInv, Server, SideOK, Expected
    <3> QED
      BY <3>1, <3>2 DEF Sides
  <2>4. ~(BodyLen(m) > kMaxMessageLen)
    <3>1. BodyLen(m) \in Nat /\ kMaxMessageLen \in Nat
      BY MessageIs, CodecAssumption
    <3> QED
      BY <3>1
  <2>5. first[s] \in Nat /\ Len(Packet(m)) \in Nat
    BY PacketIs, LenProperties DEF IInv, Typed, Layout
  <2> QED
    BY <2>2, <2>3, <2>4, <2>5 DEF Returned
<1> QED
  BY <1>1, Invariance, PTL
=============================================================================
