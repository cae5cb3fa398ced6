----------------------------- MODULE ByteArray ------------------------------
(***************************************************************************)
(* ByteArray (bytearray.h, bytearray.cc): a growing buffer with a read and *)
(* a write position and kCheapPrepend bytes kept free in front for a       *)
(* length.  An array is a record, each method an operator from the array   *)
(* before the call to the array after it.  buf_[i] is buf[i + 1].          *)
(***************************************************************************)
EXTENDS Integers, Sequences

CONSTANTS
  kCheapPrepend, \* room in front
  kInitSize,     \* initial room for data
  Base           \* values of a byte: 0 .. Base - 1

ASSUME ByteArrayAssumption ==
  /\ kCheapPrepend \in Nat /\ kInitSize \in Nat
  /\ Base \in Nat /\ Base > 1

New ==
  [readPos |-> kCheapPrepend, writePos |-> kCheapPrepend,
   buf |-> [i \in 1 .. kCheapPrepend + kInitSize |-> 0]]

getReadSize(b)  == b.writePos - b.readPos
getWriteSize(b) == Len(b.buf) - b.writePos

\* The bytes from peek() on, up to the write position.
Readable(b) == SubSeq(b.buf, b.readPos + 1, b.writePos)

\* vector::resize, which fills with zero bytes.
Resized(s, n) ==
  IF n <= Len(s) THEN SubSeq(s, 1, n) ELSE s \o [i \in 1 .. n - Len(s) |-> 0]

\* memcpy and std::copy of bytes to position at.
CopiedTo(s, at, bytes) ==
  SubSeq(s, 1, at) \o bytes \o SubSeq(s, at + Len(bytes) + 1, Len(s))

\* Does addCapacity have to grow the vector?
MustGrow(b, n) == getWriteSize(b) + b.readPos < n + kCheapPrepend

\* Mutant of addCapacity: a larger vector, but empty.
addCapacityFresh(b, n) ==
  IF MustGrow(b, n)
    THEN [b EXCEPT !.buf = [i \in 1 .. b.writePos + n |-> 0]]
    ELSE [b EXCEPT !.buf = CopiedTo(@, kCheapPrepend, Readable(b)),
                   !.readPos = kCheapPrepend,
                   !.writePos = kCheapPrepend + getReadSize(b)]

\* Room for n more bytes: the vector grows, or what is unread moves to the
\* front.  The code asserts kCheapPrepend <= readPos_ before it moves.
addCapacity(b, n) ==
  IF MustGrow(b, n)
    THEN [b EXCEPT !.buf = Resized(@, b.writePos + n)]
    ELSE [b EXCEPT !.buf = CopiedTo(@, kCheapPrepend, Readable(b)),
                   !.readPos = kCheapPrepend,
                   !.writePos = kCheapPrepend + getReadSize(b)]

\* The bytes go where getWriteArea said, then setWritePos.
Filled(b, bytes) ==
  [b EXCEPT !.buf = CopiedTo(@, b.writePos, bytes), !.writePos = @ + Len(bytes)]

write(b, bytes) ==
  IF bytes = <<>> THEN b ELSE Filled(addCapacity(b, Len(bytes)), bytes)

getWriteArea(b, n) == addCapacity(b, n)

\* read() throws unless n bytes are there, which Codec tests before it takes them.
Taken(b, n)   == SubSeq(b.buf, b.readPos + 1, b.readPos + n)
Skip(b, n)    == [b EXCEPT !.readPos = @ + n]

\* The code asserts Len(bytes) <= readPos_.
writePrepend(b, bytes) ==
  [b EXCEPT !.readPos = @ - Len(bytes),
            !.buf = CopiedTo(@, b.readPos - Len(bytes), bytes)]

reset(b) == [readPos |-> 0, writePos |-> 0, buf |-> Resized(b.buf, kInitSize)]

-----------------------------------------------------------------------------
(* Integers of w bytes, most significant byte first whatever the host: the *)
(* value is swapped when the host's byte order is not endian_.             *)

Power[n \in Nat] == IF n = 0 THEN 1 ELSE Base * Power[n - 1]

IntBytes(v, w) == [i \in 1 .. w |-> (v \div Power[w - i]) % Base]

Unsigned(bytes) ==
  LET val[n \in 0 .. Len(bytes)] == IF n = 0 THEN 0 ELSE val[n - 1] * Base + bytes[n]
  IN val[Len(bytes)]

\* Two's complement.
IntValue(bytes) ==
  LET v == Unsigned(bytes) IN
  IF 2 * v < Power[Len(bytes)] THEN v ELSE v - Power[Len(bytes)]

writeInt(b, v, w) == write(b, IntBytes(v, w))
readInt(b, w)     == IntValue(Taken(b, w))

\* What holds of an array between calls, as long as nobody calls reset() or
\* writes behind a prepended length.
Sound(b) ==
  /\ b.readPos >= kCheapPrepend
  /\ b.readPos <= b.writePos
  /\ b.writePos <= Len(b.buf)
=============================================================================
