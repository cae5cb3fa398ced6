------------------------------- MODULE Codec --------------------------------
(***************************************************************************)
(* ProtobufCodec (rpc/codec.h, rpc/codec.cc): what send() puts on the      *)
(* stream for a message and what one turn of receive() makes of the bytes  *)
(* it has.  A packet is                                                    *)
(*     len | nameLen | name NUL | payload                                  *)
(* where len counts everything behind itself.  A message is its type and   *)
(* its serialized payload; protobuf itself is external.                    *)
(***************************************************************************)
EXTENDS ByteArray, FiniteSets

CONSTANTS
  kHeaderLen,     \* sizeof(int32_t)
  kMaxMessageLen, \* bound on len
  Types,          \* message types known to protobuf
  NameOf,         \* their names, as bytes, without the NUL
  Payloads,       \* payloads that parse
  NoMsg           \* nullptr

kMinMessageLen == kHeaderLen + 2

Messages == [type : Types, payload : Payloads]

NameLen(m) == Len(NameOf[m.type]) + 1

\* A name is not empty, holds no NUL and names one type, and what its first bytes
\* look like as a length is more than a message may have: letters are 0x41 and up,
\* and kMaxMessageLen is 0x04000000.  protobuf serializes no message of 2 GB, so
\* lengths are int32_t.
ASSUME CodecAssumption ==
  /\ kHeaderLen \in 1 .. kCheapPrepend /\ kMaxMessageLen \in Nat
  /\ NameOf \in [Types -> Seq(1 .. Base - 1)]
  /\ \A t \in Types :
       /\ NameOf[t] # <<>>
       /\ \A i \in DOMAIN NameOf[t] :
            NameOf[t][i] * Power[kHeaderLen - 1] > kMaxMessageLen
  /\ \A t, u \in Types : NameOf[t] = NameOf[u] => t = u
  /\ \A p \in Payloads : p \in Seq(0 .. Base - 1)
  /\ \A m \in Messages :
       2 * (kHeaderLen + NameLen(m) + Len(m.payload)) < Power[kHeaderLen]
  /\ NoMsg \notin Messages

\* Mutant of Body: the NUL is not written.
BodyNoNul(m) ==
  LET named == write(writeInt(New, NameLen(m), kHeaderLen), NameOf[m.type])
  IN Filled(getWriteArea(named, Len(m.payload)), m.payload)

\* Name length, name and payload, as serializeToByteArray writes them.
Body(m) ==
  LET named == write(writeInt(New, NameLen(m), kHeaderLen), NameOf[m.type])
      ended == write(named, <<0>>)
  IN Filled(getWriteArea(ended, Len(m.payload)), m.payload)

\* The whole packet: the length goes in front.
serializeToByteArray(m) ==
  writePrepend(Body(m), IntBytes(getReadSize(Body(m)), kHeaderLen))

\* CreateMessage: the type of that name, if there is one.
CreateMessage(name) == {t \in Types : NameOf[t] = name}

Failed(code) == [err |-> code, msg |-> NoMsg]

\* Mutant of PayloadLen: the NUL is counted twice.
PayloadLenNul(len, nameLen) == len - kHeaderLen - nameLen - 1

PayloadLen(len, nameLen) == len - kHeaderLen - nameLen

\* Parse, when len bytes are there.
Parse(b, len) ==
  LET nameLen == readInt(b, kHeaderLen)
      b1      == Skip(b, kHeaderLen)
      name    == Taken(b1, nameLen - 1)
      b2      == Skip(b1, nameLen - 1)
      payload == Taken(Skip(b2, 1), PayloadLen(len, nameLen))
      types   == CreateMessage(name)
  IN IF nameLen < 2 \/ nameLen > len - kHeaderLen THEN Failed("kInvalidNameLength")
     ELSE IF Taken(b2, 1) # <<0>> THEN Failed("kParseError")
     ELSE IF types = {} THEN Failed("kUnknownMessageType")
     ELSE IF payload \notin Payloads THEN Failed("kParseError")
     ELSE [err |-> "kNoError",
           msg |-> [type |-> CHOOSE t \in types : TRUE, payload |-> payload]]

\* More bytes than a header and the shortest message: the length is read.
LengthKnown(b) == getReadSize(b) > kHeaderLen + kMinMessageLen

More(b) == [ba |-> b, res |-> [err |-> "more", msg |-> NoMsg]]

\* One turn of the loop in receive(), after the read.  The length is taken out of
\* the array each time it is looked at, also when the message is not complete.
Turn(b) ==
  IF ~LengthKnown(b) THEN More(b)
  ELSE LET len  == readInt(b, kHeaderLen)
           rest == Skip(b, kHeaderLen)
       IN IF len > kMaxMessageLen \/ len < kMinMessageLen
            THEN [ba |-> rest, res |-> Failed("kInvalidLength")]
          ELSE IF getReadSize(rest) >= len
            THEN [ba |-> rest, res |-> Parse(rest, len)]
          ELSE More(rest)
=============================================================================
