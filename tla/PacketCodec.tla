----------------------------- MODULE PacketCodec -----------------------------
(***************************************************************************)
(* SerializePacket and the visitors it sends over a packet, and the reader *)
(* at the other end.  A packet's Serialize is one sequence of visits for   *)
(* three visitors: CPacketSizeCalc computes the size, CPacketWriter writes *)
(* as many bytes, CPacketReader reads them back.  Nothing but convention   *)
(* makes the three agree: each has its own loop over the segments of a     *)
(* VarInt, signed in one and unsigned in another, and its own treatment of *)
(* strings that are too long.                                              *)
(*                                                                         *)
(* Integers are two's complement with Word values; a VarInt has Segments   *)
(* segments, of which the last holds only Top values.  In the code Base is *)
(* 128, Segments 5 and Top 16, which makes 32 bits.                        *)
(***************************************************************************)
EXTENDS Numerals

CONSTANTS
    Base, Segments, Top,    \* SEGMENT_BITS + 1 and the width of an int
    MaxAddress, MaxName, MaxServerId, MaxString,    \* limits of the strings
    MaxLen                  \* bound: the longest string there may be

ASSUME WidthAssumption ==
    /\ Base \in Nat /\ Segments \in Nat /\ Top \in Nat
    /\ Base > 1 /\ Segments > 1 /\ Top \in 2..Base

VARIABLES
    packet,     \* the packet: its id and its fields
    pass,       \* which visitor is at work
    visits,     \* what it has still to visit
    rest,       \* the integer of a VarInt loop, Idle outside of one
    count,      \* that loop's local size, or its position in segments
    size,       \* CPacketSizeCalc::m_currentSize
    lengthSize, \* m_packetLengthSize
    success,    \* m_success
    packetSize, \* IPacket::m_packetSize
    data,       \* what the writer has written
    at,         \* how many of these bytes the reader has read
    got         \* the values it has read

sizeVars == <<size, lengthSize, success, packetSize>>
vars == <<packet, pass, visits, rest, count, sizeVars, data, at, got>>

Word == Power(Base, Segments - 1) * Top
Int32 == -(Word \div 2) .. (Word \div 2) - 1
Signed(u) == IF u % Word < Word \div 2 THEN u % Word ELSE (u % Word) - Word
Idle == Word

(* The limits are numbers, and the size of a packet is an int.             *)
ASSUME LengthAssumption ==
    /\ {MaxAddress, MaxName, MaxServerId, MaxString} \subseteq Nat \ {0}
    /\ MaxLen \in Nat /\ 4 * Segments + 2 * MaxLen + 16 < Word \div 2

(* A visit is of an integer n, or of so many bytes; max is what a visitor  *)
(* is told of a string's limit.  A string is the VarInt of its length,     *)
(* then its body.                                                          *)
Visit(kind, n, max) == [kind |-> kind, n |-> n, max |-> max]
VarInt(v) == Visit("varint", v, Word)
Fixed(n) == Visit("fixed", n, n)    \* OnShort, OnUInt8, OnULong
Uuid == Visit("uuid", 16, 16)
String(n, max) == <<Visit("varint", n, max), Visit("body", n, max)>>
TooLong(f) == f.n > f.max

(* The packets that are serialized, with every length a string may have.   *)
Packet ==
    [id : {0},
     fields : {<<VarInt(v)>> \o String(n, MaxAddress) \o <<Fixed(2), Fixed(1)>> :
                 v \in Int32, n \in 0..MaxLen}
        \cup {String(n, MaxName) \o <<Uuid>> : n \in 0..MaxLen}
        \cup {String(n, MaxString) : n \in 0..MaxLen}]
    \cup
    [id : {1},
     fields : {String(0, MaxServerId) \o String(m, MaxString) \o String(n, MaxString) :
                 m \in 0..MaxLen, n \in 0..MaxLen}]
    \cup
    [id : {2}, fields : {<<Uuid>> \o String(n, MaxName) \o <<VarInt(0)>> : n \in 0..MaxLen}]

(* The bytes of strings and fixed fields: any that can be told apart.      *)
Content(n) == [j \in 1..n |-> j % Base]

(* The visits of Serialize for each visitor: SizeFirst decides where the   *)
(* packet's own size is.                                                   *)
SizeVisits == <<VarInt(packet.id)>> \o packet.fields \o <<Visit("end", 0, 0)>>
PrefixedVisits(length) == <<VarInt(length), VarInt(packet.id)>> \o packet.fields

Init ==
    /\ packet \in Packet
    /\ pass = "size" /\ visits = SizeVisits
    /\ rest = Idle /\ count = 0
    /\ size = 0 /\ lengthSize = 0 /\ success = TRUE /\ packetSize = 0
    /\ data = <<>> /\ at = 0 /\ got = <<>>

Visiting(p, kinds) ==
    pass = p /\ visits # <<>> /\ Head(visits).kind \in kinds
Done == visits' = Tail(visits) /\ UNCHANGED <<packet, pass>>

(***************************************************************************)
(* CPacketSizeCalc.                                                        *)
(***************************************************************************)

(* Once a string was too long only OnUUID goes on counting.                *)
SizeSkip ==
    /\ Visiting("size", {"varint", "body", "fixed", "end"}) /\ ~success
    /\ Done
    /\ UNCHANGED <<rest, count, sizeVars, data, at, got>>

(* The last VarInt is the packet's own size: m_isEnd.                      *)
SizeBegin ==
    /\ Visiting("size", {"varint", "end"}) /\ success /\ rest = Idle
    /\ rest' = IF Head(visits).kind = "end" THEN size ELSE Head(visits).n
    /\ count' = 0
    /\ UNCHANGED <<packet, pass, visits, sizeVars, data, at, got>>

SizeLoop(last) ==
    /\ Visiting("size", {"varint", "end"}) /\ rest # Idle
    /\ UNCHANGED <<packetSize, success, data, at, got>>
    /\ IF last
       THEN /\ size' = size + count + 1
            /\ lengthSize' = IF Head(visits).kind = "end" THEN count + 1 ELSE lengthSize
            /\ rest' = Idle /\ count' = 0
            /\ Done
       ELSE /\ rest' = rest \div Base
            /\ count' = (count + 1) % Word
            /\ UNCHANGED <<packet, pass, visits, size, lengthSize>>

(* Fault: one value too many in one segment; the loop ends at zero only.   *)
SizeVarIntOffByOne == SizeLoop(rest \in 0..Base)
SizeVarIntToZero == SizeLoop(FALSE)

(* finalValue is signed: >> is a division rounded down, and what is        *)
(* negative stays so.                                                      *)
SizeVarInt == SizeLoop(rest \in 0..(Base - 1))

SizeLimit(limit) ==
    /\ Visiting("size", {"body"}) /\ success
    /\ IF Head(visits).n > limit
       THEN success' = FALSE /\ UNCHANGED size
       ELSE size' = size + Head(visits).n /\ UNCHANGED success
    /\ Done
    /\ UNCHANGED <<rest, count, lengthSize, packetSize, data, at, got>>

(* Fault: the limit is checked with >=.                                    *)
SizeBodyStrict == SizeLimit(Head(visits).max - 1)

SizeBody == SizeLimit(Head(visits).max)

SizeFixed ==
    /\ Visiting("size", {"fixed", "uuid"})
    /\ success \/ Head(visits).kind = "uuid"
    /\ size' = size + Head(visits).n
    /\ Done
    /\ UNCHANGED <<rest, count, lengthSize, success, packetSize, data, at, got>>

EndSize(payloadSize) ==
    /\ pass = "size" /\ visits = <<>>
    /\ pass' = "write"
    /\ packetSize' = payloadSize
    /\ visits' = PrefixedVisits(payloadSize)
    /\ UNCHANGED <<packet, rest, count, size, lengthSize, success, data, at, got>>

(* Fault: GetFullSize.                                                     *)
EndSizeWithFull == EndSize(size)

(* SerializePacket: m_packetSize = GetPayloadSize(); Success() is not      *)
(* asked.                                                                  *)
EndSizing == EndSize(size - lengthSize)

(***************************************************************************)
(* CPacketWriter.                                                          *)
(***************************************************************************)

(* A string that is too long is left out altogether.                       *)
WriteSkip ==
    /\ Visiting("write", {"varint", "body"}) /\ TooLong(Head(visits))
    /\ Done
    /\ UNCHANGED <<rest, count, sizeVars, data, at, got>>

(* valueCopy is unsigned.                                                  *)
WriteBegin ==
    /\ Visiting("write", {"varint"}) /\ ~TooLong(Head(visits)) /\ rest = Idle
    /\ rest' = Head(visits).n % Word
    /\ UNCHANGED <<packet, pass, visits, count, sizeVars, data, at, got>>

WriteLoop(segment) ==
    /\ Visiting("write", {"varint"}) /\ rest # Idle
    /\ data' = Append(data, IF rest < Base THEN rest ELSE segment + Base)
    /\ IF rest < Base
       THEN rest' = Idle /\ Done
       ELSE rest' = rest \div Base /\ UNCHANGED <<packet, pass, visits>>
    /\ UNCHANGED <<count, sizeVars, at, got>>

(* Fault: the segment is not masked.                                       *)
WriteVarIntUnmasked == WriteLoop(rest)

WriteVarInt == WriteLoop(rest % Base)

WriteBytes ==
    /\ Visiting("write", {"body", "fixed", "uuid"}) /\ ~TooLong(Head(visits))
    /\ data' = data \o Content(Head(visits).n)
    /\ Done
    /\ UNCHANGED <<rest, count, sizeVars, at, got>>

(* What was written within its buffer is sent and read; after an overrun   *)
(* nothing can be said.                                                    *)
EndWriting ==
    /\ pass = "write" /\ visits = <<>>
    /\ IF success
       THEN pass' = "read" /\ visits' = PrefixedVisits(0)
       ELSE pass' = "done" /\ UNCHANGED visits
    /\ UNCHANGED <<packet, rest, count, sizeVars, data, at, got>>

(***************************************************************************)
(* CPacketReader.                                                          *)
(***************************************************************************)

(* A VarInt is collected in a variable that is 0, or, the packet id, has   *)
(* the value it must come to.                                              *)
ReadBegin ==
    /\ Visiting("read", {"varint"}) /\ rest = Idle
    /\ rest' = 0 /\ count' = 0
    /\ UNCHANGED <<packet, pass, visits, sizeVars, data, at, got>>

ReadLoop(position) ==
    /\ Visiting("read", {"varint"}) /\ rest # Idle /\ at < Len(data)
    /\ at' = at + 1
    /\ LET byte == data[at + 1]
           value == Signed(rest + (byte % Base) * Power(Base, position))
       IN IF byte < Base \/ count + 1 = Segments
          THEN /\ got' = Append(got, IF byte < Base THEN value ELSE 0)
               /\ rest' = Idle /\ count' = 0
               /\ Done
          ELSE /\ rest' = value /\ count' = count + 1
               /\ UNCHANGED <<packet, pass, visits, got>>
    /\ UNCHANGED <<sizeVars, data>>

(* Fault: the segments are not shifted.                                    *)
ReadVarIntUnshifted == ReadLoop(0)

ReadVarInt == ReadLoop(count)

(* A body is as long as the VarInt before it says.                         *)
ReadBytes ==
    /\ Visiting("read", {"body", "fixed", "uuid"})
    /\ LET n == IF Head(visits).kind = "body" THEN got[Len(got)] ELSE Head(visits).n
       IN /\ at + n <= Len(data)
          /\ got' = Append(got, SubSeq(data, at + 1, at + n))
          /\ at' = at + n
    /\ Done
    /\ UNCHANGED <<rest, count, sizeVars, data>>

EndReading ==
    /\ pass = "read" /\ visits = <<>>
    /\ pass' = "done"
    /\ UNCHANGED <<packet, visits, rest, count, sizeVars, data, at, got>>

Finished == pass = "done" /\ UNCHANGED vars

Next ==
    \/ SizeSkip \/ SizeBegin \/ SizeVarInt \/ SizeBody \/ SizeFixed \/ EndSizing
    \/ WriteSkip \/ WriteBegin \/ WriteVarInt \/ WriteBytes \/ EndWriting
    \/ ReadBegin \/ ReadVarInt \/ ReadBytes \/ EndReading
    \/ Finished

Spec == Init /\ [][Next]_vars

(* The three visitors are loops of one thread.                             *)
FairSpec == Spec /\ WF_vars(Next)

(***************************************************************************)
(* Properties.                                                             *)
(***************************************************************************)

(* Every variable has its type; in particular every byte is one.           *)
TypeOK ==
    /\ pass \in {"size", "write", "read", "done"}
    /\ rest \in Int32 \cup 0..Word
    /\ count \in 0..(Word - 1) /\ size \in Nat /\ lengthSize \in 0..Segments
    /\ success \in BOOLEAN /\ packetSize \in 0..size
    /\ data \in Seq(0..(2 * Base - 1)) /\ at \in 0..Len(data)

(* The buffer that CPacketWriter is given is as long as what it writes, so *)
(* long as CPacketSizeCalc did not fail: neither overrun nor bytes that    *)
(* nobody wrote (PacketUtils.h:15).                                        *)
SizeIsExact ==
    success => /\ Len(data) <= size \/ pass = "size"
               /\ pass \in {"read", "done"} => Len(data) = size

(* CPacketSizeCalc fails exactly for a string longer than its limit.       *)
FailsIfTooLong ==
    pass # "size" => (success <=> \A i \in DOMAIN packet.fields : ~TooLong(packet.fields[i]))

(* The size in front of a packet is that of what follows it, which is what *)
(* ReadUnencryptedPacket finds the next packet with.                       *)
FramesThePacket ==
    pass = "read" /\ Len(got) = 1 /\ rest = Idle => got[1] + at = Len(data)

(* What is read is what was serialized.                                    *)
RoundTrip ==
    pass = "done" /\ success =>
        got = <<packetSize, packet.id>>
              \o [i \in DOMAIN packet.fields |->
                    LET f == packet.fields[i] IN
                    IF f.kind = "varint" THEN f.n ELSE Content(f.n)]

(* Serialization ends, unless it meets a negative integer: the size        *)
(* calculation never ends for one, where the writer does.                  *)
Natural == \A i \in DOMAIN packet.fields :
               packet.fields[i].kind = "varint" => packet.fields[i].n >= 0
Completes == Natural ~> pass = "done"
=============================================================================
