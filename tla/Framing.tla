------------------------------- MODULE Framing -------------------------------
(***************************************************************************)
(* How CClientConnection::RecvPackets finds packets in what recv returns.  *)
(* TCP is a stream of bytes: one recv may return a part of a packet, or    *)
(* several, or the tail of one and the head of the next.  RecvPackets      *)
(* keeps nothing from one call to the next, neither bytes nor the state of *)
(* the cipher.                                                             *)
(*                                                                         *)
(* A packet is its bytes: its size as a VarInt, then its id and its body.  *)
(* Integers are scaled as in PacketCodec; a byte is a segment of Base      *)
(* values and the continue bit.                                            *)
(***************************************************************************)
EXTENDS Numerals, FiniteSets, SequencesExt

CONSTANTS
    Base, Segments, Top,    \* SEGMENT_BITS + 1 and the width of an int
    Packet,     \* the packets a client may send
    Response,   \* the one on which encryption is enabled
    BufLen,     \* DEFAULT_BUFLEN
    Block,      \* bytes of cipher text on which a byte of plain text depends
    Noise,      \* what memory, or bytes decrypted wrongly, may hold
    MaxPackets  \* bound: how many packets the client sends

ASSUME BoundsAssumption ==
    /\ Base \in Nat /\ Segments \in Nat /\ Top \in Nat
    /\ Base > 1 /\ Segments > 1 /\ Top \in 2..Base
    /\ BufLen \in Nat /\ Block \in Nat /\ MaxPackets \in Nat

Byte == 0..(2 * Base - 1)
Word == Power(Base, Segments - 1) * Top
Signed(u) == IF u % Word < Word \div 2 THEN u % Word ELSE (u % Word) - Word

(* CPacketReader::OnVarInt: the segments up to the first byte without the  *)
(* continue bit, or zero if there are too many.                            *)
LastSegments(m) ==
    {k \in 1..Segments : m[k] < Base /\ \A j \in 1..(k - 1) : m[j] >= Base}
ReadVarInt(m) ==
    IF LastSegments(m) = {} THEN 0
    ELSE LET k == CHOOSE k \in LastSegments(m) : TRUE
         IN Signed(Value(Base, [j \in 1..k |-> m[k + 1 - j] % Base]))

(* CPacketSizeCalc::OnVarInt, of what is not negative.                     *)
SizeLength(v) == 1 + Cardinality({k \in 1..(Segments - 1) : v >= Power(Base, k)})

(* The size of a packet is that of what follows it.                        *)
ASSUME PacketAssumption ==
    /\ Response \in Packet
    /\ \A p \in Packet :
         /\ p \in Seq(Byte) /\ Len(p) > 1
         /\ \E k \in 1..Segments : k <= Len(p) /\ p[k] < Base
         /\ LET size == ReadVarInt([i \in 1..Segments |-> IF i <= Len(p) THEN p[i] ELSE 0])
            IN size >= 0 /\ size + SizeLength(size) = Len(p)

(* So far may a read reach, in the buffer and behind it.                   *)
MemLen == 2 * BufLen + Segments
ASSUME NoiseAssumption == \A b \in Noise : b \in [1..MemLen -> Byte]

VARIABLES
    sent,       \* packets the client has sent
    clear,      \* how many of their bytes it has not encrypted
    stream,     \* bytes under way, as they were before they were encrypted
    pc,         \* RecvPackets: "idle", "packets" or, in an endless loop, "hung"
    buffer,     \* what recv returned, all totalSize bytes of it, decrypted
    decrypted,  \* there is an m_decryptedBuffer
    offset,     \* totalOffset
    encrypted,  \* m_encryptionEnabled
    delivered,  \* packets given to the player's ProcessPacket until something is cut
    open,       \* the socket is not closed
    cut         \* some recv has ended within a packet, or lost the cipher's state

recvVars == <<buffer, decrypted, offset>>
vars == <<sent, clear, stream, pc, recvVars, encrypted, delivered, open, cut>>

Init ==
    /\ sent = <<>> /\ clear = 0 /\ stream = <<>>
    /\ pc = "idle" /\ buffer = <<>> /\ decrypted = FALSE /\ offset = 0
    /\ encrypted = FALSE
    /\ delivered = <<>> /\ open = TRUE /\ cut = FALSE

(* The client answers the encryption request once, and encrypts what it    *)
(* sends from then on, as one stream.                                      *)
Answered == \E k \in 1..Len(sent) : sent[k] = Response

ClientSend(p) ==
    /\ Len(sent) < MaxPackets
    /\ Answered => p # Response
    /\ sent' = Append(sent, p)
    /\ stream' = stream \o p
    /\ clear' = IF Answered THEN clear ELSE clear + Len(p)
    /\ UNCHANGED <<pc, recvVars, encrypted, delivered, open, cut>>

(* So many bytes are the first packets of those sent.                      *)
AtBoundary(n) ==
    \E k \in 0..Len(sent) : n = Len(FlattenSeq(SubSeq(sent, 1, k)))

(* So many bytes has recv returned.                                        *)
Arrived == Len(FlattenSeq(sent)) - Len(stream)

(* DecryptPacket begins the cipher anew with each call, with the secret as *)
(* its first block: it yields the client's bytes if the client began there *)
(* too, and otherwise only those behind a block of cipher text.            *)
Legible(i) ==
    IF encrypted THEN Arrived = clear \/ (i > Block /\ Arrived + i > clear + Block)
    ELSE Arrived + i <= clear

(* The next n bytes end with a packet, and are all in the clear, or all    *)
(* encrypted and the first that are.                                       *)
Whole(n) == AtBoundary(Arrived + n) /\ (Arrived + n <= clear \/ Arrived = clear)

(* recv returns any number of the bytes that have arrived.                 *)
Recv(n, noise) ==
    /\ pc = "idle" /\ open
    /\ n \in 1..BufLen /\ n <= Len(stream)
    /\ buffer' = [i \in 1..n |-> IF Legible(i) THEN stream[i] ELSE noise[i]]
    /\ stream' = SubSeq(stream, n + 1, Len(stream))
    /\ decrypted' = encrypted
    /\ pc' = "packets" /\ offset' = 0
    /\ cut' = (cut \/ ~Whole(n))
    /\ UNCHANGED <<sent, clear, encrypted, delivered, open>>

(* ReadUnencryptedPacket reads the size, and its memmove the payload, with *)
(* no regard to the end of what was received: behind it recvBuffer holds   *)
(* zeros, and the memory behind that or the decrypted buffer anything.     *)
Memory(b, i) ==
    IF i <= Len(buffer) THEN buffer[i]
    ELSE IF i <= BufLen /\ ~decrypted THEN 0 ELSE b[i]
PayloadSize(b) == ReadVarInt([i \in 1..Segments |-> Memory(b, offset + i)])
FinalPayloadSize(b) == PayloadSize(b) + SizeLength(PayloadSize(b))
Payload(b) == [i \in 1..FinalPayloadSize(b) |-> Memory(b, offset + i)]
MoreToRead == pc = "packets" /\ offset < Len(buffer)

(* The player accepts what its client meant; a misread packet it may or    *)
(* may not (false disconnects the client).                                 *)
Accepts(p) == IF p \in Packet THEN {TRUE} ELSE BOOLEAN

Process(b) ==
    /\ MoreToRead /\ PayloadSize(b) >= 0
    /\ delivered' = IF cut THEN delivered ELSE Append(delivered, Payload(b))
    /\ open' \in Accepts(Payload(b))
    /\ offset' = offset + FinalPayloadSize(b)
    /\ pc' = IF open' THEN "packets" ELSE "idle"
    /\ UNCHANGED <<sent, clear, stream, buffer, decrypted, cut>>

Enable(b) == encrypted' = (encrypted \/ Payload(b) = Response)
Fits(b) == FinalPayloadSize(b) <= Len(buffer)

(* Faults: the size is not checked; encryption is not enabled.             *)
ProcessUnchecked(b) == Process(b) /\ Enable(b)
ProcessInClear(b) == Fits(b) /\ Process(b) /\ UNCHANGED encrypted

ProcessPacket(b) == Fits(b) /\ Process(b) /\ Enable(b)

EndBuffer ==
    /\ pc = "packets"
    /\ pc' = "idle"
    /\ UNCHANGED <<sent, clear, stream, recvVars, encrypted, delivered, open, cut>>

(* Fault: the loop ends after one packet, or only at the exact end.        *)
OneAtATime == offset > 0 /\ EndBuffer
BufferReadExactly == offset = Len(buffer) /\ EndBuffer

(* The entire buffer is read.                                              *)
BufferRead == offset >= Len(buffer) /\ EndBuffer

(* A packet larger than the buffer (not than what is left of it): the loop *)
(* ends, and the rest of the buffer is dropped.                            *)
Break(b) == MoreToRead /\ PayloadSize(b) >= 0 /\ ~Fits(b) /\ EndBuffer

(* The loop over the segments of a negative size never ends.               *)
Hang(b) ==
    /\ MoreToRead /\ PayloadSize(b) < 0
    /\ pc' = "hung"
    /\ UNCHANGED <<sent, clear, stream, recvVars, encrypted, delivered, open, cut>>

RecvPackets ==
    \/ \E b \in Noise : \/ \E n \in 1..BufLen : Recv(n, b)
                        \/ ProcessPacket(b) \/ Break(b) \/ Hang(b)
    \/ BufferRead

Next == (\E p \in Packet : ClientSend(p)) \/ RecvPackets

Spec == Init /\ [][Next]_vars

(* The network thread runs on; nothing is assumed of the client.           *)
FairSpec == Spec /\ WF_vars(RecvPackets)

(***************************************************************************)
(* Properties.                                                             *)
(***************************************************************************)

(* Every variable has its type; in particular the check against the whole  *)
(* buffer keeps a packet from reaching further than twice its length.      *)
TypeOK ==
    /\ sent \in Seq(Packet) /\ Len(sent) <= MaxPackets
    /\ clear \in 0..Len(FlattenSeq(sent))
    /\ pc \in {"idle", "packets", "hung"}
    /\ decrypted \in BOOLEAN /\ encrypted \in BOOLEAN
    /\ open \in BOOLEAN /\ cut \in BOOLEAN
    /\ Len(stream) <= Len(FlattenSeq(sent)) /\ Len(buffer) <= BufLen
    /\ offset \in Nat /\ (offset > 0 => offset < 2 * Len(buffer))

(* As long as no recv ends within a packet, and what is encrypted comes in *)
(* one recv of its own, the player is given exactly the packets that were  *)
(* sent, in their order, however many of them one recv returns, and all of *)
(* them in the end.                                                        *)
Channel ==
    INSTANCE PacketChannel
    WITH Producer <- {"client"},
         pending <- [t \in {"client"} |-> SubSeq(sent, Len(delivered) + 1, Len(sent))],
         got <- delivered,
         whole <- ~cut
ChannelUntilCut == Channel!FairSpec

(* Until then nothing is lost or misread on the way, encrypted or not:     *)
(* what was given to the player, what the buffer still holds and what is   *)
(* under way are what was sent.  No size is read as negative, and the      *)
(* network thread does not hang.                                           *)
NothingLostUntilCut ==
    ~cut => /\ pc # "hung"
            /\ offset <= Len(buffer)
            /\ LET left == IF pc = "packets" THEN SubSeq(buffer, offset + 1, Len(buffer))
                           ELSE <<>>
               IN FlattenSeq(delivered) \o left \o stream = FlattenSeq(sent)

(* A cut packet stops the connection only where it is misread as one of    *)
(* negative size: else what arrives is read, or the client is              *)
(* disconnected.                                                           *)
StreamIsRead == stream # <<>> ~> stream = <<>> \/ ~open \/ pc = "hung"

=============================================================================
