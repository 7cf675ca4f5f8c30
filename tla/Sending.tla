------------------------------- MODULE Sending -------------------------------
(***************************************************************************)
(* The way of a packet out of a CClientConnection: the buffer of an        *)
(* SPacketPayload moves from whoever made it into m_queuedSends and from   *)
(* there into SendQueuedPackets, which gives it to the socket, encrypted   *)
(* or not.                                                                 *)
(*                                                                         *)
(* A payload owns its buffer: moving it leaves nullptr behind, its         *)
(* destructor deletes, but assigning to it does not delete what it held.   *)
(* The socket may take a part of the bytes only.  CSharedSecret starts     *)
(* its cipher anew for every packet, where the client has one stream.      *)
(*                                                                         *)
(* A packet is its bytes: its size, then its id and its body, all less     *)
(* than Base.  CFB8 adds to each byte a pad that depends on the Block      *)
(* bytes of cipher text before it, the key standing for them at first.     *)
(* The handlers act in any order here; Login says in which they do.        *)
(***************************************************************************)
EXTENDS Integers, Sequences

CONSTANTS
    Packet,         \* the packets that are sent
    Base,           \* values of a byte
    Block, Key,     \* length of the cipher's register, and what it holds first
    Pad(_),         \* the pad that a register gives (AES)
    MaxBuffers      \* bound: how many buffers are allocated

ASSUME BaseAssumption == Base \in Nat \ {0}
ASSUME BuffersAssumption == MaxBuffers \in Nat
ASSUME PacketAssumption ==
    \A p \in Packet : p \in Seq(0..(Base - 1)) /\ Len(p) > 0 /\ p[1] + 1 = Len(p)
ASSUME KeyAssumption == Block \in Nat \ {0} /\ Key \in Seq(0..(Base - 1)) /\ Len(Key) = Block
ASSUME PadAssumption == \A r \in [1..Block -> 0..(Base - 1)] : Pad(r) \in 0..(Base - 1)

VARIABLES
    heap,       \* what became of each buffer
    bytes,      \* what it holds
    received,   \* the payload of RecvPackets
    queue,      \* m_queuedSends, FIFO per enqueuing thread
    current,    \* the payload of SendQueuedPackets
    netPc,      \* the network thread: "recv", "handle", "send" or "gone"
    encrypted,  \* m_encryptionEnabled
    open,       \* the socket is not closed
    wire,       \* the bytes sent
    plain,      \* what they were before encryption
    secure,     \* how many were sent before encryption was enabled
    starts,     \* where the cipher was started
    extra,      \* how many of the last bytes belong to no packet
    given,      \* buffers that were given to send
    whole       \* nothing was cut so far

heapVars == <<heap, bytes>>
wireVars == <<wire, plain, secure, starts, extra, given, whole>>
vars == <<heapVars, received, queue, current, netPc, encrypted, open, wireVars>>

Thread == {"network", "curl"}
Buffer == 1..MaxBuffers
Null == 0
None == [ptr |-> Null, size |-> 0]

Init ==
    /\ heap = [b \in Buffer |-> "unused"] /\ bytes = [b \in Buffer |-> <<>>]
    /\ received = None /\ current = None
    /\ queue = [t \in Thread |-> <<>>]
    /\ netPc = "recv" /\ encrypted = FALSE /\ open = TRUE
    /\ wire = <<>> /\ plain = <<>> /\ secure = 0 /\ starts = {}
    /\ extra = 0 /\ given = {} /\ whole = TRUE

(***************************************************************************)
(* Payloads.                                                               *)
(***************************************************************************)

(* new char[]: the next buffer, filled with a packet.                      *)
IsNext(b) == heap[b] = "unused" /\ \A a \in 1..(b - 1) : heap[a] # "unused"
Holding(b, p) == bytes' = [bytes EXCEPT ![b] = p]
Live(b) == [heap EXCEPT ![b] = "live"]

(* Fault: the buffer is forgotten.                                         *)
Forget(payload, h) == h

(* ~SPacketPayload.                                                        *)
Delete(payload, h) ==
    IF payload.ptr = Null THEN h ELSE [h EXCEPT ![payload.ptr] = "freed"]

Enqueue(t, payload) == queue' = [queue EXCEPT ![t] = Append(@, payload)]

(***************************************************************************)
(* The network thread receives and replies.                                *)
(***************************************************************************)

Receive(p) ==
    /\ netPc = "recv" /\ open
    /\ \E b \in Buffer :
         /\ IsNext(b) /\ Holding(b, p)
         /\ heap' = Live(b)
         /\ received' = [ptr |-> b, size |-> Len(p)]
    /\ netPc' = "handle"
    /\ UNCHANGED <<queue, current, encrypted, open, wireVars>>

(* The handler is done: the payload it was given is destroyed, if it still *)
(* owns a buffer.                                                          *)
Handled ==
    /\ netPc = "handle" /\ netPc' = "recv" /\ received' = None
    /\ UNCHANGED <<current, wire, plain, starts, extra, given>>

(* It was of no consequence, or the client is rejected.                    *)
Ignore ==
    /\ Handled
    /\ heap' = Delete(received, heap)
    /\ open' \in {open, FALSE} /\ whole' = (whole /\ open')
    /\ UNCHANGED <<bytes, queue, encrypted, secure>>

EnableEncryption ==
    /\ Handled
    /\ heap' = Delete(received, heap)
    /\ encrypted' = TRUE
    /\ secure' = IF encrypted THEN secure ELSE Len(wire)
    /\ UNCHANGED <<bytes, queue, open, whole>>

Reply(p) ==
    /\ Handled
    /\ \E b \in Buffer :
         /\ IsNext(b) /\ Holding(b, p)
         /\ heap' = Delete(received, Live(b))
         /\ Enqueue("network", [ptr |-> b, size |-> Len(p)])
    /\ UNCHANGED <<encrypted, open, secure, whole>>

Echoed(left, more) ==
    /\ Handled
    /\ Enqueue("network", [received EXCEPT !.size = @ + more])
    /\ heap' = Delete(left, heap)
    /\ UNCHANGED <<bytes, encrypted, open, secure, whole>>

(* Fault: the payload is copied, pointer and all, instead of moved; the    *)
(* two bytes are added to the size and to the size in the queue.           *)
EchoNotMoved == Echoed(received, 2)
EchoTwiceLonger == Echoed([received EXCEPT !.ptr = Null], 4)

(* A ping is sent back as it is: its payload moves into the queue, two     *)
(* bytes longer than its buffer.                                           *)
Echo == Echoed([received EXCEPT !.ptr = Null], 2)

(* The client leaves.                                                      *)
RecvClosed ==
    /\ netPc = "recv" /\ open
    /\ open' = FALSE /\ whole' = FALSE
    /\ UNCHANGED <<heapVars, received, queue, current, netPc, encrypted,
                   wire, plain, secure, starts, extra, given>>

(* The curl thread's callback queues a packet at any time.                 *)
Callback(p) ==
    /\ netPc # "gone"
    /\ \E b \in Buffer :
         /\ IsNext(b) /\ Holding(b, p)
         /\ heap' = Live(b)
         /\ Enqueue("curl", [ptr |-> b, size |-> Len(p)])
    /\ UNCHANGED <<received, current, netPc, encrypted, open, wireVars>>

(***************************************************************************)
(* SendQueuedPackets.                                                      *)
(***************************************************************************)

BeginSend ==
    /\ netPc = "recv" /\ open
    /\ netPc' = "send" /\ current' = None
    /\ UNCHANGED <<heapVars, received, queue, encrypted, open, wireVars>>

(* CFB8.  The register is made of the last bytes of key and cipher text.   *)
Register(key, cipherText) ==
    SubSeq(key \o cipherText, Len(cipherText) + 1, Len(cipherText) + Block)

Encryption(p, key) ==
    LET cipherText[i \in 0..Len(p)] ==
          IF i = 0 THEN <<>>
          ELSE Append(cipherText[i - 1],
                      (p[i] + Pad(Register(key, cipherText[i - 1]))) % Base)
    IN cipherText[Len(p)]

Decryption(c, key) ==
    [i \in 1..Len(c) |-> (c[i] - Pad(Register(key, SubSeq(c, 1, i - 1)))) % Base]

(* Fault: the cipher starts from zeros instead of the key.                 *)
EncryptWithoutIV(p) == Encryption(p, [i \in 1..Block |-> 0])

EncryptPacket(p) == Encryption(p, Key)

(* What send reads: past the end of a buffer there may be anything.        *)
Overlong(payload) == payload.size - Len(bytes[payload.ptr])
Behind == [1..2 -> 0..(Base - 1)]
Content(payload, behind) == bytes[payload.ptr] \o SubSeq(behind, 1, Overlong(payload))

(* try_dequeue moves the next payload of some thread into current, without *)
(* deleting the buffer current had; the socket takes n of its bytes.       *)
SendNext(t, n) ==
    /\ netPc = "send" /\ queue[t] # <<>>
    /\ LET payload == Head(queue[t])
       IN /\ n <= payload.size
          /\ current' = payload
          /\ given' = given \cup {payload.ptr}
          /\ extra' = Overlong(payload)
          /\ \E behind \in Behind :
               LET p == Content(payload, behind)
                   data == IF encrypted THEN EncryptPacket(p) ELSE p
               IN /\ plain' = plain \o SubSeq(p, 1, n)
                  /\ wire' = wire \o SubSeq(data, 1, n)
          /\ starts' = IF encrypted THEN starts \cup {Len(wire)} ELSE starts
          /\ whole' = (whole /\ n = payload.size /\ extra = 0
                             /\ (encrypted => Len(wire) = secure))
    /\ queue' = [queue EXCEPT ![t] = Tail(@)]
    /\ UNCHANGED <<heapVars, received, netPc, encrypted, open, secure>>

(* The function returns and current is destroyed.                          *)
Return == netPc' = "recv" /\ current' = None

(* Fault: it returns while the other thread's packets are still queued.    *)
ReturnEarly ==
    /\ netPc = "send" /\ queue["network"] = <<>>
    /\ Return /\ heap' = Delete(current, heap)
    /\ UNCHANGED <<bytes, received, queue, encrypted, open, wireVars>>

EndSend ==
    /\ netPc = "send" /\ \A t \in Thread : queue[t] = <<>>
    /\ Return /\ heap' = Delete(current, heap)
    /\ UNCHANGED <<bytes, received, queue, encrypted, open, wireVars>>

(* send fails: the socket is closed, the packet is lost.                   *)
SendFails(t) ==
    /\ netPc = "send" /\ queue[t] # <<>>
    /\ Return /\ heap' = Delete(Head(queue[t]), heap)
    /\ queue' = [queue EXCEPT ![t] = Tail(@)]
    /\ given' = given \cup {Head(queue[t]).ptr}
    /\ open' = FALSE /\ whole' = FALSE
    /\ UNCHANGED <<bytes, received, encrypted, wire, plain, secure, starts, extra>>

(* The connection is forgotten and destroyed, and its queue with it.       *)
Destroy ==
    /\ netPc = "recv" /\ ~open
    /\ netPc' = "gone"
    /\ heap' = [b \in Buffer |->
                  IF \E t \in Thread : \E i \in DOMAIN queue[t] : queue[t][i].ptr = b
                  THEN "freed" ELSE heap[b]]
    /\ queue' = [t \in Thread |-> <<>>]
    /\ UNCHANGED <<bytes, received, current, encrypted, open, wireVars>>

NetworkStep ==
    \/ BeginSend \/ EndSend
    \/ \E t \in Thread :
         SendFails(t) \/ \E n \in 1..(Base + 2) : SendNext(t, n)
    \/ Ignore \/ EnableEncryption \/ Echo \/ \E p \in Packet : Reply(p)

Next ==
    \/ NetworkStep \/ RecvClosed \/ Destroy
    \/ \E p \in Packet : Receive(p) \/ Callback(p)

Spec == Init /\ [][Next]_vars

(* The network thread runs on; nothing is assumed of the client or of the  *)
(* curl thread.                                                            *)
FairSpec == Spec /\ WF_vars(NetworkStep)

(***************************************************************************)
(* Properties.                                                             *)
(***************************************************************************)

Payload == [ptr : Buffer \cup {Null}, size : 0..(Base + 2)]

(* Every variable has its type.                                            *)
TypeOK ==
    /\ heap \in [Buffer -> {"unused", "live", "freed"}]
    /\ bytes \in [Buffer -> Packet \cup {<<>>}]
    /\ received \in Payload /\ current \in Payload
    /\ queue \in [Thread -> Seq(Payload)]
    /\ netPc \in {"recv", "handle", "send", "gone"}
    /\ encrypted \in BOOLEAN /\ open \in BOOLEAN /\ whole \in BOOLEAN
    /\ wire \in Seq(0..(Base - 1)) /\ plain \in Seq(0..(Base - 1))
    /\ Len(plain) = Len(wire)
    /\ secure \in 0..Len(wire) /\ starts \subseteq 0..Len(wire)
    /\ extra \in 0..2 /\ given \subseteq Buffer

Queued == UNION {{t} \X DOMAIN queue[t] : t \in Thread}
Ptr(e) == queue[e[1]][e[2]].ptr

(* A buffer has one owner: what is handled, queued or being sent is live,  *)
(* and no two payloads have the same buffer, so that none is deleted twice *)
(* or sent after it was deleted.                                           *)
OwnedOnce ==
    /\ \A e \in Queued : heap[Ptr(e)] = "live" /\ Ptr(e) \notin {received.ptr, current.ptr}
    /\ \A e, f \in Queued : Ptr(e) = Ptr(f) => e = f
    /\ \A p \in {received, current} : p.ptr # Null => heap[p.ptr] = "live"
    /\ received.ptr # Null => received.ptr # current.ptr

(* The assignment in try_dequeue leaks the buffer of the packet before,    *)
(* and nothing else leaks: a buffer without an owner was given to send.    *)
OnlySentLeaks ==
    \A b \in Buffer :
        heap[b] = "live" =>
            b \in given \cup {Ptr(e) : e \in Queued} \cup {received.ptr, current.ptr}

(* The client decrypts one stream, from the first encrypted byte on.       *)
ClientReads ==
    LET clear == IF encrypted THEN secure ELSE Len(wire)
    IN SubSeq(wire, 1, clear) \o Decryption(SubSeq(wire, clear + 1, Len(wire)), Key)

(* Starting the cipher anew garbles the first Block bytes of a packet and  *)
(* no others, and not those of the first packet; nothing else garbles what *)
(* the client reads, in whatever pieces packets were sent.                 *)
GarbledOnlyAfterRestart ==
    \A i \in 1..Len(wire) :
        ClientReads[i] # plain[i] =>
            \E s \in starts \ {secure} : i \in (s + 1)..(s + Block)

(* What the client makes of bytes: packet after packet, and nothing yet of *)
(* one that is not complete.                                               *)
Packets(s) ==
    LET from[i \in 1..(Len(s) + 1)] ==
          IF i > Len(s) \/ i + s[i] > Len(s) THEN <<>>
          ELSE <<SubSeq(s, i, i + s[i])>> \o from[i + s[i] + 1]
    IN from[1]

(* Until a packet is sent in part, or after a ping's two bytes, or         *)
(* encrypted after the first encrypted one, or the socket is closed, the   *)
(* client reads exactly the packets that were queued, those of one thread  *)
(* in their order, and all of them in the end.                             *)
Channel ==
    INSTANCE PacketChannel
    WITH Producer <- Thread,
         pending <- [t \in Thread |-> [i \in DOMAIN queue[t] |-> bytes[queue[t][i].ptr]]],
         got <- IF whole THEN Packets(SubSeq(ClientReads, 1, Len(wire) - extra)) ELSE <<>>,
         whole <- whole
ChannelUntilCut == Channel!FairSpec
=============================================================================
