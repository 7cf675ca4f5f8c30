--------------------------- MODULE SendingProofs ---------------------------
(***************************************************************************)
(* Sending, proved for every set of packets, every cipher and any number   *)
(* of buffers.                                                             *)
(***************************************************************************)
EXTENDS Sending, DataProofs

(***************************************************************************)
(* The cipher, for data of any length.                                     *)
(***************************************************************************)

Byte == 0..(Base - 1)

(* The cipher's register is as long as a block, made of bytes.             *)
LEMMA RegisterType ==
  ASSUME NEW k \in Seq(Byte), Len(k) = Block, NEW c \in Seq(Byte)
  PROVE  Register(k, c) \in [1..Block -> Byte] /\ Pad(Register(k, c)) \in Byte
  <1>1. /\ Len(k \o c) = Block + Len(c) /\ k \o c \in Seq(Byte)
        /\ Block \in Nat
    BY KeyAssumption
  <1>2. \A i \in 1..Block : (k \o c)[Len(c) + i] \in Byte
    BY <1>1, ElementOfSeq
  <1>3. Register(k, c) = [i \in 1..Block |-> (k \o c)[Len(c) + i]]
    BY <1>1 DEF Register
  <1>4. QED
    BY <1>2, <1>3, PadAssumption DEF Byte

(* One step of the cipher.                                                 *)
Enciphered(k, c, b) == Append(c, (b + Pad(Register(k, c))) % Base)

(* It appends a byte to the cipher text.                                   *)
LEMMA EncipheredType ==
  ASSUME NEW k \in Seq(Byte), Len(k) = Block, NEW c \in Seq(Byte), NEW b \in Byte
  PROVE  Enciphered(k, c, b) \in Seq(Byte)
  <1>1. (b + Pad(Register(k, c))) % Base \in Byte
    BY RegisterType, BaseAssumption DEF Byte
  <1>2. QED
    BY <1>1 DEF Enciphered

(* The cipher text of a packet is as long as the packet, and each of its   *)
(* bytes is made with the register that the bytes before it have left.     *)
LEMMA EncryptionBytes ==
  ASSUME NEW p \in Seq(Byte), NEW k \in Seq(Byte), Len(k) = Block
  PROVE  /\ Encryption(p, k) \in Seq(Byte)
         /\ Len(Encryption(p, k)) = Len(p)
         /\ \A i \in 1..Len(p) :
              Encryption(p, k)[i] =
                (p[i] + Pad(Register(k, SubSeq(Encryption(p, k), 1, i - 1)))) % Base
  <1> DEFINE n == Len(p)
             X == Seq(Byte)
             G == [i \in 1..n |-> [c \in X |-> Enciphered(k, c, p[i])]]
             Rounds(g) == [i \in 0..n |->
                             IF i = 0 THEN <<>>
                             ELSE Append(g[i - 1], (p[i] + Pad(Register(k, g[i - 1]))) % Base)]
             f == CHOOSE g : g = Rounds(g)
  <1>1. n \in Nat /\ <<>> \in X /\ \A i \in 1..n : p[i] \in Byte
    BY ElementOfSeq
  <1>2. G \in [1..n -> [X -> X]]
    BY <1>1, EncipheredType
  <1>3. \E g : g \in [0..n -> X] /\ g = Rounds(g)
    <2>1. PICK g \in [0..n -> X] : g[0] = <<>> /\ \A i \in 1..n : g[i] = G[i][g[i - 1]]
      <3>1. HasLoop(X, <<>>, n, G)
        <4> HIDE DEF X, G, n
        <4>1. QED
          BY <1>1, <1>2, LoopExists
      <3>2. QED
        BY <3>1 DEF HasLoop
    <2>2. ASSUME NEW i \in 1..n PROVE g[i] = Enciphered(k, g[i - 1], p[i])
      <3>1. g[i - 1] \in X
        OBVIOUS
      <3>2. QED
        BY <2>1, <3>1
    <2>3. g = Rounds(g)
      <3>1. \A i \in 0..n : g[i] = Rounds(g)[i]
        BY <2>1, <2>2 DEF Enciphered
      <3>2. QED
        BY <3>1
    <2>4. QED
      BY <2>3
  <1>4. Encryption(p, k) = f[n]
    BY DEF Encryption
  <1>5. f = Rounds(f)
    BY <1>3, Zenon
  <1>6. /\ f[0] = <<>>
        /\ \A i \in 1..n : f[i] = Enciphered(k, f[i - 1], p[i])
    <2> HIDE DEF f
    <2>1. \A i \in 0..n : f[i] = Rounds(f)[i]
      BY <1>5
    <2>2. f[0] = <<>>
      BY <1>1, <2>1
    <2>3. ASSUME NEW i \in 1..n PROVE f[i] = Enciphered(k, f[i - 1], p[i])
      <3>1. f[i] = Rounds(f)[i] /\ i \in 0..n /\ i # 0
        BY <1>1, <2>1
      <3>2. QED
        BY <3>1 DEF Enciphered
    <2>4. QED
      BY <2>2, <2>3
  <1> HIDE DEF f, G, Rounds
  <1> DEFINE OK(c, m) ==
               /\ c \in X /\ Len(c) = m
               /\ \A j \in 1..m :
                    c[j] = (p[j] + Pad(Register(k, SubSeq(c, 1, j - 1)))) % Base
             S == {m \in Nat : m <= n => OK(f[m], m)}
  <1>7. 0 \in S
    <2>1. <<>> \in X /\ Len(<<>>) = 0
      OBVIOUS
    <2>2. OK(f[0], 0)
      BY <1>6, <2>1
    <2>3. QED
      BY <2>2
  <1>8. ASSUME NEW m \in Nat, m \in S PROVE m + 1 \in S
    <2> SUFFICES ASSUME m + 1 <= n PROVE OK(f[m + 1], m + 1)
      OBVIOUS
    <2> DEFINE c == f[m]
               b == (p[m + 1] + Pad(Register(k, c))) % Base
    <2>1. OK(c, m) /\ m + 1 \in 1..n
      BY <1>8, <1>1
    <2>2. f[m + 1] = Append(c, b) /\ b \in Byte
      <3>1. f[m + 1] = Enciphered(k, f[(m + 1) - 1], p[m + 1]) /\ (m + 1) - 1 = m
        BY <2>1, <1>6
      <3>2. p[m + 1] \in Byte /\ Pad(Register(k, c)) \in Byte
        BY <2>1, <1>1, RegisterType
      <3>3. b \in Byte
        <4> DEFINE y == Pad(Register(k, c))
        <4>1. y \in 0..(Base - 1) /\ p[m + 1] \in 0..(Base - 1)
          BY <3>2 DEF Byte
        <4> HIDE DEF y
        <4>2. (p[m + 1] + y) % Base \in 0..(Base - 1)
          BY <4>1, BaseAssumption
        <4>3. QED
          BY <4>2 DEF y, Byte
      <3>4. QED
        BY <3>1, <3>3 DEF Enciphered
    <2> HIDE DEF c, b
    <2>3. \A j \in 1..(m + 1) : SubSeq(Append(c, b), 1, j - 1) = SubSeq(c, 1, j - 1)
      BY <2>1, <2>2
    <2>4. SubSeq(c, 1, m) = c
      BY <2>1
    <2>5. ASSUME NEW j \in 1..(m + 1)
          PROVE  Append(c, b)[j] =
                   (p[j] + Pad(Register(k, SubSeq(Append(c, b), 1, j - 1)))) % Base
      <3>1. CASE j = m + 1
        <4>1. Append(c, b)[m + 1] = b /\ (m + 1) - 1 = m
          BY <2>1, <2>2
        <4>2. SubSeq(Append(c, b), 1, j - 1) = c
          BY <3>1, <2>3, <2>4, <4>1
        <4>3. QED
          BY <3>1, <4>1, <4>2 DEF b
      <3>2. CASE j # m + 1
        <4>1. j \in 1..m /\ Append(c, b)[j] = c[j]
          BY <3>2, <2>1, <2>2
        <4>2. c[j] = (p[j] + Pad(Register(k, SubSeq(c, 1, j - 1)))) % Base
          BY <4>1, <2>1
        <4>3. QED
          BY <4>1, <4>2, <2>3
      <3>3. QED
        BY <3>1, <3>2
    <2>6. Append(c, b) \in X /\ Len(Append(c, b)) = m + 1
      BY <2>1, <2>2
    <2>7. QED
      BY <2>2, <2>5, <2>6
  <1>9. OK(f[n], n)
    <2> HIDE DEF OK
    <2>1. \A m \in Nat : m \in S
      <3> HIDE DEF S
      <3>1. QED
        BY <1>7, <1>8, SetInduction
    <2>2. QED
      BY <2>1, <1>1
  <1>10. QED
    BY <1>4, <1>9

(***************************************************************************)
(* Who owns the buffers.                                                   *)
(***************************************************************************)

InQueue(b) == \E t \in Thread : \E i \in DOMAIN queue[t] : queue[t][i].ptr = b

(* A payload in the queue owns a buffer that nobody else has.              *)
QueueOwns ==
    \A t \in Thread : \A i \in DOMAIN queue[t] :
        /\ queue[t][i].ptr \in Buffer /\ heap[queue[t][i].ptr] = "live"
        /\ queue[t][i].ptr \notin {received.ptr, current.ptr}
        /\ \A u \in Thread : \A j \in DOMAIN queue[u] :
             queue[u][j].ptr = queue[t][i].ptr => u = t /\ j = i

(* So do those in the hands of the network thread.                         *)
HandsOwn ==
    /\ \A p \in {received, current} : p.ptr # Null => heap[p.ptr] = "live"
    /\ received.ptr # Null => received.ptr # current.ptr
    /\ current.ptr # Null => current.ptr \in given

(* It has a packet to handle only while it handles it, and one to send     *)
(* only while it sends.                                                    *)
HandsInPhase ==
    /\ netPc = "handle" => received.ptr # Null
    /\ netPc # "handle" => received = None
    /\ netPc # "send" => current = None

(* A payload is as long as its packet, an echoed one two bytes longer.     *)
Filled(payload, more) ==
    /\ bytes[payload.ptr] \in Packet
    /\ payload.size \in {Len(bytes[payload.ptr]), Len(bytes[payload.ptr]) + more}
BuffersFilled ==
    /\ received.ptr # Null => Filled(received, 0)
    /\ \A t \in Thread : \A i \in DOMAIN queue[t] : Filled(queue[t][i], 2)

(* What is live has an owner or was given to send.                         *)
LiveIsOwned ==
    \A b \in Buffer :
        heap[b] = "live" =>
            b \in given \/ InQueue(b) \/ b \in {received.ptr, current.ptr}

Ownership == QueueOwns /\ HandsOwn /\ HandsInPhase /\ BuffersFilled /\ LiveIsOwned

(* A packet is not empty, and fits a payload, with two bytes more.         *)
LEMMA PacketFits ==
  ASSUME NEW p \in Packet
  PROVE  /\ p \in Seq(Byte) /\ Len(p) \in 1..Base
         /\ \A b \in Buffer : /\ b # Null
                              /\ [ptr |-> b, size |-> Len(p)] \in Payload
                              /\ [ptr |-> b, size |-> Len(p) + 2] \in Payload
  <1>1. p \in Seq(Byte) /\ Len(p) > 0 /\ p[1] + 1 = Len(p)
    BY PacketAssumption DEF Byte
  <1>2. p[1] \in Byte
    BY <1>1
  <1>3. QED
    BY <1>1, <1>2, BaseAssumption, BuffersAssumption DEF Byte, Payload, Buffer, Null

(* A payload comes to the end of a thread's queue.                         *)
LEMMA QueueGrows ==
  ASSUME TypeOK, NEW t \in Thread, NEW x \in Payload, Enqueue(t, x)
  PROVE  /\ queue' \in [Thread -> Seq(Payload)]
         /\ \A u \in Thread : \A j \in DOMAIN queue'[u] :
              \/ j \in DOMAIN queue[u] /\ queue'[u][j] = queue[u][j]
              \/ u = t /\ j = Len(queue[t]) + 1 /\ queue'[u][j] = x
         /\ \A u \in Thread : \A j \in DOMAIN queue[u] :
              j \in DOMAIN queue'[u] /\ queue'[u][j] = queue[u][j]
         /\ \E j \in DOMAIN queue'[t] : queue'[t][j] = x
  <1>1. queue \in [Thread -> Seq(Payload)]
    BY DEF TypeOK
  <1>2. queue' \in [Thread -> Seq(Payload)]
    BY <1>1 DEF Enqueue
  <1>3. \A u \in Thread : queue'[u] = IF u = t THEN Append(queue[t], x) ELSE queue[u]
    BY <1>1 DEF Enqueue
  <1>4. /\ Len(Append(queue[t], x)) = Len(queue[t]) + 1
        /\ Append(queue[t], x)[Len(queue[t]) + 1] = x
        /\ \A j \in 1..Len(queue[t]) : Append(queue[t], x)[j] = queue[t][j]
        /\ Len(queue[t]) \in Nat
        /\ DOMAIN queue[t] = 1..Len(queue[t])
        /\ DOMAIN Append(queue[t], x) = 1..(Len(queue[t]) + 1)
    BY <1>1, AppendProperties
  <1>5. QED
    BY <1>2, <1>3, <1>4, SMTT(30)

(* The first payload of a thread's queue is taken.                         *)
LEMMA QueueShrinks ==
  ASSUME TypeOK, NEW t \in Thread, queue[t] # <<>>,
         queue' = [queue EXCEPT ![t] = Tail(@)]
  PROVE  /\ queue' \in [Thread -> Seq(Payload)]
         /\ 1 \in DOMAIN queue[t] /\ Head(queue[t]) = queue[t][1]
         /\ Head(queue[t]) \in Payload
         /\ \A u \in Thread : \A j \in DOMAIN queue'[u] :
              \E k \in DOMAIN queue[u] :
                  /\ queue'[u][j] = queue[u][k] /\ (u = t => k # 1)
                  /\ k = IF u = t THEN j + 1 ELSE j
         /\ \A u \in Thread : \A k \in DOMAIN queue[u] :
              (u = t /\ k = 1) \/ \E j \in DOMAIN queue'[u] : queue'[u][j] = queue[u][k]
  <1>1. queue \in [Thread -> Seq(Payload)]
    BY DEF TypeOK
  <1>2. \A u \in Thread : queue'[u] = IF u = t THEN Tail(queue[t]) ELSE queue[u]
    BY <1>1
  <1>3. /\ Len(Tail(queue[t])) = Len(queue[t]) - 1 /\ Len(queue[t]) \in Nat \ {0}
        /\ \A j \in 1..(Len(queue[t]) - 1) : Tail(queue[t])[j] = queue[t][j + 1]
        /\ DOMAIN queue[t] = 1..Len(queue[t])
        /\ DOMAIN Tail(queue[t]) = 1..(Len(queue[t]) - 1)
        /\ Tail(queue[t]) \in Seq(Payload)
        /\ Head(queue[t]) = queue[t][1] /\ Head(queue[t]) \in Payload
    BY <1>1, HeadTailProperties
  <1>4. \A u \in Thread : \A j \in DOMAIN queue'[u] :
              \E k \in DOMAIN queue[u] :
                  /\ queue'[u][j] = queue[u][k] /\ (u = t => k # 1)
                  /\ k = IF u = t THEN j + 1 ELSE j
    <2> TAKE u \in Thread
    <2> TAKE j \in DOMAIN queue'[u]
    <2>1. CASE u = t
      <3>1. queue'[u] = Tail(queue[t])
        BY <1>2, <2>1
      <3>2. j \in 1..(Len(queue[t]) - 1)
        BY <1>3, <3>1
      <3>3. j + 1 \in 1..Len(queue[t]) /\ j + 1 # 1
        BY <1>3, <3>2
      <3>4. QED
        BY <1>3, <2>1, <3>1, <3>2, <3>3
    <2>2. CASE u # t
      BY <1>2, <2>2
    <2>3. QED
      BY <2>1, <2>2
  <1>5. ASSUME NEW u \in Thread, NEW k \in DOMAIN queue[u], ~(u = t /\ k = 1)
        PROVE  \E j \in DOMAIN queue'[u] : queue'[u][j] = queue[u][k]
    <2>1. CASE u = t
      <3>1. k - 1 \in 1..(Len(queue[t]) - 1) /\ (k - 1) + 1 = k
        BY <1>3, <1>5, <2>1
      <3>2. QED
        BY <1>2, <1>3, <2>1, <3>1
    <2>2. CASE u # t
      BY <1>2, <2>2
    <2>3. QED
      BY <2>1, <2>2
  <1>6. queue' \in [Thread -> Seq(Payload)]
    BY <1>1, <1>3
  <1>7. QED
    BY <1>3, <1>4, <1>5, <1>6

(* What is deleted is no longer live, and nothing else changes.            *)
LEMMA Deletes ==
  ASSUME NEW h \in [Buffer -> {"unused", "live", "freed"}], NEW x \in Payload
  PROVE  /\ Delete(x, h) \in [Buffer -> {"unused", "live", "freed"}]
         /\ \A b \in Buffer : Delete(x, h)[b] = IF b = x.ptr THEN "freed" ELSE h[b]
  BY BuffersAssumption DEF Delete, Payload, Buffer, Null

(* A new buffer, filled with a packet, belongs to nobody yet.              *)
LEMMA NewBuffer ==
  ASSUME TypeOK, Ownership, NEW b \in Buffer, IsNext(b), NEW p \in Packet, Holding(b, p)
  PROVE  /\ ~InQueue(b) /\ b \notin {received.ptr, current.ptr}
         /\ Live(b) \in [Buffer -> {"unused", "live", "freed"}]
         /\ \A a \in Buffer : Live(b)[a] = IF a = b THEN "live" ELSE heap[a]
         /\ bytes' \in [Buffer -> Packet \cup {<<>>}]
         /\ \A a \in Buffer : bytes'[a] = IF a = b THEN p ELSE bytes[a]
         /\ [ptr |-> b, size |-> Len(p)] \in Payload /\ b # Null
  <1>1. heap[b] = "unused"
    BY DEF IsNext
  <1>2. ~InQueue(b)
    BY <1>1 DEF Ownership, QueueOwns, InQueue
  <1>3. b # Null /\ [ptr |-> b, size |-> Len(p)] \in Payload
    BY PacketFits
  <1>4. b \notin {received.ptr, current.ptr}
    BY <1>1, <1>3 DEF Ownership, HandsOwn
  <1>5. QED
    BY <1>1, <1>2, <1>3, <1>4 DEF TypeOK, Live, Holding

(* The network thread or the curl thread puts a new packet into its queue; *)
(* the payload that was handled is deleted, if there was one.              *)
LEMMA QueuesNew ==
  ASSUME TypeOK, Ownership, NEW t \in Thread, NEW b \in Buffer, NEW p \in Packet,
         IsNext(b), Holding(b, p), Enqueue(t, [ptr |-> b, size |-> Len(p)]),
         \/ heap' = Live(b) /\ UNCHANGED <<received, netPc>>
         \/ heap' = Delete(received, Live(b)) /\ received' = None /\ netPc' = "recv"
            /\ netPc = "handle",
         UNCHANGED <<current, given>>
  PROVE  /\ Ownership'
         /\ heap' \in [Buffer -> {"unused", "live", "freed"}]
         /\ bytes' \in [Buffer -> Packet \cup {<<>>}]
         /\ queue' \in [Thread -> Seq(Payload)]
  <1> DEFINE x == [ptr |-> b, size |-> Len(p)]
  <1>1. /\ x \in Payload /\ x.ptr = b /\ x.size = Len(p)
        /\ received \in Payload /\ current \in Payload
    BY NewBuffer DEF TypeOK
  <1>2. /\ ~InQueue(b) /\ b \notin {received.ptr, current.ptr} /\ b # Null
        /\ bytes' \in [Buffer -> Packet \cup {<<>>}]
        /\ \A a \in Buffer : bytes'[a] = IF a = b THEN p ELSE bytes[a]
    BY NewBuffer
  <1>3. /\ queue' \in [Thread -> Seq(Payload)]
        /\ \A u \in Thread : \A j \in DOMAIN queue'[u] :
             \/ j \in DOMAIN queue[u] /\ queue'[u][j] = queue[u][j]
             \/ u = t /\ j = Len(queue[t]) + 1 /\ queue'[u][j] = x
        /\ \A u \in Thread : \A j \in DOMAIN queue[u] :
             j \in DOMAIN queue'[u] /\ queue'[u][j] = queue[u][j]
        /\ \E j \in DOMAIN queue'[t] : queue'[t][j] = x
    BY <1>1, QueueGrows
  <1> HIDE DEF x
  <1>4. /\ heap' \in [Buffer -> {"unused", "live", "freed"}]
        /\ heap'[b] = "live"
        /\ \A a \in Buffer : \/ heap'[a] = heap[a]
                             \/ a = b
                             \/ a = received.ptr /\ received' = None /\ heap'[a] = "freed"
        /\ \A a \in Buffer :
             a = received.ptr /\ heap'[a] = "live" => received' = received
    <2>1. CASE heap' = Live(b) /\ received' = received
      BY <2>1, NewBuffer
    <2>2. CASE heap' = Delete(received, Live(b)) /\ received' = None
      BY <1>1, <1>2, <2>2, NewBuffer, Deletes
    <2>3. QED
      BY <2>1, <2>2
  <1>5. /\ received' = received \/ received' = None
        /\ None.ptr = Null /\ \A u \in Thread : \A j \in DOMAIN queue[u] :
              queue[u][j].ptr # b /\ queue[u][j].ptr # Null
    BY <1>2, BuffersAssumption DEF InQueue, Ownership, QueueOwns, None, Null, Buffer
  <1>6. QueueOwns'
    <2> SUFFICES ASSUME NEW u \in Thread, NEW i \in DOMAIN queue'[u]
                 PROVE  /\ queue'[u][i].ptr \in Buffer /\ heap'[queue'[u][i].ptr] = "live"
                        /\ queue'[u][i].ptr \notin {received'.ptr, current.ptr}
                        /\ \A v \in Thread : \A j \in DOMAIN queue'[v] :
                             queue'[v][j].ptr = queue'[u][i].ptr => v = u /\ j = i
      BY DEF QueueOwns
    <2>1. CASE i \in DOMAIN queue[u] /\ queue'[u][i] = queue[u][i]
      <3>1. /\ queue[u][i].ptr \in Buffer /\ heap[queue[u][i].ptr] = "live"
            /\ queue[u][i].ptr \notin {received.ptr, current.ptr}
            /\ queue[u][i].ptr # b /\ queue[u][i].ptr # Null
            /\ \A v \in Thread : \A j \in DOMAIN queue[v] :
                 queue[v][j].ptr = queue[u][i].ptr => v = u /\ j = i
        BY <2>1, <1>5 DEF Ownership, QueueOwns
      <3>2. QED
        <4>1. heap'[queue[u][i].ptr] = "live"
          BY <1>4, <3>1
        <4>2. queue[u][i].ptr \notin {received'.ptr, current.ptr}
          BY <1>5, <3>1
        <4>3. \A v \in Thread : \A j \in DOMAIN queue'[v] :
                queue'[v][j].ptr = queue[u][i].ptr => v = u /\ j = i
          BY <1>1, <1>3, <3>1
        <4>4. QED
          BY <2>1, <3>1, <4>1, <4>2, <4>3
    <2>2. CASE u = t /\ i = Len(queue[t]) + 1 /\ queue'[u][i] = x
      <3>1. queue'[u][i].ptr = b
        BY <1>1, <2>2
      <3>2. b \notin {received'.ptr, current.ptr}
        BY <1>2, <1>5
      <3>3. \A v \in Thread : \A j \in DOMAIN queue'[v] :
              queue'[v][j].ptr = b => v = t /\ j = Len(queue[t]) + 1
        BY <1>3, <1>5
      <3>4. QED
        BY <1>4, <2>2, <3>1, <3>2, <3>3
    <2>3. QED
      BY <1>3, <2>1, <2>2
  <1>7. HandsOwn'
    BY <1>1, <1>2, <1>4, <1>5, BuffersAssumption
    DEF Ownership, HandsOwn, Payload, Buffer, Null
  <1>8. HandsInPhase'
    BY DEF Ownership, HandsInPhase
  <1>9. BuffersFilled'
    <2>1. received'.ptr # Null => Filled(received, 0)'
      BY <1>1, <1>2, <1>5 DEF Ownership, BuffersFilled, Filled, Payload
    <2>2. ASSUME NEW u \in Thread, NEW i \in DOMAIN queue'[u]
          PROVE  Filled(queue[u][i], 2)'
      <3>1. CASE i \in DOMAIN queue[u] /\ queue'[u][i] = queue[u][i]
        <4>1. queue[u][i].ptr # b /\ queue[u][i].ptr \in Buffer /\ Filled(queue[u][i], 2)
          BY <3>1, <1>5 DEF Ownership, QueueOwns, BuffersFilled
        <4>2. QED
          BY <1>2, <3>1, <4>1 DEF Filled
      <3>2. CASE queue'[u][i] = x
        BY <1>1, <1>2, <3>2 DEF Filled
      <3>3. QED
        BY <1>3, <3>1, <3>2
    <2>3. QED
      BY <2>1, <2>2 DEF BuffersFilled
  <1>10. LiveIsOwned'
    <2> SUFFICES ASSUME NEW a \in Buffer, heap'[a] = "live"
                 PROVE  a \in given \/ InQueue(a)' \/ a \in {received'.ptr, current.ptr}
      BY DEF LiveIsOwned
    <2>1. InQueue(a) => InQueue(a)'
      BY <1>3 DEF InQueue
    <2>2. CASE a = b
      BY <1>1, <1>3, <2>2 DEF InQueue
    <2>3. CASE a # b
      <3>1. heap[a] = "live" /\ (a = received.ptr => received' = received)
        BY <1>4, <1>5, <2>3
      <3>2. QED
        BY <2>1, <3>1, <1>5 DEF Ownership, LiveIsOwned
    <2>4. QED
      BY <2>2, <2>3
  <1>11. QED
    BY <1>2, <1>3, <1>4, <1>6, <1>7, <1>8, <1>9, <1>10 DEF Ownership

(* A packet is received.                                                   *)
LEMMA ReceiveKeeps ==
  ASSUME TypeOK, Ownership, NEW p \in Packet, Receive(p)
  PROVE  TypeOK' /\ Ownership'
  <1>1. PICK b \in Buffer : /\ IsNext(b) /\ Holding(b, p)
                            /\ heap' = Live(b)
                            /\ received' = [ptr |-> b, size |-> Len(p)]
    BY DEF Receive
  <1>2. /\ ~InQueue(b) /\ b \notin {received.ptr, current.ptr} /\ b # Null
        /\ bytes' \in [Buffer -> Packet \cup {<<>>}]
        /\ heap' \in [Buffer -> {"unused", "live", "freed"}]
        /\ \A a \in Buffer : heap'[a] = IF a = b THEN "live" ELSE heap[a]
        /\ \A a \in Buffer : bytes'[a] = IF a = b THEN p ELSE bytes[a]
        /\ received' \in Payload /\ received'.ptr = b /\ received'.size = Len(p)
    BY <1>1, NewBuffer
  <1>3. /\ netPc = "recv" /\ netPc' = "handle" /\ received = None /\ current = None
        /\ None.ptr = Null
        /\ UNCHANGED <<queue, current, encrypted, open, wireVars>>
    BY DEF Receive, Ownership, HandsInPhase, None
  <1>4. TypeOK'
    BY <1>2, <1>3 DEF TypeOK, wireVars
  <1>5. \A u \in Thread : \A j \in DOMAIN queue[u] :
          /\ queue[u][j].ptr # b /\ queue[u][j].ptr # Null
          /\ queue[u][j].ptr \in Buffer
    BY <1>2, BuffersAssumption DEF InQueue, Ownership, QueueOwns, Null, Buffer
  <1>6. QueueOwns'
    BY <1>2, <1>3, <1>5 DEF Ownership, QueueOwns
  <1>7. HandsOwn' /\ HandsInPhase'
    BY <1>2, <1>3 DEF Ownership, HandsOwn, HandsInPhase
  <1>8. BuffersFilled'
    <2>1. Filled(received, 0)'
      BY <1>2 DEF Filled
    <2>2. \A u \in Thread : \A j \in DOMAIN queue[u] : Filled(queue[u][j], 2)'
      BY <1>2, <1>3, <1>5 DEF Filled, Ownership, BuffersFilled
    <2>3. QED
      BY <1>3, <2>1, <2>2 DEF BuffersFilled
  <1>9. LiveIsOwned'
    BY <1>2, <1>3 DEF Ownership, LiveIsOwned, InQueue, wireVars
  <1>10. QED
    BY <1>4, <1>6, <1>7, <1>8, <1>9 DEF Ownership

(* The handler deletes what it has received and queues nothing.            *)
LEMMA DeletingKeeps ==
  ASSUME TypeOK, Ownership, Handled, heap' = Delete(received, heap),
         UNCHANGED <<bytes, queue>>
  PROVE  /\ Ownership' /\ heap' \in [Buffer -> {"unused", "live", "freed"}]
         /\ received' \in Payload
  <1>1. /\ received \in Payload /\ heap' \in [Buffer -> {"unused", "live", "freed"}]
        /\ \A a \in Buffer : heap'[a] = IF a = received.ptr THEN "freed" ELSE heap[a]
        /\ received' = None /\ None.ptr = Null /\ current = None
        /\ UNCHANGED <<current, given>> /\ netPc' = "recv" /\ netPc = "handle"
    BY Deletes DEF TypeOK, Handled, None, Ownership, HandsInPhase
  <1>2. received' \in Payload
    BY <1>1, BaseAssumption DEF None, Payload, Null
  <1>3. \A u \in Thread : \A j \in DOMAIN queue[u] :
          /\ queue[u][j].ptr # received.ptr /\ queue[u][j].ptr # Null
          /\ queue[u][j].ptr \in Buffer
    BY BuffersAssumption DEF Ownership, QueueOwns, Null, Buffer
  <1>4. QueueOwns'
    BY <1>1, <1>3 DEF Ownership, QueueOwns
  <1>5. HandsOwn' /\ HandsInPhase'
    BY <1>1 DEF Ownership, HandsOwn, HandsInPhase
  <1>6. BuffersFilled'
    BY <1>1 DEF Ownership, BuffersFilled, Filled
  <1>7. LiveIsOwned'
    BY <1>1 DEF Ownership, LiveIsOwned, InQueue
  <1>8. QED
    BY <1>1, <1>2, <1>4, <1>5, <1>6, <1>7 DEF Ownership

(* It sends back what it has received: the buffer is not deleted, it moves *)
(* into the queue.                                                         *)
LEMMA EchoKeeps ==
  ASSUME TypeOK, Ownership, Echo
  PROVE  TypeOK' /\ Ownership'
  <1> DEFINE x == [received EXCEPT !.size = @ + 2]
             left == [received EXCEPT !.ptr = Null]
  <1>1. /\ received \in Payload /\ received.ptr # Null /\ current = None
        /\ Filled(received, 0) /\ heap[received.ptr] = "live" /\ received.ptr \in Buffer
        /\ netPc = "handle" /\ netPc' = "recv" /\ received' = None /\ None.ptr = Null
        /\ Enqueue("network", x) /\ heap' = Delete(left, heap)
        /\ UNCHANGED <<bytes, encrypted, open, secure, whole>>
        /\ UNCHANGED <<current, wire, plain, starts, extra, given>>
    BY DEF Echo, Echoed, Handled, TypeOK, Ownership, HandsInPhase, BuffersFilled,
           HandsOwn, None, Payload
  <1>2. /\ x \in Payload /\ x.ptr = received.ptr /\ x.size = received.size + 2
        /\ left.ptr = Null
    BY <1>1, PacketFits DEF Payload, Filled
  <1>3. heap' = heap
    BY <1>1, <1>2 DEF Delete
  <1> HIDE DEF x, left
  <1>4. /\ queue' \in [Thread -> Seq(Payload)]
        /\ \A u \in Thread : \A j \in DOMAIN queue'[u] :
             \/ j \in DOMAIN queue[u] /\ queue'[u][j] = queue[u][j]
             \/ u = "network" /\ j = Len(queue["network"]) + 1 /\ queue'[u][j] = x
        /\ \A u \in Thread : \A j \in DOMAIN queue[u] :
             j \in DOMAIN queue'[u] /\ queue'[u][j] = queue[u][j]
        /\ \E j \in DOMAIN queue'["network"] : queue'["network"][j] = x
    BY <1>1, <1>2, QueueGrows DEF Thread
  <1>5. \A u \in Thread : \A j \in DOMAIN queue[u] :
          /\ queue[u][j].ptr # received.ptr /\ queue[u][j].ptr # Null
          /\ queue[u][j].ptr \in Buffer /\ heap[queue[u][j].ptr] = "live"
          /\ Filled(queue[u][j], 2)
    BY BuffersAssumption DEF Ownership, QueueOwns, Null, Buffer, BuffersFilled
  <1>6. QueueOwns'
    <2> SUFFICES ASSUME NEW u \in Thread, NEW i \in DOMAIN queue'[u]
                 PROVE  /\ queue'[u][i].ptr \in Buffer /\ heap'[queue'[u][i].ptr] = "live"
                        /\ queue'[u][i].ptr \notin {received'.ptr, current'.ptr}
                        /\ \A v \in Thread : \A j \in DOMAIN queue'[v] :
                             queue'[v][j].ptr = queue'[u][i].ptr => v = u /\ j = i
      BY DEF QueueOwns
    <2>1. CASE i \in DOMAIN queue[u] /\ queue'[u][i] = queue[u][i]
      <3>1. \A v \in Thread : \A j \in DOMAIN queue[v] :
              queue[v][j].ptr = queue[u][i].ptr => v = u /\ j = i
        BY <2>1 DEF Ownership, QueueOwns
      <3>2. QED
        BY <1>1, <1>2, <1>3, <1>4, <1>5, <2>1, <3>1, SMTT(30)
    <2>2. CASE u = "network" /\ i = Len(queue["network"]) + 1 /\ queue'[u][i] = x
      BY <1>1, <1>2, <1>3, <1>4, <1>5, <2>2
    <2>3. QED
      BY <1>4, <2>1, <2>2
  <1>7. HandsOwn' /\ HandsInPhase'
    BY <1>1 DEF HandsOwn, HandsInPhase
  <1>8. BuffersFilled'
    <2>1. ASSUME NEW u \in Thread, NEW i \in DOMAIN queue'[u]
          PROVE  Filled(queue[u][i], 2)'
      <3>1. CASE i \in DOMAIN queue[u] /\ queue'[u][i] = queue[u][i]
        BY <1>1, <1>5, <3>1 DEF Filled
      <3>2. CASE queue'[u][i] = x
        BY <1>1, <1>2, <3>2 DEF Filled
      <3>3. QED
        BY <1>4, <3>1, <3>2
    <2>2. QED
      BY <1>1, <2>1 DEF BuffersFilled
  <1>9. LiveIsOwned'
    <2>1. \A a \in Buffer : InQueue(a) => InQueue(a)'
      BY <1>4 DEF InQueue
    <2>2. \A a \in Buffer : a = received.ptr => InQueue(a)'
      BY <1>2, <1>4 DEF InQueue, Thread
    <2>3. QED
      BY <1>1, <1>3, <2>1, <2>2 DEF Ownership, LiveIsOwned
  <1>10. TypeOK'
    <2>1. received' \in Payload
      BY <1>1, BaseAssumption DEF None, Payload, Null
    <2>2. QED
      BY <1>1, <1>3, <1>4, <2>1 DEF TypeOK
  <1>11. QED
    BY <1>6, <1>7, <1>8, <1>9, <1>10 DEF Ownership

(* What is read from the buffer of a payload are bytes, as many as it is   *)
(* long.                                                                   *)
LEMMA ContentType ==
  ASSUME TypeOK, NEW x \in Payload, Filled(x, 2), NEW behind \in Behind
  PROVE  /\ Content(x, behind) \in Seq(Byte) /\ Len(Content(x, behind)) = x.size
         /\ Overlong(x) \in 0..2 /\ bytes[x.ptr] \in Seq(Byte)
  <1>1. /\ bytes[x.ptr] \in Seq(Byte) /\ Overlong(x) \in 0..2
        /\ x.size = Len(bytes[x.ptr]) + Overlong(x)
    BY PacketFits DEF Filled, Overlong, Payload
  <1>2. behind \in Seq(Byte) /\ Len(behind) = 2
    <2>1. behind \in [1..2 -> Byte]
      BY DEF Behind, Byte
    <2>2. 2 \in Nat /\ \A f \in [1..2 -> Byte] : f \in UNION {[1..n -> Byte] : n \in Nat}
      OBVIOUS
    <2>3. behind \in Seq(Byte)
      BY <2>1, <2>2, SeqDef
    <2>4. DOMAIN behind = 1..2
      BY <2>1
    <2>5. QED
      BY <2>3, <2>4, LenProperties
  <1>3. SubSeq(behind, 1, Overlong(x)) \in Seq(Byte)
        /\ Len(SubSeq(behind, 1, Overlong(x))) = Overlong(x)
    <2> DEFINE m == Overlong(x)
    <2>1. m \in 0..2 /\ 1 \in Int /\ m \in Int /\ \A i \in 1..m : behind[i] \in Byte
      <3>1. \A i \in 1..2 : behind[i] \in Byte
        BY DEF Behind, Byte
      <3> HIDE DEF m
      <3>2. m \in 0..2
        BY <1>1 DEF m
      <3>3. QED
        BY <3>1, <3>2
    <2> HIDE DEF m
    <2>2. SubSeq(behind, 1, m) \in Seq(Byte) /\ Len(SubSeq(behind, 1, m)) = m
      BY <2>1, SubSeqProperties
    <2>3. QED
      BY <2>2 DEF m
  <1>4. QED
    BY <1>1, <1>3 DEF Content

(* What the socket is given.                                               *)
Sent(x, behind) ==
    IF encrypted THEN EncryptPacket(Content(x, behind)) ELSE Content(x, behind)

(* What the socket is given are as many bytes.                             *)
LEMMA SentType ==
  ASSUME TypeOK, NEW x \in Payload, Filled(x, 2), NEW behind \in Behind
  PROVE  Sent(x, behind) \in Seq(Byte) /\ Len(Sent(x, behind)) = x.size
  BY ContentType, EncryptionBytes, KeyAssumption DEF Sent, EncryptPacket, Byte

(* The next payload moves from the queue into the hands of the network     *)
(* thread.  What this has held is no longer owned, but was given to send.  *)
LEMMA TakingKeeps ==
  ASSUME TypeOK, Ownership, NEW t \in Thread, queue[t] # <<>>,
         netPc = "send", netPc' = "send", current' = Head(queue[t]),
         queue' = [queue EXCEPT ![t] = Tail(@)],
         given' = given \cup {Head(queue[t]).ptr},
         UNCHANGED <<heap, bytes, received>>
  PROVE  Ownership'
  <1> DEFINE x == Head(queue[t])
  <1>1. /\ queue' \in [Thread -> Seq(Payload)]
        /\ 1 \in DOMAIN queue[t] /\ x = queue[t][1] /\ x \in Payload
        /\ \A u \in Thread : \A j \in DOMAIN queue'[u] :
             \E k \in DOMAIN queue[u] :
                 /\ queue'[u][j] = queue[u][k] /\ (u = t => k # 1)
                 /\ k = IF u = t THEN j + 1 ELSE j
        /\ \A u \in Thread : \A k \in DOMAIN queue[u] :
             (u = t /\ k = 1) \/ \E j \in DOMAIN queue'[u] : queue'[u][j] = queue[u][k]
    BY QueueShrinks
  <1>2. /\ x.ptr \in Buffer /\ heap[x.ptr] = "live" /\ Filled(x, 2)
        /\ x.ptr # Null /\ received = None /\ None.ptr = Null
    BY <1>1, BuffersAssumption
    DEF Ownership, QueueOwns, BuffersFilled, HandsInPhase, Buffer, Null, None
  <1> HIDE DEF x
  <1>3. QueueOwns'
    <2> SUFFICES ASSUME NEW u \in Thread, NEW i \in DOMAIN queue'[u]
                 PROVE  /\ queue'[u][i].ptr \in Buffer /\ heap[queue'[u][i].ptr] = "live"
                        /\ queue'[u][i].ptr \notin {received.ptr, x.ptr}
                        /\ \A v \in Thread : \A j \in DOMAIN queue'[v] :
                             queue'[v][j].ptr = queue'[u][i].ptr => v = u /\ j = i
      BY DEF QueueOwns, x
    <2>1. PICK k \in DOMAIN queue[u] : /\ queue'[u][i] = queue[u][k] /\ (u = t => k # 1)
                                       /\ k = IF u = t THEN i + 1 ELSE i
      BY <1>1
    <2>2. /\ queue[u][k].ptr \in Buffer /\ heap[queue[u][k].ptr] = "live"
          /\ queue[u][k].ptr # received.ptr
          /\ \A v \in Thread : \A l \in DOMAIN queue[v] :
               queue[v][l].ptr = queue[u][k].ptr => v = u /\ l = k
      BY DEF Ownership, QueueOwns
    <2>3. queue[u][k].ptr # x.ptr
      BY <1>1, <2>1, <2>2
    <2>4. ASSUME NEW v \in Thread, NEW j \in DOMAIN queue'[v],
                 queue'[v][j].ptr = queue'[u][i].ptr
          PROVE  v = u /\ j = i
      <3>1. PICK l \in DOMAIN queue[v] : /\ queue'[v][j] = queue[v][l]
                                         /\ l = IF v = t THEN j + 1 ELSE j
        BY <1>1, SMTT(30)
      <3>2. v = u /\ l = k
        BY <2>1, <2>2, <2>4, <3>1
      <3>3. i \in Nat /\ j \in Nat
        <4>1. \A q \in Seq(Payload) : DOMAIN q \subseteq Nat
          OBVIOUS
        <4>2. queue'[u] \in Seq(Payload) /\ queue'[v] \in Seq(Payload)
          BY <1>1
        <4>3. QED
          BY <4>1, <4>2
      <3>4. QED
        BY <2>1, <3>1, <3>2, <3>3
    <2>5. QED
      BY <2>1, <2>2, <2>3, <2>4
  <1>4. HandsOwn' /\ HandsInPhase'
    BY <1>2 DEF Ownership, HandsOwn, HandsInPhase, x
  <1>5. BuffersFilled'
    <2>1. ASSUME NEW u \in Thread, NEW i \in DOMAIN queue'[u]
          PROVE  Filled(queue[u][i], 2)'
      <3>1. PICK k \in DOMAIN queue[u] : queue'[u][i] = queue[u][k]
        BY <1>1
      <3>2. QED
        BY <3>1 DEF Filled, Ownership, BuffersFilled
    <2>2. QED
      BY <1>2, <2>1 DEF BuffersFilled
  <1>6. LiveIsOwned'
    <2> SUFFICES ASSUME NEW b \in Buffer, heap[b] = "live"
                 PROVE  b \in given' \/ InQueue(b)' \/ b \in {received.ptr, current'.ptr}
      BY DEF LiveIsOwned
    <2>1. InQueue(b) => InQueue(b)' \/ b = x.ptr
      <3> SUFFICES ASSUME NEW u \in Thread, NEW k \in DOMAIN queue[u],
                          queue[u][k].ptr = b, b # x.ptr
                   PROVE  InQueue(b)'
        BY DEF InQueue
      <3>1. ~(u = t /\ k = 1)
        BY <1>1
      <3>2. \E j \in DOMAIN queue'[u] : queue'[u][j] = queue[u][k]
        BY <1>1, <3>1
      <3>3. QED
        BY <3>2 DEF InQueue
    <2>2. b = current.ptr => b \in given
      BY BuffersAssumption DEF Ownership, HandsOwn, Buffer, Null
    <2>3. QED
      BY <2>1, <2>2 DEF Ownership, LiveIsOwned, x
  <1>7. QED
    BY <1>3, <1>4, <1>5, <1>6 DEF Ownership

(* The socket takes some of the bytes of a payload.                        *)
LEMMA SendNextKeeps ==
  ASSUME TypeOK, Ownership, NEW t \in Thread, NEW n \in 1..(Base + 2), SendNext(t, n)
  PROVE  TypeOK' /\ Ownership'
  <1> DEFINE x == Head(queue[t])
  <1>1. /\ netPc = "send" /\ queue[t] # <<>> /\ n <= x.size
        /\ current' = x /\ given' = given \cup {x.ptr} /\ extra' = Overlong(x)
        /\ queue' = [queue EXCEPT ![t] = Tail(@)]
        /\ UNCHANGED <<heap, bytes, received, netPc, encrypted, open, secure>>
        /\ starts' = IF encrypted THEN starts \cup {Len(wire)} ELSE starts
        /\ whole' \in BOOLEAN
    BY DEF SendNext, heapVars
  <1>2. PICK behind \in Behind :
          /\ plain' = plain \o SubSeq(Content(x, behind), 1, n)
          /\ wire' = wire \o SubSeq(Sent(x, behind), 1, n)
    BY DEF SendNext, Sent
  <1>3. x \in Payload /\ Filled(x, 2) /\ x.ptr \in Buffer
    <2>1. x \in Payload /\ 1 \in DOMAIN queue[t] /\ x = queue[t][1]
      BY <1>1, QueueShrinks
    <2>2. QED
      BY <2>1 DEF Ownership, BuffersFilled, QueueOwns
  <1>4. Ownership'
    BY <1>1, TakingKeeps
  <1> HIDE DEF x
  <1>5. /\ Content(x, behind) \in Seq(Byte) /\ Len(Content(x, behind)) = x.size
        /\ Sent(x, behind) \in Seq(Byte) /\ Len(Sent(x, behind)) = x.size
        /\ Overlong(x) \in 0..2
    BY <1>3, ContentType, SentType
  <1>6. /\ wire' \in Seq(Byte) /\ plain' \in Seq(Byte) /\ Len(plain') = Len(wire')
        /\ Len(wire') = Len(wire) + n /\ Len(wire) \in Nat
    <2>1. \A s \in Seq(Byte) :
            Len(s) = x.size => /\ SubSeq(s, 1, n) \in Seq(Byte)
                               /\ Len(SubSeq(s, 1, n)) = n
      BY <1>1, <1>3, BaseAssumption DEF Payload
    <2>2. /\ wire \in Seq(Byte) /\ plain \in Seq(Byte) /\ Len(plain) = Len(wire)
      BY DEF TypeOK, Byte
    <2>3. /\ SubSeq(Sent(x, behind), 1, n) \in Seq(Byte)
          /\ Len(SubSeq(Sent(x, behind), 1, n)) = n
          /\ SubSeq(Content(x, behind), 1, n) \in Seq(Byte)
          /\ Len(SubSeq(Content(x, behind), 1, n)) = n
      BY <1>5, <2>1
    <2>4. QED
      <3> DEFINE a == SubSeq(Sent(x, behind), 1, n)
                 b == SubSeq(Content(x, behind), 1, n)
      <3>1. /\ wire' = wire \o a /\ plain' = plain \o b
            /\ a \in Seq(Byte) /\ Len(a) = n /\ b \in Seq(Byte) /\ Len(b) = n
        BY <1>2, <2>3
      <3> HIDE DEF a, b
      <3> HIDE DEF Byte
      <3>2. wire \o a \in Seq(Byte) /\ Len(wire \o a) = Len(wire) + Len(a)
        BY <2>2, <3>1, ConcatProperties
      <3>3. plain \o b \in Seq(Byte) /\ Len(plain \o b) = Len(plain) + Len(b)
        BY <2>2, <3>1, ConcatProperties
      <3>4. Len(wire) \in Nat
        BY <2>2
      <3>5. QED
        BY <2>2, <3>1, <3>2, <3>3, <3>4
  <1>7. queue' \in [Thread -> Seq(Payload)]
    BY <1>1, QueueShrinks
  <1>8. secure \in 0..Len(wire') /\ starts' \subseteq 0..Len(wire')
    <2>1. /\ secure \in 0..Len(wire) /\ starts \subseteq 0..Len(wire)
          /\ Len(wire) \in 0..Len(wire') /\ 0..Len(wire) \subseteq 0..Len(wire')
      BY <1>6, BaseAssumption DEF TypeOK
    <2>2. starts' \subseteq starts \cup {Len(wire)}
      BY <1>1
    <2>3. QED
      BY <2>1, <2>2
  <1>9. QED
    BY <1>1, <1>3, <1>4, <1>5, <1>6, <1>7, <1>8 DEF TypeOK, Byte

(* Everything is sent, and the last payload is destroyed.                  *)
LEMMA EndSendKeeps ==
  ASSUME TypeOK, Ownership, EndSend
  PROVE  TypeOK' /\ Ownership'
  <1>1. /\ netPc = "send" /\ netPc' = "recv" /\ current' = None /\ received = None
        /\ None.ptr = Null /\ None \in Payload
        /\ heap' \in [Buffer -> {"unused", "live", "freed"}]
        /\ \A b \in Buffer : heap'[b] = IF b = current.ptr THEN "freed" ELSE heap[b]
        /\ UNCHANGED <<bytes, received, queue, encrypted, open, wireVars>>
        /\ \A t \in Thread : DOMAIN queue[t] = {}
    <2>1. \A t \in Thread : DOMAIN queue[t] = {}
      BY DEF EndSend
    <2>2. None.ptr = Null /\ None \in Payload
      BY BaseAssumption DEF None, Payload, Null
    <2>3. heap \in [Buffer -> {"unused", "live", "freed"}] /\ current \in Payload
      BY DEF TypeOK
    <2>4. /\ netPc = "send" /\ netPc' = "recv" /\ current' = None
          /\ heap' = Delete(current, heap)
          /\ UNCHANGED <<bytes, received, queue, encrypted, open, wireVars>>
      BY DEF EndSend, Return
    <2>5. received = None
      BY <2>4 DEF Ownership, HandsInPhase
    <2>6. QED
      BY <2>1, <2>2, <2>3, <2>4, <2>5, Deletes
  <1>2. TypeOK'
    BY <1>1 DEF TypeOK, wireVars
  <1>3. QueueOwns' /\ BuffersFilled'
    BY <1>1 DEF QueueOwns, BuffersFilled
  <1>4. HandsOwn' /\ HandsInPhase'
    BY <1>1 DEF HandsOwn, HandsInPhase
  <1>5. LiveIsOwned'
    BY <1>1 DEF Ownership, LiveIsOwned, InQueue, wireVars
  <1>6. QED
    BY <1>2, <1>3, <1>4, <1>5 DEF Ownership

(* send fails: the payload it was given is destroyed, the one before it is *)
(* no longer owned.                                                        *)
LEMMA SendFailsKeeps ==
  ASSUME TypeOK, Ownership, NEW t \in Thread, SendFails(t)
  PROVE  TypeOK' /\ Ownership'
  <1> DEFINE x == Head(queue[t])
  <1>1. /\ netPc = "send" /\ netPc' = "recv" /\ current' = None /\ received = None
        /\ received' = None /\ queue[t] # <<>>
        /\ None.ptr = Null /\ None \in Payload
        /\ heap' = Delete(x, heap) /\ given' = given \cup {x.ptr}
        /\ queue' = [queue EXCEPT ![t] = Tail(@)] /\ open' = FALSE /\ whole' = FALSE
        /\ UNCHANGED <<bytes, encrypted, wire, plain, secure, starts, extra>>
    BY BaseAssumption
    DEF SendFails, Return, Ownership, HandsInPhase, None, Payload, Null
  <1>2. /\ queue' \in [Thread -> Seq(Payload)]
        /\ 1 \in DOMAIN queue[t] /\ x = queue[t][1] /\ x \in Payload
        /\ \A u \in Thread : \A j \in DOMAIN queue'[u] :
             \E k \in DOMAIN queue[u] :
                 /\ queue'[u][j] = queue[u][k] /\ (u = t => k # 1)
                 /\ k = IF u = t THEN j + 1 ELSE j
        /\ \A u \in Thread : \A k \in DOMAIN queue[u] :
             (u = t /\ k = 1) \/ \E j \in DOMAIN queue'[u] : queue'[u][j] = queue[u][k]
    BY <1>1, QueueShrinks
  <1>3. /\ x.ptr \in Buffer /\ heap' \in [Buffer -> {"unused", "live", "freed"}]
        /\ \A b \in Buffer : heap'[b] = IF b = x.ptr THEN "freed" ELSE heap[b]
    <2>1. x.ptr \in Buffer
      BY <1>2 DEF Ownership, QueueOwns
    <2>2. heap \in [Buffer -> {"unused", "live", "freed"}] /\ heap' = Delete(x, heap)
      BY <1>1 DEF TypeOK
    <2> HIDE DEF x
    <2>3. QED
      BY <1>2, <2>1, <2>2, Deletes
  <1> HIDE DEF x
  <1>4. TypeOK'
    BY <1>1, <1>2, <1>3 DEF TypeOK
  <1>5. QueueOwns'
    <2> SUFFICES ASSUME NEW u \in Thread, NEW i \in DOMAIN queue'[u]
                 PROVE  /\ queue'[u][i].ptr \in Buffer /\ heap'[queue'[u][i].ptr] = "live"
                        /\ queue'[u][i].ptr # Null
                        /\ \A v \in Thread : \A j \in DOMAIN queue'[v] :
                             queue'[v][j].ptr = queue'[u][i].ptr => v = u /\ j = i
      BY <1>1 DEF QueueOwns
    <2>1. PICK k \in DOMAIN queue[u] : /\ queue'[u][i] = queue[u][k] /\ (u = t => k # 1)
                                       /\ k = IF u = t THEN i + 1 ELSE i
      BY <1>2
    <2>2. /\ queue[u][k].ptr \in Buffer /\ heap[queue[u][k].ptr] = "live"
          /\ queue[u][k].ptr # Null
          /\ \A v \in Thread : \A l \in DOMAIN queue[v] :
               queue[v][l].ptr = queue[u][k].ptr => v = u /\ l = k
      BY BuffersAssumption DEF Ownership, QueueOwns, Buffer, Null
    <2>3. queue[u][k].ptr # x.ptr
      BY <1>2, <2>1, <2>2
    <2>4. ASSUME NEW v \in Thread, NEW j \in DOMAIN queue'[v],
                 queue'[v][j].ptr = queue'[u][i].ptr
          PROVE  v = u /\ j = i
      <3>1. PICK l \in DOMAIN queue[v] : /\ queue'[v][j] = queue[v][l]
                                         /\ l = IF v = t THEN j + 1 ELSE j
        BY <1>2
      <3>2. v = u /\ l = k
        BY <2>1, <2>2, <2>4, <3>1
      <3>3. i \in Nat /\ j \in Nat
        <4>1. \A q \in Seq(Payload) : DOMAIN q \subseteq Nat
          OBVIOUS
        <4>2. queue'[u] \in Seq(Payload) /\ queue'[v] \in Seq(Payload)
          BY <1>2
        <4>3. QED
          BY <4>1, <4>2
      <3>4. QED
        BY <2>1, <3>1, <3>2, <3>3
    <2>5. QED
      BY <1>3, <2>1, <2>2, <2>3, <2>4
  <1>6. HandsOwn' /\ HandsInPhase'
    BY <1>1 DEF HandsOwn, HandsInPhase
  <1>7. BuffersFilled'
    <2>1. ASSUME NEW u \in Thread, NEW i \in DOMAIN queue'[u]
          PROVE  Filled(queue[u][i], 2)'
      <3>1. PICK k \in DOMAIN queue[u] : queue'[u][i] = queue[u][k]
        BY <1>2
      <3>2. QED
        BY <1>1, <3>1 DEF Filled, Ownership, BuffersFilled
    <2>2. QED
      BY <1>1, <2>1 DEF BuffersFilled
  <1>8. LiveIsOwned'
    <2> SUFFICES ASSUME NEW b \in Buffer, heap'[b] = "live"
                 PROVE  b \in given' \/ InQueue(b)'
      BY DEF LiveIsOwned
    <2>1. heap[b] = "live" /\ b # x.ptr
      BY <1>3
    <2>2. InQueue(b) => InQueue(b)'
      <3> SUFFICES ASSUME NEW u \in Thread, NEW k \in DOMAIN queue[u],
                          queue[u][k].ptr = b
                   PROVE  InQueue(b)'
        BY DEF InQueue
      <3>1. ~(u = t /\ k = 1)
        BY <1>2, <2>1
      <3>2. \E j \in DOMAIN queue'[u] : queue'[u][j] = queue[u][k]
        BY <1>2, <3>1
      <3>3. QED
        BY <3>2 DEF InQueue
    <2>3. b # Null /\ (b = current.ptr => b \in given)
      BY BuffersAssumption DEF Ownership, HandsOwn, Buffer, Null
    <2>4. QED
      BY <1>1, <2>1, <2>2, <2>3 DEF Ownership, LiveIsOwned
  <1>9. QED
    BY <1>4, <1>5, <1>6, <1>7, <1>8 DEF Ownership

(* The connection is destroyed with its queue.                             *)
LEMMA DestroyKeeps ==
  ASSUME TypeOK, Ownership, Destroy
  PROVE  TypeOK' /\ Ownership'
  <1>1. /\ netPc = "recv" /\ netPc' = "gone" /\ received = None /\ current = None
        /\ None.ptr = Null
        /\ queue' = [t \in Thread |-> <<>>]
        /\ heap' = [b \in Buffer |-> IF InQueue(b) THEN "freed" ELSE heap[b]]
        /\ UNCHANGED <<bytes, received, current, encrypted, open, wireVars>>
    BY DEF Destroy, Ownership, HandsInPhase, None, InQueue
  <1>2. /\ queue' \in [Thread -> Seq(Payload)]
        /\ \A t \in Thread : DOMAIN queue'[t] = {}
    <2>1. <<>> \in Seq(Payload) /\ DOMAIN <<>> = {}
      OBVIOUS
    <2>2. QED
      BY <1>1, <2>1
  <1>3. heap' \in [Buffer -> {"unused", "live", "freed"}]
    BY <1>1 DEF TypeOK
  <1>4. TypeOK'
    BY <1>1, <1>2, <1>3 DEF TypeOK, wireVars
  <1>5. QueueOwns' /\ BuffersFilled' /\ HandsOwn' /\ HandsInPhase'
    BY <1>1, <1>2 DEF QueueOwns, BuffersFilled, HandsOwn, HandsInPhase
  <1>6. LiveIsOwned'
    BY <1>1 DEF Ownership, LiveIsOwned, wireVars
  <1>7. QED
    BY <1>4, <1>5, <1>6 DEF Ownership

(* A packet is made and queued by a handler or by the callback.            *)
LEMMA QueueingKeeps ==
  ASSUME TypeOK, Ownership, NEW p \in Packet, Reply(p) \/ Callback(p)
  PROVE  TypeOK' /\ Ownership'
  <1>1. CASE Reply(p)
    <2>1. PICK b \in Buffer : /\ IsNext(b) /\ Holding(b, p)
                              /\ heap' = Delete(received, Live(b))
                              /\ Enqueue("network", [ptr |-> b, size |-> Len(p)])
      BY <1>1 DEF Reply
    <2>2. /\ netPc = "handle" /\ netPc' = "recv" /\ received' = None
          /\ UNCHANGED <<current, wire, plain, starts, extra, given>>
          /\ UNCHANGED <<encrypted, open, secure, whole>>
      BY <1>1 DEF Reply, Handled
    <2>3. /\ Ownership' /\ heap' \in [Buffer -> {"unused", "live", "freed"}]
          /\ bytes' \in [Buffer -> Packet \cup {<<>>}]
          /\ queue' \in [Thread -> Seq(Payload)]
      BY <2>1, <2>2, QueuesNew DEF Thread
    <2>4. received' \in Payload
      BY <2>2, BaseAssumption DEF None, Payload, Null
    <2>5. TypeOK'
      BY <2>2, <2>3, <2>4 DEF TypeOK
    <2>6. QED
      BY <2>3, <2>5
  <1>2. CASE Callback(p)
    <2>1. PICK b \in Buffer : /\ IsNext(b) /\ Holding(b, p) /\ heap' = Live(b)
                              /\ Enqueue("curl", [ptr |-> b, size |-> Len(p)])
      BY <1>2 DEF Callback
    <2>2. UNCHANGED <<received, current, netPc, encrypted, open, wireVars>>
      BY <1>2 DEF Callback
    <2>3. /\ Ownership' /\ heap' \in [Buffer -> {"unused", "live", "freed"}]
          /\ bytes' \in [Buffer -> Packet \cup {<<>>}]
          /\ queue' \in [Thread -> Seq(Payload)]
      BY <2>1, <2>2, QueuesNew DEF Thread, wireVars
    <2>4. TypeOK'
      BY <2>2, <2>3 DEF TypeOK, wireVars
    <2>5. QED
      BY <2>3, <2>4
  <1>3. QED
    BY <1>1, <1>2

(* A step that changes neither buffers nor payloads.                       *)
LEMMA OthersKeep ==
  ASSUME TypeOK, Ownership, BeginSend \/ RecvClosed \/ UNCHANGED vars
  PROVE  TypeOK' /\ Ownership'
  <1>1. /\ UNCHANGED <<heap, bytes, received, queue, given>>
        /\ UNCHANGED <<encrypted, wire, plain, secure, starts, extra>>
        /\ current' = current /\ netPc' \in {netPc, "send"}
        /\ netPc # netPc' => netPc = "recv"
        /\ open' \in BOOLEAN /\ whole' \in BOOLEAN
    BY DEF BeginSend, RecvClosed, vars, heapVars, wireVars, TypeOK, Ownership, HandsInPhase
  <1>2. TypeOK'
    BY <1>1 DEF TypeOK
  <1>3. QueueOwns' /\ BuffersFilled' /\ HandsOwn'
    BY <1>1 DEF Ownership, QueueOwns, BuffersFilled, Filled, HandsOwn
  <1>4. HandsInPhase' /\ LiveIsOwned'
    BY <1>1 DEF Ownership, HandsInPhase, LiveIsOwned, InQueue
  <1>5. QED
    BY <1>2, <1>3, <1>4 DEF Ownership

(* Every step keeps the types and who owns what.                           *)
LEMMA OwnershipInductive ==
  ASSUME TypeOK, Ownership, [Next]_vars
  PROVE  TypeOK' /\ Ownership'
  <1>1. CASE Ignore \/ EnableEncryption
    <2>1. /\ Handled /\ heap' = Delete(received, heap) /\ UNCHANGED <<bytes, queue>>
      BY <1>1 DEF Ignore, EnableEncryption
    <2>2. /\ Ownership' /\ heap' \in [Buffer -> {"unused", "live", "freed"}]
          /\ received' \in Payload
      BY <2>1, DeletingKeeps
    <2>3. /\ netPc' = "recv"
          /\ UNCHANGED <<bytes, queue, current, wire, plain, starts, extra, given>>
      BY <2>1 DEF Handled
    <2>4. /\ encrypted' \in BOOLEAN /\ open' \in BOOLEAN /\ whole' \in BOOLEAN
          /\ secure' \in 0..Len(wire)
      <3>1. CASE Ignore
        BY <3>1 DEF Ignore, TypeOK
      <3>2. CASE EnableEncryption
        <4>1. Len(wire) \in Nat /\ secure \in 0..Len(wire)
          BY DEF TypeOK
        <4>2. QED
          BY <3>2, <4>1 DEF EnableEncryption, TypeOK
      <3>3. QED
        BY <1>1, <3>1, <3>2
    <2>5. TypeOK'
      BY <2>2, <2>3, <2>4 DEF TypeOK
    <2>6. QED
      BY <2>2, <2>5
  <1>2. CASE Echo \/ EndSend \/ Destroy \/ BeginSend \/ RecvClosed \/ UNCHANGED vars
    BY <1>2, EchoKeeps, EndSendKeeps, DestroyKeeps, OthersKeep
  <1>3. ASSUME NEW t \in Thread, NEW n \in 1..(Base + 2), SendNext(t, n)
        PROVE  TypeOK' /\ Ownership'
    BY <1>3, SendNextKeeps
  <1>4. ASSUME NEW t \in Thread, SendFails(t) PROVE TypeOK' /\ Ownership'
    BY <1>4, SendFailsKeeps
  <1>5. ASSUME NEW p \in Packet, Reply(p) \/ Callback(p) \/ Receive(p)
        PROVE  TypeOK' /\ Ownership'
    BY <1>5, QueueingKeeps, ReceiveKeeps
  <1>6. QED
    BY <1>1, <1>2, <1>3, <1>4, <1>5 DEF Next, NetworkStep

(* Every variable keeps its type; in particular nothing is sent but bytes, *)
(* and of every payload as many as it is long.                             *)
THEOREM SendingTypeCorrect == Spec => [](TypeOK /\ Ownership)
  <1>1. Init => TypeOK /\ Ownership
    <2> SUFFICES ASSUME Init PROVE TypeOK /\ Ownership
      OBVIOUS
    <2>1. /\ None.ptr = Null /\ None \in Payload /\ <<>> \in Seq(Payload)
          /\ DOMAIN <<>> = {} /\ <<>> \in Seq(0..(Base - 1)) /\ Len(<<>>) = 0
      BY BaseAssumption DEF None, Payload, Null
    <2>2. /\ heap \in [Buffer -> {"unused", "live", "freed"}]
          /\ bytes \in [Buffer -> Packet \cup {<<>>}]
          /\ queue \in [Thread -> Seq(Payload)]
          /\ \A t \in Thread : DOMAIN queue[t] = {}
          /\ \A b \in Buffer : heap[b] = "unused"
      BY <2>1 DEF Init
    <2>3. TypeOK
      <3>1. open \in BOOLEAN /\ encrypted \in BOOLEAN /\ whole \in BOOLEAN
        BY DEF Init
      <3>2. /\ secure \in 0..Len(wire) /\ starts \subseteq 0..Len(wire)
            /\ Len(plain) = Len(wire) /\ extra \in 0..2 /\ given \subseteq Buffer
        BY <2>1 DEF Init
      <3>3. QED
        BY <2>1, <2>2, <3>1, <3>2 DEF Init, TypeOK
    <2>4. QueueOwns /\ HandsOwn /\ HandsInPhase /\ BuffersFilled /\ LiveIsOwned
      BY <2>1, <2>2
      DEF Init, QueueOwns, HandsOwn, HandsInPhase, BuffersFilled, LiveIsOwned
    <2>5. QED
      BY <2>3, <2>4 DEF Ownership
  <1>2. TypeOK /\ Ownership /\ [Next]_vars => (TypeOK /\ Ownership)'
    BY OwnershipInductive
  <1>3. QED
    BY <1>1, <1>2, PTL DEF Spec

(* Where the slots of the queue are.                                       *)
LEMMA SlotsQueued ==
  \A e : e \in Queued <=>
           \E t \in Thread : \E i \in DOMAIN queue[t] : e = <<t, i>>
  BY DEF Queued

(* No buffer has two owners: none is deleted twice, or sent after it was   *)
(* deleted, in whatever order the two threads queue and send.              *)
THEOREM BuffersOwnedOnce == Spec => []OwnedOnce
  <1>1. TypeOK /\ Ownership => OwnedOnce
    <2> SUFFICES ASSUME Ownership PROVE OwnedOnce
      OBVIOUS
    <2>1. ASSUME NEW e \in Queued
          PROVE  /\ heap[Ptr(e)] = "live" /\ Ptr(e) \notin {received.ptr, current.ptr}
                 /\ \A f \in Queued : Ptr(e) = Ptr(f) => e = f
      <3>1. PICK t \in Thread : \E i \in DOMAIN queue[t] : e = <<t, i>>
        BY SlotsQueued
      <3>2. PICK i \in DOMAIN queue[t] : e = <<t, i>>
        BY <3>1
      <3>3. Ptr(e) = queue[t][i].ptr
        BY <3>2 DEF Ptr
      <3>4. ASSUME NEW f \in Queued, Ptr(e) = Ptr(f) PROVE e = f
        <4>1. PICK u \in Thread : \E j \in DOMAIN queue[u] : f = <<u, j>>
          BY SlotsQueued
        <4>2. PICK j \in DOMAIN queue[u] : f = <<u, j>>
          BY <4>1
        <4>3. queue[u][j].ptr = queue[t][i].ptr
          BY <3>3, <3>4, <4>2 DEF Ptr
        <4>4. QED
          BY <3>2, <4>2, <4>3 DEF Ownership, QueueOwns
      <3>5. QED
        BY <3>3, <3>4 DEF Ownership, QueueOwns
    <2>2. QED
      BY <2>1 DEF OwnedOnce, Ownership, HandsOwn
  <1>2. QED
    BY <1>1, SendingTypeCorrect, PTL

(* Nothing leaks but the buffers of packets that were sent.                *)
THEOREM OnlySentBuffersLeak == Spec => []OnlySentLeaks
  <1>1. TypeOK /\ Ownership => OnlySentLeaks
    <2> SUFFICES ASSUME Ownership, NEW b \in Buffer, heap[b] = "live"
                 PROVE  b \in given \cup {Ptr(e) : e \in Queued}
                                    \cup {received.ptr, current.ptr}
      BY DEF OnlySentLeaks
    <2>1. InQueue(b) => \E e \in Queued : b = Ptr(e)
      <3> SUFFICES ASSUME NEW t \in Thread, NEW i \in DOMAIN queue[t],
                          queue[t][i].ptr = b
                   PROVE  \E e \in Queued : b = Ptr(e)
        BY DEF InQueue
      <3>1. <<t, i>> \in Queued /\ Ptr(<<t, i>>) = b
        BY SlotsQueued DEF Ptr
      <3>2. QED
        BY <3>1
    <2>2. QED
      BY <2>1 DEF Ownership, LiveIsOwned
  <1>2. QED
    BY <1>1, SendingTypeCorrect, PTL

(***************************************************************************)
(* What the client makes of the cipher text.                               *)
(***************************************************************************)

(* Every byte on the wire was enciphered, if it was, with what a start of  *)
(* the cipher and the cipher text since then have left in the register.    *)
StartedSince(s, i) ==
    wire[i] = (plain[i] + Pad(Register(Key, SubSeq(wire, s + 1, i - 1)))) % Base

CipherInv ==
    /\ ~encrypted => starts = {}
    /\ \A s \in starts : s >= secure
    /\ \A i \in 1..Len(wire) :
         IF encrypted /\ i > secure
         THEN \E s \in starts : s < i /\ StartedSince(s, i)
         ELSE wire[i] = plain[i]

(* Taking off the pad gives back what it was put on.                       *)
LEMMA PadComesOff ==
  ASSUME NEW p \in Byte, NEW x \in Byte
  PROVE  (((p + x) % Base) - x) % Base = p
  <1>1. \A a \in 0..(Base - 1) : a % Base = a
    BY BaseAssumption
  <1>2. \A a \in Base..(2 * Base - 1) : a % Base = a - Base
    BY BaseAssumption
  <1>3. \A a \in (-Base)..(-1) : a % Base = a + Base
    BY BaseAssumption
  <1>4. CASE p + x < Base
    BY <1>1, <1>4, BaseAssumption DEF Byte
  <1>5. CASE p + x >= Base
    BY <1>2, <1>3, <1>5, BaseAssumption DEF Byte
  <1>6. QED
    BY <1>4, <1>5, BaseAssumption DEF Byte

(* Once a block of cipher text has gone through it, the register holds     *)
(* that block, wherever the cipher was started.                            *)
LEMMA RegisterForgets ==
  ASSUME TypeOK, NEW s \in Nat, NEW r \in Nat, NEW i \in 1..Len(wire),
         s + Block < i, r + Block < i
  PROVE  Register(Key, SubSeq(wire, s + 1, i - 1))
           = Register(Key, SubSeq(wire, r + 1, i - 1))
  <1>1. wire \in Seq(Byte) /\ Key \in Seq(Byte) /\ Len(Key) = Block /\ Block \in Nat \ {0}
    BY KeyAssumption DEF TypeOK, Byte
  <1>2. ASSUME NEW q \in Nat, q + Block < i
        PROVE  Register(Key, SubSeq(wire, q + 1, i - 1))
                 = [j \in 1..Block |-> wire[i - 1 - Block + j]]
    <2> DEFINE c == SubSeq(wire, q + 1, i - 1)
    <2>1. /\ c \in Seq(Byte) /\ Len(c) = i - 1 - q
          /\ \A j \in 1..(i - 1 - q) : c[j] = wire[q + j]
      <3>1. /\ q + 1 \in Int /\ i - 1 \in Int /\ (i - 1) - (q + 1) + 1 = i - 1 - q
            /\ q + 1 <= i - 1 /\ \A j \in (q + 1)..(i - 1) : wire[j] \in Byte
        BY <1>1, <1>2, ElementOfSeq
      <3>2. /\ c \in Seq(Byte) /\ Len(c) = (i - 1) - (q + 1) + 1
            /\ \A j \in 1..((i - 1) - (q + 1) + 1) : c[j] = wire[(q + 1) + j - 1]
        BY <3>1, SubSeqProperties
      <3>3. \A j \in 1..(i - 1 - q) : (q + 1) + j - 1 = q + j
        OBVIOUS
      <3>4. QED
        BY <3>1, <3>2, <3>3
    <2> HIDE DEF c
    <2>2. /\ Len(Key \o c) = Block + Len(c)
          /\ \A j \in 1..(Block + Len(c)) :
               (Key \o c)[j] = IF j <= Block THEN Key[j] ELSE c[j - Block]
      BY <1>1, <2>1, ConcatProperties
    <2>3. Register(Key, c) = [j \in 1..Block |-> (Key \o c)[Len(c) + j]]
      BY <1>1, <2>1, <2>2, SMTT(30) DEF Register
    <2>4. ASSUME NEW j \in 1..Block
          PROVE  (Key \o c)[Len(c) + j] = wire[i - 1 - Block + j]
      <3> DEFINE k == Len(c) + j
                 e == k - Block
      <3>1. /\ k \in 1..(Block + Len(c)) /\ ~(k <= Block)
            /\ e \in 1..(i - 1 - q) /\ q + e = i - 1 - Block + j
        BY <1>1, <1>2, <2>1
      <3>2. (Key \o c)[k] = c[e]
        <4>1. (Key \o c)[k] = c[k - Block]
          <5> HIDE DEF k
          <5>1. QED
            BY <2>2, <3>1
        <4>2. QED
          BY <4>1
      <3>3. c[e] = wire[q + e]
        <4> HIDE DEF e
        <4>1. QED
          BY <2>1, <3>1
      <3>4. (Key \o c)[k] = wire[i - 1 - Block + j]
        <4> HIDE DEF e, k
        <4>1. QED
          BY <3>1, <3>2, <3>3
      <3>5. QED
        BY <3>4
    <2>5. QED
      BY <2>3, <2>4 DEF c
  <1>3. QED
    BY <1>2

(* The bytes that are sent follow those that were; each was put on the     *)
(* wire as it is, or enciphered since this start.                          *)
LEMMA SendNextCiphers ==
  ASSUME TypeOK, Ownership, CipherInv,
         NEW t \in Thread, NEW n \in 1..(Base + 2), SendNext(t, n)
  PROVE  CipherInv'
  <1> DEFINE x == Head(queue[t])
  <1>0. PICK l \in Nat : l = Len(wire)
    BY DEF TypeOK
  <1>1. /\ queue[t] # <<>> /\ n <= x.size
        /\ queue' = [queue EXCEPT ![t] = Tail(@)]
        /\ UNCHANGED <<encrypted, secure>>
        /\ starts' = IF encrypted THEN starts \cup {l} ELSE starts
    BY <1>0 DEF SendNext
  <1>2. PICK behind \in Behind :
          /\ plain' = plain \o SubSeq(Content(x, behind), 1, n)
          /\ wire' = wire \o SubSeq(Sent(x, behind), 1, n)
    BY DEF SendNext, Sent
  <1>3. x \in Payload /\ Filled(x, 2)
    <2>1. x \in Payload /\ 1 \in DOMAIN queue[t] /\ x = queue[t][1]
      BY <1>1, QueueShrinks
    <2>2. QED
      BY <2>1 DEF Ownership, BuffersFilled
  <1> DEFINE c == Content(x, behind)
             d == Sent(x, behind)
             cn == SubSeq(c, 1, n)
             dn == SubSeq(d, 1, n)
  <1>4. /\ c \in Seq(Byte) /\ Len(c) = x.size
        /\ d \in Seq(Byte) /\ Len(d) = x.size
    BY <1>3, ContentType, SentType
  <1>5. /\ ~encrypted => d = c
        /\ encrypted => \A k \in 1..Len(c) :
             d[k] = (c[k] + Pad(Register(Key, SubSeq(d, 1, k - 1)))) % Base
    <2>1. ~encrypted => d = c
      BY DEF Sent
    <2>2. encrypted => d = Encryption(c, Key)
      BY DEF Sent, EncryptPacket
    <2>3. Key \in Seq(Byte) /\ Len(Key) = Block
      BY KeyAssumption DEF Byte
    <2> HIDE DEF c, d
    <2>4. QED
      BY <1>4, <2>1, <2>2, <2>3, EncryptionBytes
  <1>6. /\ n \in Nat /\ l \in Nat
        /\ wire \in Seq(Byte) /\ plain \in Seq(Byte) /\ Len(plain) = l
        /\ secure \in 0..l /\ starts \subseteq 0..l /\ encrypted \in BOOLEAN
    BY <1>0, BaseAssumption DEF TypeOK, Byte
  <1>7. n <= Len(c) /\ n <= Len(d) /\ 1 \in Nat \ {0} /\ 1 <= n + 1
    BY <1>1, <1>4, <1>6
  <1> HIDE DEF x, c, d
  <1>8. /\ cn \in Seq(Byte) /\ Len(cn) = n /\ \A k \in 1..n : cn[k] = c[k]
        /\ dn \in Seq(Byte) /\ Len(dn) = n /\ \A k \in 1..n : dn[k] = d[k]
    <2>1. n - 1 + 1 = n /\ \A k \in 1..n : 1 + k - 1 = k
      BY <1>6
    <2>2. /\ cn \in Seq(Byte) /\ Len(cn) = n - 1 + 1
          /\ \A k \in 1..(n - 1 + 1) : cn[k] = c[1 + k - 1]
      BY <1>4, <1>6, <1>7, PartIs
    <2>3. /\ dn \in Seq(Byte) /\ Len(dn) = n - 1 + 1
          /\ \A k \in 1..(n - 1 + 1) : dn[k] = d[1 + k - 1]
      BY <1>4, <1>6, <1>7, PartIs
    <2>4. QED
      BY <2>1, <2>2, <2>3
  <1>9. wire' = wire \o dn /\ plain' = plain \o cn
    BY <1>2 DEF c, d
  <1> HIDE DEF cn, dn
  <1>10. /\ Len(wire') = l + n /\ Len(plain') = l + n
         /\ \A i \in 1..l : wire'[i] = wire[i] /\ plain'[i] = plain[i]
         /\ \A i \in (l + 1)..(l + n) : wire'[i] = dn[i - l] /\ plain'[i] = cn[i - l]
    <2>0. \A a, b \in Seq(Byte) :
            Len(a) = l /\ Len(b) = n =>
              /\ Len(a \o b) = l + n
              /\ \A i \in 1..(l + n) : (a \o b)[i] = IF i <= l THEN a[i] ELSE b[i - l]
      <3> SUFFICES ASSUME NEW a \in Seq(Byte), NEW b \in Seq(Byte), Len(a) = l, Len(b) = n
                   PROVE  /\ Len(a \o b) = l + n
                          /\ \A i \in 1..(l + n) :
                               (a \o b)[i] = IF i <= l THEN a[i] ELSE b[i - l]
        OBVIOUS
      <3>1. /\ Len(a \o b) = Len(a) + Len(b)
            /\ \A i \in 1..(Len(a) + Len(b)) :
                 (a \o b)[i] = IF i <= Len(a) THEN a[i] ELSE b[i - Len(a)]
        BY ConcatProperties
      <3>2. QED
        BY <3>1
    <2>1. /\ Len(wire \o dn) = l + n
          /\ \A i \in 1..(l + n) : (wire \o dn)[i] = IF i <= l THEN wire[i] ELSE dn[i - l]
      BY <1>0, <1>6, <1>8, <2>0
    <2>2. /\ Len(plain \o cn) = l + n
          /\ \A i \in 1..(l + n) : (plain \o cn)[i] = IF i <= l THEN plain[i] ELSE cn[i - l]
      BY <1>6, <1>8, <2>0
    <2>3. /\ \A i \in 1..l : i \in 1..(l + n) /\ i <= l
          /\ \A i \in (l + 1)..(l + n) : i \in 1..(l + n) /\ ~(i <= l)
      BY <1>6
    <2>4. QED
      BY <1>9, <2>1, <2>2, <2>3
  <1>11. ASSUME NEW i \in 1..l
         PROVE  IF encrypted /\ i > secure
                THEN \E s \in starts' : s < i /\ StartedSince(s, i)'
                ELSE wire'[i] = plain'[i]
    <2>1. CASE encrypted /\ i > secure
      <3>1. PICK s \in starts : s < i /\ StartedSince(s, i)
        BY <1>0, <2>1 DEF CipherInv
      <3>2. SubSeq(wire', s + 1, i - 1) = SubSeq(wire, s + 1, i - 1)
        <4>1. /\ s + 1 \in Nat \ {0} /\ i - 1 \in Nat /\ i - 1 <= Len(wire)
              /\ s + 1 <= (i - 1) + 1
          BY <1>0, <1>6, <3>1
        <4>2. QED
          BY <1>6, <1>8, <1>9, <4>1, PartOfPrefix, ZenonT(40)
      <3>3. wire'[i] = wire[i] /\ plain'[i] = plain[i]
        BY <1>10
      <3>4. StartedSince(s, i)'
        BY <3>1, <3>2, <3>3 DEF StartedSince
      <3>5. QED
        BY <1>1, <2>1, <3>1, <3>4
    <2>2. CASE ~(encrypted /\ i > secure)
      BY <1>0, <1>10, <2>2 DEF CipherInv
    <2>3. QED
      BY <2>1, <2>2
  <1>12. ASSUME NEW i \in (l + 1)..(l + n), encrypted
         PROVE  l \in starts' /\ l < i /\ StartedSince(l, i)'
    <2> DEFINE k == i - l
    <2>1. k \in 1..n /\ k \in 1..Len(c) /\ k - 1 \in Nat /\ k - 1 <= n /\ l < i
          /\ i - 1 = l + (k - 1)
      BY <1>4, <1>6, <1>7
    <2>2. SubSeq(wire', l + 1, i - 1) = SubSeq(d, 1, k - 1)
      <3>1. SubSeq(wire', l + 1, l + (k - 1)) = SubSeq(dn, 1, k - 1)
        <4> HIDE DEF k
        <4>1. QED
          BY <1>0, <1>6, <1>8, <1>9, <2>1, PartOfSuffix
      <3>2. SubSeq(dn, 1, k - 1) = SubSeq(d, 1, k - 1)
        <4> HIDE DEF k
        <4>1. /\ SubSeq(dn, 1, k - 1) \in Seq(Byte)
              /\ Len(SubSeq(dn, 1, k - 1)) = k - 1
              /\ \A j \in 1..(k - 1) : SubSeq(dn, 1, k - 1)[j] = dn[j]
          <5>1. /\ SubSeq(dn, 1, k - 1) \in Seq(Byte)
                /\ Len(SubSeq(dn, 1, k - 1)) = (k - 1) - 1 + 1
                /\ \A j \in 1..((k - 1) - 1 + 1) : SubSeq(dn, 1, k - 1)[j] = dn[1 + j - 1]
            <6>1. k - 1 <= Len(dn) /\ 1 <= (k - 1) + 1 /\ 1 \in Nat \ {0}
              BY <1>8, <2>1
            <6>2. QED
              BY <1>8, <2>1, <6>1, PartIs
          <5>2. (k - 1) - 1 + 1 = k - 1 /\ \A j \in 1..(k - 1) : 1 + j - 1 = j
            BY <2>1
          <5>3. QED
            BY <5>1, <5>2
        <4>2. /\ SubSeq(d, 1, k - 1) \in Seq(Byte)
              /\ Len(SubSeq(d, 1, k - 1)) = k - 1
              /\ \A j \in 1..(k - 1) : SubSeq(d, 1, k - 1)[j] = d[j]
          <5>1. /\ SubSeq(d, 1, k - 1) \in Seq(Byte)
                /\ Len(SubSeq(d, 1, k - 1)) = (k - 1) - 1 + 1
                /\ \A j \in 1..((k - 1) - 1 + 1) : SubSeq(d, 1, k - 1)[j] = d[1 + j - 1]
            <6>1. k - 1 <= Len(d) /\ 1 <= (k - 1) + 1 /\ 1 \in Nat \ {0}
              BY <1>6, <1>7, <2>1
            <6>2. QED
              BY <1>4, <2>1, <6>1, PartIs
          <5>2. (k - 1) - 1 + 1 = k - 1 /\ \A j \in 1..(k - 1) : 1 + j - 1 = j
            BY <2>1
          <5>3. QED
            BY <5>1, <5>2
        <4>3. \A j \in 1..(k - 1) : dn[j] = d[j]
          BY <1>6, <1>8, <2>1
        <4>4. QED
          BY <4>1, <4>2, <4>3, SeqEqual
      <3>3. QED
        BY <2>1, <3>1, <3>2
    <2>3. wire'[i] = d[k] /\ plain'[i] = c[k]
      BY <1>8, <1>10, <2>1
    <2>4. d[k] = (c[k] + Pad(Register(Key, SubSeq(d, 1, k - 1)))) % Base
      <3> HIDE DEF k
      <3>1. QED
        BY <1>5, <1>12, <2>1
    <2>5. wire'[i] = (plain'[i] + Pad(Register(Key, SubSeq(wire', l + 1, i - 1)))) % Base
      <3> HIDE DEF k
      <3>1. QED
        BY <2>2, <2>3, <2>4
    <2>6. QED
      BY <1>1, <1>12, <2>1, <2>5 DEF StartedSince
  <1>13. ASSUME NEW i \in (l + 1)..(l + n), ~encrypted PROVE wire'[i] = plain'[i]
    <2>1. i - l \in 1..n
      BY <1>6
    <2>2. QED
      BY <1>5, <1>8, <1>10, <1>13, <2>1
  <1>14. (\A s \in starts : s >= secure)'
    BY <1>1, <1>6 DEF CipherInv
  <1>15. (~encrypted => starts = {})'
    BY <1>1 DEF CipherInv
  <1>16. ASSUME NEW i \in 1..Len(wire')
         PROVE  IF encrypted' /\ i > secure'
                THEN \E s \in starts' : s < i /\ StartedSince(s, i)'
                ELSE wire'[i] = plain'[i]
    <2>1. CASE i \in 1..l
      BY <1>1, <1>11, <2>1
    <2>2. CASE i \in (l + 1)..(l + n)
      <3>1. i > secure
        BY <1>6, <2>2
      <3>2. QED
        BY <1>1, <1>12, <1>13, <2>2, <3>1
    <2>3. QED
      BY <1>6, <1>10, <2>1, <2>2
  <1>17. QED
    BY <1>14, <1>15, <1>16 DEF CipherInv

(* Only what is sent changes what was sent, and enabling encryption comes  *)
(* before the first start of the cipher.                                   *)
LEMMA CipherInductive ==
  ASSUME TypeOK, Ownership, CipherInv, [Next]_vars
  PROVE  CipherInv'
  <1>1. CASE EnableEncryption
    <2>1. /\ UNCHANGED <<wire, plain, starts>> /\ encrypted' = TRUE
          /\ secure' = IF encrypted THEN secure ELSE Len(wire)
      BY <1>1 DEF EnableEncryption, Handled
    <2>2. CASE encrypted
      <3>1. \A s, i : StartedSince(s, i)' <=> StartedSince(s, i)
        BY <2>1 DEF StartedSince
      <3>2. QED
        BY <2>1, <2>2, <3>1 DEF CipherInv
    <2>3. CASE ~encrypted
      <3>1. \A i \in 1..Len(wire) : ~(i > Len(wire))
        BY DEF TypeOK
      <3>2. QED
        BY <2>1, <2>3, <3>1 DEF CipherInv
    <2>4. QED
      BY <2>2, <2>3 DEF TypeOK
  <1>2. ASSUME NEW t \in Thread, NEW n \in 1..(Base + 2), SendNext(t, n)
        PROVE  CipherInv'
    BY <1>2, SendNextCiphers
  <1>3. ASSUME UNCHANGED <<wire, plain, starts, secure, encrypted>> PROVE CipherInv'
    <2>1. \A s, i : StartedSince(s, i)' <=> StartedSince(s, i)
      BY <1>3 DEF StartedSince
    <2>2. QED
      BY <1>3, <2>1 DEF CipherInv
  <1>4. CASE Ignore \/ Echo \/ EndSend \/ Destroy \/ BeginSend \/ RecvClosed \/ UNCHANGED vars
    BY <1>3, <1>4
    DEF Ignore, Echo, Echoed, Handled, EndSend, Destroy, BeginSend, RecvClosed, vars, wireVars
  <1>5. ASSUME NEW t \in Thread, SendFails(t) PROVE CipherInv'
    BY <1>3, <1>5 DEF SendFails
  <1>6. ASSUME NEW p \in Packet, Reply(p) \/ Callback(p) \/ Receive(p)
        PROVE  CipherInv'
    BY <1>3, <1>6 DEF Reply, Callback, Receive, Handled, wireVars
  <1>7. QED
    BY <1>1, <1>2, <1>4, <1>5, <1>6 DEF Next, NetworkStep

(* So every byte is on the wire as the cipher says.                        *)
LEMMA CipherInvHolds == Spec => []CipherInv
  <1>1. Init => CipherInv
    <2> SUFFICES ASSUME Init PROVE CipherInv
      OBVIOUS
    <2>1. starts = {} /\ encrypted = FALSE /\ Len(wire) = 0
      BY DEF Init
    <2>2. QED
      BY <2>1 DEF CipherInv
  <1>2. TypeOK /\ Ownership /\ CipherInv /\ [Next]_vars => CipherInv'
    BY CipherInductive
  <1>3. QED
    BY <1>1, <1>2, SendingTypeCorrect, PTL DEF Spec

(* What the client makes of a byte of clear text, and of one that was      *)
(* enciphered.                                                             *)
LEMMA ClientReadsByte ==
  ASSUME TypeOK
  PROVE  /\ ClientReads \in Seq(Byte) /\ Len(ClientReads) = Len(wire)
         /\ \A i \in 1..Len(wire) :
              ClientReads[i] =
                IF encrypted /\ i > secure
                THEN (wire[i] - Pad(Register(Key, SubSeq(wire, secure + 1, i - 1)))) % Base
                ELSE wire[i]
  <1> DEFINE clear == IF encrypted THEN secure ELSE Len(wire)
             a == SubSeq(wire, 1, clear)
             c == SubSeq(wire, clear + 1, Len(wire))
             b == Decryption(c, Key)
  <1>1. /\ wire \in Seq(Byte) /\ Len(wire) \in Nat
        /\ clear \in Nat /\ clear <= Len(wire)
        /\ Key \in Seq(Byte) /\ Len(Key) = Block
    BY KeyAssumption DEF TypeOK, Byte
  <1>2. ClientReads = a \o b
    BY DEF ClientReads
  <1> HIDE DEF clear
  <1>4. a \in Seq(Byte) /\ Len(a) = clear /\ \A j \in 1..clear : a[j] = wire[j]
    <2>1. /\ a \in Seq(Byte) /\ Len(a) = clear - 1 + 1
          /\ \A j \in 1..(clear - 1 + 1) : a[j] = wire[1 + j - 1]
      <3>1. 1 \in Nat \ {0} /\ 1 <= clear + 1
        BY <1>1
      <3>2. QED
        BY <1>1, <3>1, PartIs
    <2>2. clear - 1 + 1 = clear /\ \A j \in 1..clear : 1 + j - 1 = j
      BY <1>1
    <2>3. QED
      BY <2>1, <2>2
  <1>5. /\ c \in Seq(Byte) /\ Len(c) = Len(wire) - clear
        /\ \A j \in 1..(Len(wire) - clear) : c[j] = wire[clear + j]
    <2>1. /\ c \in Seq(Byte) /\ Len(c) = Len(wire) - (clear + 1) + 1
          /\ \A j \in 1..(Len(wire) - (clear + 1) + 1) : c[j] = wire[(clear + 1) + j - 1]
      <3>1. clear + 1 \in Nat \ {0} /\ clear + 1 <= Len(wire) + 1 /\ Len(wire) <= Len(wire)
        BY <1>1
      <3>2. QED
        BY <1>1, <3>1, PartIs
    <2>2. /\ Len(wire) - (clear + 1) + 1 = Len(wire) - clear
          /\ \A j \in 1..(Len(wire) - clear) : (clear + 1) + j - 1 = clear + j
      BY <1>1
    <2>3. QED
      BY <2>1, <2>2
  <1>6. /\ b \in Seq(Byte) /\ Len(b) = Len(wire) - clear
        /\ \A k \in 1..(Len(wire) - clear) :
             b[k] = (c[k] - Pad(Register(Key, SubSeq(c, 1, k - 1)))) % Base
    <2> DEFINE F(k) == (c[k] - Pad(Register(Key, SubSeq(c, 1, k - 1)))) % Base
    <2>1. b = [k \in 1..Len(c) |-> F(k)]
      BY DEF Decryption
    <2> HIDE DEF c, b
    <2>2. ASSUME NEW k \in 1..Len(c) PROVE F(k) \in Byte
      <3>1. c[k] \in Byte /\ SubSeq(c, 1, k - 1) \in Seq(Byte)
        BY <1>1, <1>5, ElementOfSeq
      <3>2. Pad(Register(Key, SubSeq(c, 1, k - 1))) \in Byte
        BY <1>1, <3>1, RegisterType
      <3>3. QED
        BY <3>1, <3>2, BaseAssumption DEF Byte
    <2> HIDE DEF F
    <2>3. b \in Seq(Byte) /\ Len(b) = Len(c)
      BY <1>1, <1>5, <2>1, <2>2
    <2>4. \A k \in 1..Len(c) : b[k] = F(k)
      BY <2>1
    <2>5. QED
      BY <1>5, <2>3, <2>4 DEF F
  <1>7. ClientReads \in Seq(Byte) /\ Len(ClientReads) = Len(wire)
    <2> HIDE DEF a, b
    <2>1. a \o b \in Seq(Byte) /\ Len(a \o b) = Len(a) + Len(b)
      BY <1>4, <1>6, ConcatProperties
    <2>2. QED
      BY <1>1, <1>2, <1>4, <1>6, <2>1
  <1>8. ASSUME NEW i \in 1..Len(wire)
        PROVE  ClientReads[i] =
                 IF encrypted /\ i > secure
                 THEN (wire[i] - Pad(Register(Key, SubSeq(wire, secure + 1, i - 1)))) % Base
                 ELSE wire[i]
    <2>3. /\ encrypted /\ i > secure => clear = secure /\ i > clear
          /\ ~(encrypted /\ i > secure) => i <= clear
      BY <1>1 DEF TypeOK, clear
    <2>7. i \in 1..(clear + (Len(wire) - clear))
      BY <1>1
    <2>8. (a \o b)[i] = IF i <= clear THEN a[i] ELSE b[i - clear]
      <3> HIDE DEF a, b
      <3>1. \A j \in 1..(Len(a) + Len(b)) :
              (a \o b)[j] = IF j <= Len(a) THEN a[j] ELSE b[j - Len(a)]
        BY <1>4, <1>6, ConcatProperties
      <3>2. QED
        BY <1>4, <1>6, <2>7, <3>1
    <2> HIDE DEF a, b
    <2>9. CASE encrypted /\ i > secure
      <3> DEFINE k == i - clear
      <3>1. /\ clear = secure /\ k \in 1..(Len(wire) - clear) /\ ~(i <= clear)
            /\ clear + k = i /\ k - 1 \in Nat
        BY <1>1, <2>3, <2>9
      <3>2. ClientReads[i] = b[k]
        BY <1>2, <2>8, <3>1
      <3> HIDE DEF k
      <3>3. b[k] = (wire[i] - Pad(Register(Key, SubSeq(c, 1, k - 1)))) % Base
        BY <1>5, <1>6, <3>1
      <3>4. SubSeq(c, 1, k - 1) = SubSeq(wire, secure + 1, i - 1)
        <4> DEFINE d == SubSeq(wire, clear + 1, i - 1)
        <4>1. /\ SubSeq(c, 1, k - 1) \in Seq(Byte) /\ Len(SubSeq(c, 1, k - 1)) = k - 1
              /\ \A j \in 1..(k - 1) : SubSeq(c, 1, k - 1)[j] = c[j]
          <5>1. /\ k - 1 <= Len(c) /\ 1 <= (k - 1) + 1 /\ 1 \in Nat \ {0}
                /\ (k - 1) - 1 + 1 = k - 1 /\ \A j \in 1..(k - 1) : 1 + j - 1 = j
            BY <1>5, <3>1
          <5> HIDE DEF c
          <5>2. /\ SubSeq(c, 1, k - 1) \in Seq(Byte)
                /\ Len(SubSeq(c, 1, k - 1)) = (k - 1) - 1 + 1
                /\ \A j \in 1..((k - 1) - 1 + 1) : SubSeq(c, 1, k - 1)[j] = c[1 + j - 1]
            BY <1>5, <3>1, <5>1, PartIs
          <5>3. QED
            BY <5>1, <5>2
        <4>2. /\ d \in Seq(Byte) /\ Len(d) = k - 1
              /\ \A j \in 1..(k - 1) : d[j] = wire[clear + j]
          <5>1. /\ clear + 1 \in Nat \ {0} /\ i - 1 \in Nat /\ i - 1 <= Len(wire)
                /\ clear + 1 <= (i - 1) + 1 /\ (i - 1) - (clear + 1) + 1 = k - 1
                /\ \A j \in 1..(k - 1) : (clear + 1) + j - 1 = clear + j
            BY <1>1, <3>1
          <5>2. /\ d \in Seq(Byte)
                /\ Len(d) = (i - 1) - (clear + 1) + 1
                /\ \A j \in 1..((i - 1) - (clear + 1) + 1) : d[j] = wire[(clear + 1) + j - 1]
            <6> DEFINE m == clear + 1
                       e == i - 1
            <6>1. m \in Nat \ {0} /\ e \in Nat /\ e <= Len(wire) /\ m <= e + 1
              BY <5>1
            <6>2. d = SubSeq(wire, m, e)
              OBVIOUS
            <6> HIDE DEF m, e, d
            <6>3. /\ d \in Seq(Byte) /\ Len(d) = e - m + 1
                  /\ \A j \in 1..(e - m + 1) : d[j] = wire[m + j - 1]
              BY <1>1, <6>1, <6>2, PartIs
            <6>4. QED
              BY <6>3 DEF m, e
          <5>3. QED
            BY <5>1, <5>2
        <4>3. \A j \in 1..(k - 1) : c[j] = wire[clear + j]
          BY <1>1, <1>5, <3>1
        <4>4. SubSeq(c, 1, k - 1) = d
          <5> HIDE DEF c, d
          <5>1. QED
            BY <4>1, <4>2, <4>3, SeqEqual
        <4>5. QED
          BY <3>1, <4>4
      <3>5. QED
        BY <2>9, <3>2, <3>3, <3>4
    <2>10. CASE ~(encrypted /\ i > secure)
      <3>1. i <= clear /\ i \in 1..clear
        BY <2>3, <2>7, <2>10
      <3>2. QED
        BY <1>2, <1>4, <2>8, <2>10, <3>1
    <2>11. QED
      BY <2>9, <2>10
  <1>9. QED
    BY <1>7, <1>8

(* The client's one cipher stream gives back every byte that was sent but  *)
(* the first Block bytes after a start of the server's cipher which is not *)
(* the first: after those its register holds what the client's does.       *)
THEOREM GarblesOnlyRestarts == Spec => []GarbledOnlyAfterRestart
  <1>1. TypeOK /\ CipherInv => GarbledOnlyAfterRestart
    <2> SUFFICES ASSUME TypeOK, CipherInv, NEW i \in 1..Len(wire),
                        \A s \in starts \ {secure} : i \notin (s + 1)..(s + Block)
                 PROVE  ClientReads[i] = plain[i]
      BY DEF GarbledOnlyAfterRestart
    <2>1. CASE encrypted /\ i > secure
      <3>1. PICK s \in starts : s < i /\ StartedSince(s, i)
        BY <2>1 DEF CipherInv
      <3>2. /\ s \in Nat /\ secure \in Nat /\ s >= secure /\ Block \in Nat
            /\ wire \in Seq(Byte) /\ plain \in Seq(Byte) /\ Len(plain) = Len(wire)
            /\ Len(wire) \in Nat
        BY KeyAssumption DEF TypeOK, CipherInv, Byte
      <3>3. Register(Key, SubSeq(wire, s + 1, i - 1))
              = Register(Key, SubSeq(wire, secure + 1, i - 1))
        <4>1. CASE s = secure
          BY <4>1
        <4>2. CASE s # secure
          <5>1. s + Block < i /\ secure + Block < i
            BY <3>1, <3>2, <4>2
          <5>2. QED
            BY <3>2, <5>1, RegisterForgets
        <4>3. QED
          BY <4>1, <4>2
      <3> DEFINE x == Pad(Register(Key, SubSeq(wire, secure + 1, i - 1)))
      <3>4. x \in Byte /\ plain[i] \in Byte
        <4>1. /\ secure + 1 \in Nat \ {0} /\ i - 1 \in Nat /\ i - 1 <= Len(wire)
              /\ secure + 1 <= (i - 1) + 1
          BY <2>1, <3>2
        <4>2. SubSeq(wire, secure + 1, i - 1) \in Seq(Byte)
          BY <3>2, <4>1, PartIs
        <4>3. Key \in Seq(Byte) /\ Len(Key) = Block
          BY KeyAssumption DEF Byte
        <4>4. QED
          BY <3>2, <4>2, <4>3, RegisterType, ElementOfSeq
      <3>5. wire[i] = (plain[i] + x) % Base /\ ClientReads[i] = (wire[i] - x) % Base
        BY <2>1, <3>1, <3>3, ClientReadsByte DEF StartedSince
      <3> HIDE DEF x
      <3>6. QED
        BY <3>4, <3>5, PadComesOff
    <2>2. CASE ~(encrypted /\ i > secure)
      BY <2>2, ClientReadsByte DEF CipherInv
    <2>3. QED
      BY <2>1, <2>2
  <1>2. QED
    BY <1>1, CipherInvHolds, SendingTypeCorrect, PTL

(***************************************************************************)
(* The packets in a sequence of bytes.                                     *)
(***************************************************************************)

(* What the client reads from byte i on, if f says what it reads from      *)
(* later bytes on.                                                         *)
ReadAt(s, f, i) ==
    IF i > Len(s) \/ i + s[i] > Len(s) THEN <<>>
    ELSE <<SubSeq(s, i, i + s[i])>> \o f[i + s[i] + 1]

(* The recursion reads every sequence of bytes.                            *)
LEMMA PacketsRead ==
  ASSUME NEW s \in Seq(Byte)
  PROVE  \E f : /\ \A i \in 1..(Len(s) + 1) : f[i] = ReadAt(s, f, i)
                /\ Packets(s) = f[1]
  <1> DEFINE n == Len(s)
             D == 1..(n + 1)
             Round(f) == [i \in D |-> IF i > Len(s) \/ i + s[i] > Len(s) THEN <<>>
                                      ELSE <<SubSeq(s, i, i + s[i])>> \o f[i + s[i] + 1]]
             Reads(f, k) == /\ f = [i \in D |-> f[i]]
                            /\ \A i \in D : i > n - k => f[i] = ReadAt(s, f, i)
             S == {k \in Nat : k <= n => \E f : Reads(f, k)}
             g == CHOOSE f : f = Round(f)
  <1>1. n \in Nat /\ \A i \in 1..n : s[i] \in Nat
    BY ElementOfSeq, BaseAssumption DEF Byte
  <1>2. 0 \in S
    <2> DEFINE f == [i \in D |-> <<>>]
    <2>1. f = [i \in D |-> f[i]]
      OBVIOUS
    <2>2. ASSUME NEW i \in D, i > n - 0 PROVE f[i] = ReadAt(s, f, i)
      BY <1>1, <2>2 DEF ReadAt
    <2>3. QED
      BY <2>1, <2>2
  <1>3. ASSUME NEW k \in Nat, k \in S PROVE k + 1 \in S
    <2> SUFFICES ASSUME k + 1 <= n PROVE \E f : Reads(f, k + 1)
      OBVIOUS
    <2>1. PICK f : Reads(f, k)
      BY <1>1, <1>3
    <2> DEFINE j == n - k
               h == [i \in D |-> IF i = j THEN ReadAt(s, f, j) ELSE f[i]]
    <2>2. j \in 1..n
      BY <1>1
    <2>3. ASSUME NEW i \in D, i > j - 1 PROVE h[i] = ReadAt(s, f, i)
      <3>1. CASE i = j
        BY <3>1
      <3>2. CASE i # j
        <4>1. i > n - k
          BY <1>1, <2>2, <2>3, <3>2
        <4>2. f[i] = ReadAt(s, f, i)
          BY <2>1, <4>1
        <4>3. QED
          BY <3>2, <4>2
      <3>3. QED
        BY <3>1, <3>2
    <2>4. ASSUME NEW i \in D, i > j - 1 PROVE ReadAt(s, h, i) = ReadAt(s, f, i)
      <3>1. CASE i > Len(s) \/ i + s[i] > Len(s)
        BY <3>1 DEF ReadAt
      <3>2. CASE ~(i > Len(s) \/ i + s[i] > Len(s))
        <4>1. i + s[i] + 1 \in D /\ i + s[i] + 1 # j
          BY <1>1, <2>2, <2>4, <3>2
        <4>2. h[i + s[i] + 1] = f[i + s[i] + 1]
          BY <4>1
        <4> HIDE DEF h
        <4>3. QED
          BY <3>2, <4>2 DEF ReadAt
      <3>3. QED
        BY <3>1, <3>2
    <2>5. h = [i \in D |-> h[i]]
      OBVIOUS
    <2>6. n - (k + 1) = j - 1
      BY <1>1
    <2> HIDE DEF h, j
    <2>7. Reads(h, k + 1)
      BY <2>3, <2>4, <2>5, <2>6
    <2>8. QED
      BY <2>7
  <1>4. \E f : f = Round(f)
    <2>1. n \in S
      <3> HIDE DEF S
      <3>1. QED
        BY <1>1, <1>2, <1>3, SetInduction
    <2>2. PICK f : Reads(f, n)
      BY <1>1, <2>1
    <2>3. \A i \in D : f[i] = ReadAt(s, f, i)
      BY <1>1, <2>2
    <2>4. f = Round(f)
      <3>1. \A i \in D : f[i] = Round(f)[i]
        BY <2>3 DEF ReadAt
      <3>2. f = [i \in D |-> f[i]]
        BY <2>2
      <3>3. Round(f) = [i \in D |-> Round(f)[i]]
        OBVIOUS
      <3> HIDE DEF Round, D
      <3>4. QED
        BY <3>1, <3>2, <3>3
    <2>5. QED
      BY <2>4
  <1>5. g = Round(g)
    BY <1>4, Zenon
  <1>6. Packets(s) = g[1]
    BY DEF Packets
  <1> HIDE DEF g
  <1>7. \A i \in D : g[i] = ReadAt(s, g, i)
    <2>1. \A i \in D : g[i] = Round(g)[i]
      BY <1>5
    <2>2. \A i \in D : Round(g)[i] = ReadAt(s, g, i)
      BY DEF ReadAt
    <2>3. QED
      BY <2>1, <2>2
  <1>8. QED
    BY <1>6, <1>7

(* The bytes s are the packets q, one behind the other; b says where each  *)
(* ends.                                                                   *)
EndsAt(s, q, b) ==
    /\ b \in [0..Len(q) -> 0..Len(s)]
    /\ b[0] = 0 /\ b[Len(q)] = Len(s)
    /\ \A k \in 1..Len(q) :
         b[k] = b[k - 1] + Len(q[k]) /\ SubSeq(s, b[k - 1] + 1, b[k]) = q[k]

Consists(s, q) == \E b : EndsAt(s, q, b)

(* No bytes are no packets.                                                *)
LEMMA NothingConsists == Consists(<<>>, <<>>)
  <1> DEFINE b == [k \in 0..0 |-> 0]
  <1>1. Len(<<>>) = 0 /\ 1..0 = {}
    OBVIOUS
  <1>2. EndsAt(<<>>, <<>>, b)
    BY <1>1 DEF EndsAt
  <1>3. QED
    BY <1>2 DEF Consists

(* One packet more.                                                        *)
LEMMA OneMoreConsists ==
  ASSUME NEW s \in Seq(Byte), NEW q \in Seq(Packet), Consists(s, q), NEW p \in Packet
  PROVE  Consists(s \o p, Append(q, p))
  <1>1. PICK b : EndsAt(s, q, b)
    BY DEF Consists
  <1> DEFINE n == Len(q)
             l == Len(s)
             r == s \o p
             q1 == Append(q, p)
             b1 == [k \in 0..(n + 1) |-> IF k <= n THEN b[k] ELSE l + Len(p)]
  <1>2. /\ n \in Nat /\ l \in Nat /\ Len(p) \in Nat /\ p \in Seq(Byte)
        /\ r \in Seq(Byte) /\ Len(r) = l + Len(p)
        /\ Len(q1) = n + 1 /\ q1[n + 1] = p /\ \A k \in 1..n : q1[k] = q[k]
    BY PacketFits, ConcatProperties, AppendProperties
  <1>3. /\ b \in [0..n -> 0..l] /\ b[0] = 0 /\ b[n] = l
        /\ \A k \in 1..n : b[k] = b[k - 1] + Len(q[k]) /\ SubSeq(s, b[k - 1] + 1, b[k]) = q[k]
    BY <1>1 DEF EndsAt
  <1>4. b1 \in [0..(n + 1) -> 0..(l + Len(p))] /\ b1[0] = 0 /\ b1[n + 1] = l + Len(p)
    BY <1>2, <1>3
  <1>5. /\ \A k \in 0..n : b1[k] = b[k]
        /\ b1[n + 1] = l + Len(p)
    BY <1>2
  <1> HIDE DEF b1, q1, r
  <1>6. ASSUME NEW k \in 1..(n + 1)
        PROVE  b1[k] = b1[k - 1] + Len(q1[k]) /\ SubSeq(r, b1[k - 1] + 1, b1[k]) = q1[k]
    <2>1. CASE k = n + 1
      <3>1. b1[k - 1] = l /\ b1[k] = l + Len(p) /\ q1[k] = p
        BY <1>2, <1>3, <1>5, <2>1
      <3>2. SubSeq(s \o p, l + 1, l + Len(p)) = SubSeq(p, 1, Len(p))
        BY <1>2, PartOfSuffix
      <3>3. SubSeq(p, 1, Len(p)) = p
        BY <1>2, SubSeqFull
      <3>4. QED
        BY <3>1, <3>2, <3>3 DEF r
    <2>2. CASE k # n + 1
      <3> DEFINE m == b[k - 1] + 1
                 e == b[k]
      <3>1. k \in 1..n /\ k - 1 \in 0..n /\ k \in 0..n
        BY <1>2, <2>2
      <3>2. b1[k - 1] = b[k - 1] /\ b1[k] = b[k] /\ q1[k] = q[k]
        BY <1>2, <1>5, <3>1
      <3>3. /\ b[k - 1] \in 0..l /\ b[k] \in 0..l /\ Len(q[k]) \in Nat
            /\ b[k] = b[k - 1] + Len(q[k]) /\ SubSeq(s, m, e) = q[k]
        <4>1. q[k] \in Packet
          BY <3>1, ElementOfSeq
        <4>2. Len(q[k]) \in Nat
          BY <4>1, PacketFits
        <4>3. b[k - 1] \in 0..l /\ b[k] \in 0..l
          BY <1>3, <3>1
        <4>4. b[k] = b[k - 1] + Len(q[k]) /\ SubSeq(s, b[k - 1] + 1, b[k]) = q[k]
          BY <1>3, <3>1
        <4>5. QED
          BY <4>2, <4>3, <4>4
      <3>4. m \in Nat \ {0} /\ e \in Nat /\ e <= Len(s) /\ m <= e + 1
        <4> DEFINE d == b[k - 1]
        <4>1. d \in 0..l /\ e \in 0..l /\ e = d + Len(q[k]) /\ Len(q[k]) \in Nat
          BY <3>3
        <4> HIDE DEF d, e
        <4>2. d + 1 \in Nat \ {0} /\ e \in Nat /\ e <= Len(s) /\ d + 1 <= e + 1
          BY <1>2, <4>1
        <4>3. QED
          BY <4>2 DEF d
      <3> HIDE DEF m, e
      <3>5. SubSeq(s \o p, m, e) = SubSeq(s, m, e)
        BY <1>2, <3>4, PartOfPrefix
      <3>6. QED
        BY <3>2, <3>3, <3>5 DEF m, e, r
    <2>3. QED
      BY <2>1, <2>2
  <1>7. EndsAt(r, q1, b1)
    BY <1>2, <1>4, <1>6 DEF EndsAt
  <1>8. QED
    BY <1>7 DEF Consists, r, q1

(* What consists of packets is read as those packets.                      *)
LEMMA ReadAsSent ==
  ASSUME NEW s \in Seq(Byte), NEW q \in Seq(Packet), Consists(s, q)
  PROVE  Packets(s) = q
  <1>1. PICK f : /\ \A i \in 1..(Len(s) + 1) : f[i] = ReadAt(s, f, i)
                 /\ Packets(s) = f[1]
    BY PacketsRead
  <1>2. PICK b : EndsAt(s, q, b)
    BY DEF Consists
  <1> DEFINE n == Len(q)
             l == Len(s)
             S == {m \in Nat : m <= n => f[b[n - m] + 1] = SubSeq(q, n - m + 1, n)}
  <1>3. n \in Nat /\ l \in Nat
    OBVIOUS
  <1>4. /\ b \in [0..n -> 0..l] /\ b[0] = 0 /\ b[n] = l
        /\ \A k \in 1..n : b[k] = b[k - 1] + Len(q[k]) /\ SubSeq(s, b[k - 1] + 1, b[k]) = q[k]
    BY <1>2 DEF EndsAt
  <1>5. 0 \in S
    <2>1. f[l + 1] = <<>>
      <3>1. l + 1 \in 1..(l + 1) /\ l + 1 > l
        BY <1>3
      <3>2. QED
        BY <1>1, <3>1 DEF ReadAt
    <2>2. SubSeq(q, n + 1, n) = <<>>
      BY <1>3, SubSeqEmpty
    <2>3. n - 0 = n
      BY <1>3
    <2>4. QED
      BY <1>4, <2>1, <2>2, <2>3
  <1>6. ASSUME NEW m \in Nat, m \in S PROVE m + 1 \in S
    <2> SUFFICES ASSUME m + 1 <= n
                 PROVE  f[b[n - (m + 1)] + 1] = SubSeq(q, n - (m + 1) + 1, n)
      OBVIOUS
    <2> DEFINE k == n - m
               i == b[k - 1] + 1
               p == q[k]
    <2>1. /\ k \in 1..n /\ k - 1 \in 0..n /\ k \in 0..n /\ m <= n
          /\ n - (m + 1) = k - 1 /\ n - (m + 1) + 1 = k
      BY <1>3
    <2>2. f[b[k] + 1] = SubSeq(q, k + 1, n)
      BY <1>6, <2>1
    <2> HIDE DEF k
    <2>3. p \in Packet /\ p \in Seq(Byte) /\ Len(p) \in Nat \ {0} /\ p[1] + 1 = Len(p)
          /\ p[1] \in Nat
      <3>1. p \in Packet
        BY <2>1, ElementOfSeq
      <3> HIDE DEF p
      <3>2. p \in Seq(Byte) /\ p[1] + 1 = Len(p) /\ Len(p) \in Nat \ {0}
        BY <3>1, PacketFits, PacketAssumption, BaseAssumption
      <3>3. p[1] \in Byte
        BY <3>2
      <3>4. QED
        BY <3>1, <3>2, <3>3, BaseAssumption DEF Byte
    <2>4. /\ b[k - 1] \in 0..l /\ b[k] \in 0..l
          /\ b[k] = b[k - 1] + Len(p) /\ SubSeq(s, i, b[k]) = p
      BY <1>4, <2>1
    <2>5. /\ i \in Nat \ {0} /\ b[k] \in Nat /\ b[k] <= l /\ i <= b[k] + 1
          /\ i \in 1..l /\ 1 \in 1..(b[k] - i + 1) /\ b[k] + 1 = i + Len(p)
      <3> DEFINE d == b[k - 1]
                 e == b[k]
      <3>1. d \in 0..l /\ e \in 0..l /\ e = d + Len(p) /\ Len(p) \in Nat \ {0}
        BY <2>3, <2>4
      <3> HIDE DEF d, e, p
      <3>2. /\ d + 1 \in Nat \ {0} /\ e \in Nat /\ e <= l /\ d + 1 <= e + 1
            /\ d + 1 \in 1..l /\ 1 \in 1..(e - (d + 1) + 1) /\ e + 1 = (d + 1) + Len(p)
        BY <1>3, <3>1
      <3>3. QED
        BY <3>2 DEF d, e
    <2>6. p[1] = s[i]
      <3> DEFINE e == b[k]
      <3> HIDE DEF i, e, p
      <3>1. \A j \in 1..(e - i + 1) : SubSeq(s, i, e)[j] = s[i + j - 1]
        BY <2>5, PartIs DEF e
      <3>2. 1 \in 1..(e - i + 1) /\ i + 1 - 1 = i
        BY <2>5 DEF e
      <3>3. SubSeq(s, i, e)[1] = s[i + 1 - 1]
        BY <3>1, <3>2
      <3>4. QED
        BY <2>4, <3>2, <3>3 DEF e
    <2>7. i + s[i] = b[k] /\ i + s[i] + 1 = b[k] + 1 /\ ~(i > l \/ i + s[i] > l)
      <3> DEFINE e == b[k]
                 c == s[i]
      <3>1. e \in Nat /\ e <= l /\ i \in 1..l /\ e + 1 = i + Len(p) /\ c + 1 = Len(p) /\ c \in Nat
        BY <2>3, <2>5, <2>6
      <3> HIDE DEF e, c, i, p
      <3>2. i + c = e /\ i + c + 1 = e + 1 /\ ~(i > l \/ i + c > l)
        BY <1>3, <3>1
      <3>3. QED
        BY <3>2 DEF e, c
    <2>8. f[i] = <<p>> \o f[b[k] + 1]
      <3>1. i \in 1..(l + 1)
        BY <2>5, <1>3
      <3>2. f[i] = ReadAt(s, f, i)
        BY <1>1, <3>1
      <3>3. ReadAt(s, f, i) = <<SubSeq(s, i, i + s[i])>> \o f[i + s[i] + 1]
        BY <2>7 DEF ReadAt
      <3> HIDE DEF i, p
      <3>4. QED
        BY <2>4, <2>7, <3>2, <3>3
    <2>9. SubSeq(q, k, n) = <<p>> \o SubSeq(q, k + 1, n)
      <3>1. k \in 1..Len(q) /\ n \in k..Len(q)
        BY <1>3, <2>1
      <3> HIDE DEF n
      <3>2. QED
        BY <3>1, SubSeqRecursiveFirst
    <2>10. QED
      BY <2>1, <2>2, <2>8, <2>9
  <1>7. n \in S
    <2> HIDE DEF S
    <2>1. QED
      BY <1>3, <1>5, <1>6, SetInduction
  <1>8. f[1] = SubSeq(q, 1, n)
    <2>1. n - n = 0 /\ 0 + 1 = 1 /\ n <= n
      BY <1>3
    <2>2. f[b[n - n] + 1] = SubSeq(q, n - n + 1, n)
      BY <1>7, <2>1
    <2>3. QED
      BY <1>4, <2>1, <2>2
  <1>9. QED
    BY <1>1, <1>8, SubSeqFull

(***************************************************************************)
(* The channel.                                                            *)
(***************************************************************************)

(* What was sent of packets, without what an echoed ping has at its end.   *)
Clear == SubSeq(plain, 1, Len(plain) - extra)

(* As long as nothing is cut the socket is open, the cipher was started    *)
(* once at most, and what was sent are packets.                            *)
WholeInv ==
    whole =>
        /\ open /\ starts \subseteq {secure} /\ extra <= Len(plain)
        /\ \E q \in Seq(Packet) : Consists(Clear, q)

(* Then the client reads what was sent.                                    *)
LEMMA ReadsPlain ==
  ASSUME TypeOK, GarbledOnlyAfterRestart, WholeInv, whole
  PROVE  ClientReads = plain
  <1>1. /\ ClientReads \in Seq(Byte) /\ Len(ClientReads) = Len(wire)
        /\ plain \in Seq(Byte) /\ Len(plain) = Len(wire)
    BY ClientReadsByte DEF TypeOK, Byte
  <1>2. starts \ {secure} = {}
    BY DEF WholeInv
  <1>3. \A i \in 1..Len(ClientReads) : ClientReads[i] = plain[i]
    BY <1>1, <1>2 DEF GarbledOnlyAfterRestart
  <1> HIDE DEF Byte
  <1>4. QED
    BY <1>1, <1>3, SeqEqual

(* Sending a whole packet adds it to what was sent.                        *)
LEMMA SendsWhole ==
  ASSUME TypeOK, Ownership, WholeInv,
         NEW t \in Thread, NEW n \in 1..(Base + 2), SendNext(t, n), whole'
  PROVE  /\ whole /\ open' = open /\ secure' = secure /\ starts' \subseteq {secure}
         /\ extra' <= Len(plain')
         /\ bytes[Head(queue[t]).ptr] \in Packet
         /\ Clear \in Seq(Byte) /\ Clear' = Clear \o bytes[Head(queue[t]).ptr]
  <1> DEFINE x == Head(queue[t])
             p == bytes[x.ptr]
  <1>1. /\ queue[t] # <<>> /\ queue' = [queue EXCEPT ![t] = Tail(@)]
        /\ extra' = Overlong(x) /\ UNCHANGED <<open, secure>>
        /\ starts' = IF encrypted THEN starts \cup {Len(wire)} ELSE starts
    BY DEF SendNext
  <1>2. whole /\ n = x.size /\ extra = 0 /\ (encrypted => Len(wire) = secure)
    BY DEF SendNext
  <1>3. PICK behind \in Behind : plain' = plain \o SubSeq(Content(x, behind), 1, n)
    BY DEF SendNext
  <1>4. x \in Payload /\ Filled(x, 2)
    <2>1. x \in Payload /\ 1 \in DOMAIN queue[t] /\ x = queue[t][1]
      BY <1>1, QueueShrinks
    <2>2. QED
      BY <2>1 DEF Ownership, BuffersFilled
  <1>5. p \in Packet
    BY <1>4 DEF Filled
  <1> DEFINE e == SubSeq(behind, 1, Overlong(x))
             m == Overlong(x)
  <1>6. /\ Content(x, behind) \in Seq(Byte) /\ Len(Content(x, behind)) = n
        /\ Content(x, behind) = p \o e /\ p \in Seq(Byte) /\ m \in 0..2
    BY <1>2, <1>4, ContentType DEF Content
  <1>7. SubSeq(Content(x, behind), 1, n) = p \o e
    BY <1>6, SubSeqFull
  <1>8. /\ e \in Seq(Byte) /\ Len(e) = m
    <2>1. \A i \in 1..2 : behind[i] \in Byte
      BY DEF Behind, Byte
    <2>2. m \in Int /\ 1 \in Int /\ \A i \in 1..m : behind[i] \in Byte
      <3> HIDE DEF m
      <3>1. QED
        BY <1>6, <2>1
    <2> HIDE DEF m
    <2>3. /\ SubSeq(behind, 1, m) \in Seq(Byte)
          /\ Len(SubSeq(behind, 1, m)) = IF 1 <= m THEN m - 1 + 1 ELSE 0
      BY <2>2, SubSeqProperties
    <2>4. QED
      BY <1>6, <2>3 DEF m
  <1>9. /\ plain \in Seq(Byte) /\ Len(plain) \in Nat
        /\ Clear = plain
    <2>1. plain \in Seq(Byte) /\ Len(plain) \in Nat /\ Len(plain) - 0 = Len(plain)
      BY DEF TypeOK, Byte
    <2>2. SubSeq(plain, 1, Len(plain)) = plain
      BY <2>1, SubSeqFull
    <2>3. QED
      BY <1>2, <2>1, <2>2 DEF Clear
  <1> DEFINE a == plain \o p
  <1>10. plain' = a \o e /\ a \in Seq(Byte)
    <2> HIDE DEF e, p
    <2>1. plain' = plain \o (p \o e)
      BY <1>3, <1>7
    <2>2. (plain \o p) \o e = plain \o (p \o e)
      <3>1. plain \in Seq(Byte) /\ p \in Seq(Byte) /\ e \in Seq(Byte)
        BY <1>6, <1>8, <1>9
      <3>2. QED
        BY <3>1, ConcatAssociative
    <2>3. plain \o p \in Seq(Byte)
      BY <1>6, <1>9, ConcatProperties
    <2>4. QED
      BY <2>1, <2>2, <2>3
  <1>11. extra' = m /\ Len(plain') = Len(a) + m /\ Len(a) \in Nat
    <2> HIDE DEF a, e, m
    <2>1. Len(a \o e) = Len(a) + Len(e) /\ Len(a) \in Nat
      <3>1. a \in Seq(Byte) /\ e \in Seq(Byte)
        BY <1>8, <1>10
      <3>2. QED
        BY <3>1, ConcatProperties, LenProperties
    <2>2. QED
      BY <1>1, <1>8, <1>10, <2>1 DEF m
  <1>12. Clear' = a
    <2> DEFINE k == Len(a)
    <2>1. Clear' = SubSeq(a \o e, 1, k)
      <3>1. Len(plain') - extra' = k
        <4> HIDE DEF a, m
        <4>1. QED
          BY <1>6, <1>11
      <3>2. QED
        BY <1>10, <3>1 DEF Clear
    <2> HIDE DEF a, e
    <2>2. SubSeq(a \o e, 1, k) = SubSeq(a, 1, k)
      <3>1. k \in Nat /\ k <= Len(a) /\ 1 \in Nat \ {0} /\ 1 <= k + 1
        BY <1>11
      <3> HIDE DEF k
      <3>2. QED
        BY <1>8, <1>10, <3>1, PartOfPrefix
    <2>3. SubSeq(a, 1, k) = a
      BY <1>10, SubSeqFull
    <2>4. QED
      BY <2>1, <2>2, <2>3
  <1>13. starts' \subseteq {secure}
    BY <1>1, <1>2 DEF WholeInv
  <1>14. extra' <= Len(plain')
    <2> HIDE DEF m, a
    <2>1. QED
      BY <1>6, <1>11
  <1>15. QED
    BY <1>1, <1>2, <1>5, <1>9, <1>12, <1>13, <1>14

(* Only sending a whole packet adds to what was sent without a cut.        *)
LEMMA WholeInductive ==
  ASSUME TypeOK, Ownership, CipherInv, WholeInv, [Next]_vars
  PROVE  WholeInv'
  <1> SUFFICES ASSUME whole'
               PROVE  /\ open' /\ starts' \subseteq {secure'} /\ extra' <= Len(plain')
                      /\ \E q \in Seq(Packet) : Consists(Clear', q)
    BY DEF WholeInv
  <1>1. ASSUME NEW t \in Thread, NEW n \in 1..(Base + 2), SendNext(t, n)
        PROVE  /\ open' /\ starts' \subseteq {secure'} /\ extra' <= Len(plain')
               /\ \E q \in Seq(Packet) : Consists(Clear', q)
    <2> DEFINE p == bytes[Head(queue[t]).ptr]
    <2>1. /\ whole /\ open' = open /\ secure' = secure /\ starts' \subseteq {secure}
          /\ extra' <= Len(plain') /\ p \in Packet
          /\ Clear \in Seq(Byte) /\ Clear' = Clear \o p
      BY <1>1, SendsWhole
    <2>2. PICK q \in Seq(Packet) : Consists(Clear, q)
      BY <2>1 DEF WholeInv
    <2> HIDE DEF p
    <2>3. Append(q, p) \in Seq(Packet) /\ Consists(Clear \o p, Append(q, p))
      BY <2>1, <2>2, OneMoreConsists
    <2>4. QED
      BY <2>1, <2>3 DEF WholeInv
  <1>2. CASE EnableEncryption
    <2>1. /\ UNCHANGED <<plain, starts, extra, open, whole>>
          /\ secure' = IF encrypted THEN secure ELSE Len(wire)
      BY <1>2 DEF EnableEncryption, Handled
    <2>2. starts' \subseteq {secure'}
      BY <2>1 DEF WholeInv, CipherInv
    <2>3. QED
      BY <2>1, <2>2 DEF WholeInv, Clear
  <1>3. ASSUME UNCHANGED <<plain, starts, secure, extra>>, whole, open'
        PROVE  /\ open' /\ starts' \subseteq {secure'} /\ extra' <= Len(plain')
               /\ \E q \in Seq(Packet) : Consists(Clear', q)
    BY <1>3 DEF WholeInv, Clear
  <1>4. CASE Ignore
    BY <1>3, <1>4 DEF Ignore, Handled
  <1>5. CASE Echo \/ EndSend \/ Destroy \/ BeginSend \/ UNCHANGED vars
    <2>1. UNCHANGED <<plain, starts, secure, extra, whole, open>>
      BY <1>5 DEF Echo, Echoed, Handled, EndSend, Destroy, BeginSend, vars, wireVars
    <2>2. QED
      BY <1>3, <2>1 DEF WholeInv
  <1>6. CASE RecvClosed \/ \E t \in Thread : SendFails(t)
    BY <1>6 DEF RecvClosed, SendFails
  <1>7. ASSUME NEW p \in Packet, Reply(p) \/ Callback(p) \/ Receive(p)
        PROVE  /\ open' /\ starts' \subseteq {secure'} /\ extra' <= Len(plain')
               /\ \E q \in Seq(Packet) : Consists(Clear', q)
    <2>1. UNCHANGED <<plain, starts, secure, extra, whole, open>>
      BY <1>7 DEF Reply, Callback, Receive, Handled, wireVars
    <2>2. QED
      BY <1>3, <2>1 DEF WholeInv
  <1>8. QED
    BY <1>1, <1>2, <1>4, <1>5, <1>6, <1>7 DEF Next, NetworkStep

(* So it holds throughout.                                                 *)
LEMMA WholeInvHolds == Spec => []WholeInv
  <1>1. Init => WholeInv
    <2> SUFFICES ASSUME Init PROVE WholeInv
      OBVIOUS
    <2>1. /\ open /\ starts = {} /\ extra = 0 /\ plain = <<>>
      BY DEF Init
    <2>2. SubSeq(<<>>, 1, 0) = <<>> /\ Len(<<>>) = 0 /\ 0 - 0 = 0 /\ <<>> \in Seq(Packet)
      BY SubSeqEmpty
    <2>3. Clear = <<>>
      BY <2>1, <2>2 DEF Clear
    <2>4. \E q \in Seq(Packet) : Consists(Clear, q)
      BY <2>2, <2>3, NothingConsists
    <2>5. extra <= Len(plain) /\ starts \subseteq {secure}
      BY <2>1, <2>2
    <2>6. QED
      BY <2>1, <2>4, <2>5 DEF WholeInv
  <1>2. TypeOK /\ Ownership /\ CipherInv /\ WholeInv /\ [Next]_vars => WholeInv'
    BY WholeInductive
  <1>3. QED
    BY <1>1, <1>2, SendingTypeCorrect, CipherInvHolds, PTL DEF Spec

(* The packets queued, thread by thread, and those the client has read.    *)
Pending == [t \in Thread |-> [i \in DOMAIN queue[t] |-> bytes[queue[t][i].ptr]]]
Got == IF whole THEN Packets(SubSeq(ClientReads, 1, Len(wire) - extra)) ELSE <<>>

(* A queued packet is what a live buffer holds.                            *)
PendingIs ==
    \A t \in Thread :
        /\ Pending[t] \in Seq(Packet) /\ Len(Pending[t]) = Len(queue[t])
        /\ \A i \in 1..Len(queue[t]) : Pending[t][i] = bytes[queue[t][i].ptr]
        /\ DOMAIN queue[t] = 1..Len(queue[t]) /\ Len(queue[t]) \in Nat
        /\ \A i \in 1..Len(queue[t]) :
             queue[t][i].ptr \in Buffer /\ heap[queue[t][i].ptr] = "live"

LEMMA PendingAre ==
  ASSUME TypeOK, Ownership
  PROVE  PendingIs
  <1> SUFFICES ASSUME NEW t \in Thread
               PROVE  /\ Pending[t] \in Seq(Packet) /\ Len(Pending[t]) = Len(queue[t])
                      /\ \A i \in 1..Len(queue[t]) : Pending[t][i] = bytes[queue[t][i].ptr]
                      /\ DOMAIN queue[t] = 1..Len(queue[t]) /\ Len(queue[t]) \in Nat
                      /\ \A i \in 1..Len(queue[t]) :
                           queue[t][i].ptr \in Buffer /\ heap[queue[t][i].ptr] = "live"
    BY DEF PendingIs
  <1> DEFINE n == Len(queue[t])
             F(i) == bytes[queue[t][i].ptr]
  <1>1. queue[t] \in Seq(Payload) /\ n \in Nat /\ DOMAIN queue[t] = 1..n
    BY DEF TypeOK
  <1>2. \A i \in 1..n : /\ F(i) \in Packet
                        /\ queue[t][i].ptr \in Buffer /\ heap[queue[t][i].ptr] = "live"
    BY <1>1 DEF Ownership, BuffersFilled, Filled, QueueOwns
  <1>3. Pending[t] = [i \in 1..n |-> F(i)]
    BY <1>1 DEF Pending
  <1>4. /\ [i \in 1..n |-> F(i)] \in Seq(Packet) /\ Len([i \in 1..n |-> F(i)]) = n
        /\ \A i \in 1..n : [j \in 1..n |-> F(j)][i] = F(i)
    <2>1. \A i \in 1..n : F(i) \in Packet
      BY <1>2
    <2> HIDE DEF F, n
    <2>2. QED
      BY <1>1, <2>1
  <1>5. QED
    BY <1>1, <1>2, <1>3, <1>4

(* What is queued stays the same as long as no live buffer is filled anew. *)
LEMMA PendingStays ==
  ASSUME TypeOK, Ownership, queue' = queue,
         \A b \in Buffer : heap[b] = "live" => bytes'[b] = bytes[b]
  PROVE  Pending' = Pending
  <1>1. ASSUME NEW t \in Thread, NEW i \in DOMAIN queue[t]
        PROVE  bytes'[queue'[t][i].ptr] = bytes[queue[t][i].ptr]
    BY <1>1 DEF Ownership, QueueOwns
  <1>2. QED
    BY <1>1 DEF Pending

(* A payload that is queued adds its packet.                               *)
LEMMA PendingPut ==
  ASSUME TypeOK, Ownership, TypeOK', Ownership', NEW t \in Thread, NEW x \in Payload,
         Enqueue(t, x), \A b \in Buffer : heap[b] = "live" => bytes'[b] = bytes[b]
  PROVE  Pending' = [Pending EXCEPT ![t] = Append(@, bytes'[x.ptr])]
  <1> DEFINE n == Len(queue[t])
             p == bytes'[x.ptr]
  <1>1. queue \in [Thread -> Seq(Payload)]
    BY DEF TypeOK
  <1>2. \A u \in Thread : queue'[u] = IF u = t THEN Append(queue[t], x) ELSE queue[u]
    BY <1>1 DEF Enqueue
  <1>3. /\ Len(queue'[t]) = n + 1 /\ queue'[t][n + 1] = x
        /\ \A i \in 1..n : queue'[t][i] = queue[t][i]
    <2>1. queue[t] \in Seq(Payload) /\ queue'[t] = Append(queue[t], x)
      BY <1>1, <1>2
    <2>2. QED
      BY <2>1, AppendProperties
  <1>4. /\ Pending[t] \in Seq(Packet) /\ Len(Pending[t]) = n /\ n \in Nat
        /\ \A i \in 1..n : Pending[t][i] = bytes[queue[t][i].ptr]
        /\ \A i \in 1..n : queue[t][i].ptr \in Buffer /\ heap[queue[t][i].ptr] = "live"
    BY PendingAre DEF PendingIs
  <1>5. /\ Pending'[t] \in Seq(Packet) /\ Len(Pending'[t]) = n + 1
        /\ \A i \in 1..(n + 1) : Pending'[t][i] = bytes'[queue'[t][i].ptr]
    <2>1. /\ Pending'[t] \in Seq(Packet) /\ Len(Pending'[t]) = Len(queue'[t])
          /\ \A i \in 1..Len(queue'[t]) : Pending'[t][i] = bytes'[queue'[t][i].ptr]
      <3>1. (TypeOK /\ Ownership => PendingIs)'
        BY PendingAre, PTL
      <3>2. QED
        BY <3>1 DEF PendingIs
    <2>2. QED
      BY <1>3, <2>1
  <1>6. Pending'[t] = Append(Pending[t], p)
    <2>1. n + 1 \in 1..(n + 1)
      BY <1>4
    <2>2. p \in Packet
      <3>1. Pending'[t][n + 1] = p
        BY <1>3, <1>5, <2>1
      <3> HIDE DEF p, n
      <3>2. QED
        BY <1>5, <2>1, <3>1, ElementOfSeq
    <2> HIDE DEF p
    <2>3. /\ Append(Pending[t], p) \in Seq(Packet) /\ Len(Append(Pending[t], p)) = n + 1
          /\ Append(Pending[t], p)[n + 1] = p
          /\ \A i \in 1..n : Append(Pending[t], p)[i] = Pending[t][i]
      BY <1>4, <2>2, AppendProperties
    <2>4. ASSUME NEW i \in 1..(n + 1) PROVE Pending'[t][i] = Append(Pending[t], p)[i]
      <3>1. CASE i = n + 1
        BY <1>3, <1>5, <2>1, <2>3, <3>1 DEF p
      <3>2. CASE i # n + 1
        <4>1. i \in 1..n
          BY <1>4, <3>2
        <4>2. bytes'[queue[t][i].ptr] = bytes[queue[t][i].ptr]
          BY <1>4, <4>1
        <4>3. QED
          BY <1>3, <1>4, <1>5, <2>3, <4>1, <4>2
      <3>3. QED
        BY <3>1, <3>2
    <2> DEFINE c == Pending'[t]
               d == Append(Pending[t], p)
    <2>5. /\ c \in Seq(Packet) /\ d \in Seq(Packet) /\ Len(c) = Len(d)
          /\ \A i \in 1..Len(c) : c[i] = d[i]
      <3>1. Len(c) = n + 1 /\ Len(d) = n + 1
        BY <1>5, <2>3
      <3>2. QED
        BY <1>5, <2>3, <2>4, <3>1
    <2> HIDE DEF c, d
    <2>6. c = d
      BY <2>5, SeqEqual
    <2>7. QED
      BY <2>6 DEF c, d
  <1>7. ASSUME NEW u \in Thread, u # t PROVE Pending'[u] = Pending[u]
    <2>1. queue'[u] = queue[u]
      BY <1>2, <1>7
    <2>2. \A i \in DOMAIN queue[u] : bytes'[queue[u][i].ptr] = bytes[queue[u][i].ptr]
      BY DEF Ownership, QueueOwns
    <2>3. QED
      BY <2>1, <2>2 DEF Pending
  <1> HIDE DEF p
  <1>8. /\ Pending' = [u \in Thread |-> Pending'[u]]
        /\ Pending = [u \in Thread |-> Pending[u]]
    BY DEF Pending
  <1>9. [Pending EXCEPT ![t] = Append(@, p)]
          = [u \in Thread |-> IF u = t THEN Append(Pending[t], p) ELSE Pending[u]]
    BY <1>8
  <1>10. QED
    BY <1>6, <1>7, <1>8, <1>9 DEF p

(* One that is taken was the first.                                        *)
LEMMA PendingGet ==
  ASSUME TypeOK, Ownership, TypeOK', Ownership', NEW t \in Thread, queue[t] # <<>>,
         queue' = [queue EXCEPT ![t] = Tail(@)], bytes' = bytes
  PROVE  /\ Pending[t] # <<>> /\ Head(Pending[t]) = bytes[Head(queue[t]).ptr]
         /\ Pending' = [Pending EXCEPT ![t] = Tail(@)]
  <1> DEFINE n == Len(queue[t])
  <1>1. queue \in [Thread -> Seq(Payload)]
    BY DEF TypeOK
  <1>2. \A u \in Thread : queue'[u] = IF u = t THEN Tail(queue[t]) ELSE queue[u]
    BY <1>1
  <1>3. /\ n \in Nat \ {0} /\ Head(queue[t]) = queue[t][1]
        /\ Len(queue'[t]) = n - 1
        /\ \A i \in 1..(n - 1) : queue'[t][i] = queue[t][i + 1]
    BY <1>1, <1>2, HeadTailProperties
  <1>4. /\ Pending[t] \in Seq(Packet) /\ Len(Pending[t]) = n
        /\ \A i \in 1..n : Pending[t][i] = bytes[queue[t][i].ptr]
    BY PendingAre DEF PendingIs
  <1>5. Pending[t] # <<>>
    <2>1. Len(<<>>) = 0
      OBVIOUS
    <2>2. QED
      BY <1>3, <1>4, <2>1
  <1>6. /\ Head(Pending[t]) = Pending[t][1] /\ Tail(Pending[t]) \in Seq(Packet)
        /\ Len(Tail(Pending[t])) = n - 1
        /\ \A i \in 1..(n - 1) : Tail(Pending[t])[i] = Pending[t][i + 1]
    BY <1>4, <1>5, HeadTailProperties
  <1>7. /\ Pending'[t] \in Seq(Packet) /\ Len(Pending'[t]) = n - 1
        /\ \A i \in 1..(n - 1) : Pending'[t][i] = bytes'[queue'[t][i].ptr]
    <2>1. /\ Pending'[t] \in Seq(Packet) /\ Len(Pending'[t]) = Len(queue'[t])
          /\ \A i \in 1..Len(queue'[t]) : Pending'[t][i] = bytes'[queue'[t][i].ptr]
      <3>1. (TypeOK /\ Ownership => PendingIs)'
        BY PendingAre, PTL
      <3>2. QED
        BY <3>1 DEF PendingIs
    <2>2. QED
      BY <1>3, <2>1
  <1>8. Pending'[t] = Tail(Pending[t])
    <2>1. ASSUME NEW i \in 1..(n - 1) PROVE Pending'[t][i] = Tail(Pending[t])[i]
      <3>1. i + 1 \in 1..n
        BY <1>3
      <3>2. QED
        BY <1>3, <1>4, <1>6, <1>7, <3>1
    <2>2. QED
      BY <1>6, <1>7, <2>1, SeqEqual
  <1>9. ASSUME NEW u \in Thread, u # t PROVE Pending'[u] = Pending[u]
    BY <1>2, <1>9 DEF Pending
  <1>10. /\ Pending' = [u \in Thread |-> Pending'[u]]
         /\ Pending = [u \in Thread |-> Pending[u]]
    BY DEF Pending
  <1>11. [Pending EXCEPT ![t] = Tail(@)]
           = [u \in Thread |-> IF u = t THEN Tail(Pending[t]) ELSE Pending[u]]
    BY <1>10
  <1>12. Head(Pending[t]) = bytes[Head(queue[t]).ptr]
    BY <1>3, <1>4, <1>6
  <1>13. QED
    BY <1>5, <1>8, <1>9, <1>10, <1>11, <1>12

(* What the client has read are the packets that were sent.                *)
LEMMA GotIs ==
  ASSUME TypeOK, GarbledOnlyAfterRestart, WholeInv, whole
  PROVE  Got = Packets(Clear)
  BY ReadsPlain DEF Got, Clear, TypeOK

(* A step of the connection is a step of the channel: queueing a packet is *)
(* putting it there, sending it whole is receiving it, and everything else *)
(* is none, or cuts it.                                                    *)
LEMMA SendingSteps ==
  ASSUME TypeOK, Ownership, GarbledOnlyAfterRestart, WholeInv,
         TypeOK', Ownership', GarbledOnlyAfterRestart', WholeInv', [Next]_vars
  PROVE  [Channel!Next]_(Channel!vars)
  <1>1. CASE ~whole'
    <2>1. whole' = FALSE
      BY <1>1 DEF TypeOK
    <2>2. Channel!Cut
      BY <2>1 DEF Channel!Cut
    <2>3. QED
      BY <2>2 DEF Channel!Next
  <1>2. CASE whole'
    <2>1. whole /\ whole' = whole
      <3>1. whole \in BOOLEAN /\ whole' \in BOOLEAN
        BY DEF TypeOK
      <3>2. whole' => whole
        BY DEF Next, NetworkStep, BeginSend, EndSend, SendFails, SendNext, Ignore,
               EnableEncryption, Echo, Echoed, Reply, RecvClosed, Destroy, Receive,
               Callback, Handled, vars, wireVars
      <3>3. QED
        BY <1>2, <3>1, <3>2
    <2>2. Got = Packets(Clear) /\ Got' = Packets(Clear')
      <3>1. Got = Packets(Clear)
        BY <2>1, GotIs
      <3>2. (TypeOK /\ GarbledOnlyAfterRestart /\ WholeInv /\ whole => Got = Packets(Clear))'
        BY GotIs, PTL
      <3>3. QED
        BY <1>2, <3>1, <3>2
    <2>3. ASSUME Pending' = Pending, Clear' = Clear PROVE UNCHANGED Channel!vars
      <3>1. Got' = Got
        BY <2>2, <2>3
      <3>2. QED
        BY <2>1, <2>3, <3>1 DEF Channel!vars, Pending, Got
    <2>4. ASSUME NEW t \in Thread, NEW p \in Packet, Clear' = Clear,
                 Pending' = [Pending EXCEPT ![t] = Append(@, p)]
          PROVE  Channel!Next
      <3>1. Got' = Got
        BY <2>2, <2>4
      <3>2. Channel!Put(t, p)
        BY <2>1, <2>4, <3>1 DEF Channel!Put, Pending, Got
      <3>3. QED
        BY <3>2 DEF Channel!Next
    <2>5. ASSUME NEW t \in Thread, NEW n \in 1..(Base + 2), SendNext(t, n)
          PROVE  Channel!Next
      <3> DEFINE p == bytes[Head(queue[t]).ptr]
      <3>1. p \in Packet /\ Clear \in Seq(Byte) /\ Clear' = Clear \o p
        BY <1>2, <2>5, SendsWhole
      <3>2. /\ queue[t] # <<>> /\ queue' = [queue EXCEPT ![t] = Tail(@)] /\ bytes' = bytes
        BY <2>5 DEF SendNext, heapVars
      <3>3. /\ Pending[t] # <<>> /\ Head(Pending[t]) = p
            /\ Pending' = [Pending EXCEPT ![t] = Tail(@)]
        BY <3>2, PendingGet
      <3> HIDE DEF p
      <3>4. PICK q \in Seq(Packet) : Consists(Clear, q)
        BY <2>1 DEF WholeInv
      <3>5. Clear \o p \in Seq(Byte) /\ Append(q, p) \in Seq(Packet)
        BY <3>1, PacketFits, ConcatProperties, AppendProperties
      <3>6. Got = q /\ Got' = Append(q, p)
        <4>1. Packets(Clear) = q
          BY <3>1, <3>4, ReadAsSent
        <4>2. Consists(Clear \o p, Append(q, p))
          BY <3>1, <3>4, OneMoreConsists
        <4>3. Packets(Clear \o p) = Append(q, p)
          BY <3>5, <4>2, ReadAsSent
        <4>4. QED
          BY <2>2, <3>1, <4>1, <4>3
      <3>7. Got' = Append(Got, Head(Pending[t]))
        BY <3>3, <3>6
      <3>8. Channel!Get(t)
        BY <2>1, <3>3, <3>7 DEF Channel!Get, Pending, Got
      <3>9. QED
        BY <3>8 DEF Channel!Next
    <2>6. ASSUME UNCHANGED <<plain, extra>> PROVE Clear' = Clear
      BY <2>6 DEF Clear
    <2>7. ASSUME NEW b \in Buffer, NEW p \in Packet, IsNext(b), Holding(b, p)
          PROVE  /\ \A c \in Buffer : heap[c] = "live" => bytes'[c] = bytes[c]
                 /\ bytes'[b] = p /\ [ptr |-> b, size |-> Len(p)] \in Payload
      <3>1. bytes \in [Buffer -> Packet \cup {<<>>}] /\ heap[b] = "unused"
        BY <2>7 DEF TypeOK, IsNext
      <3>2. QED
        BY <2>7, <3>1, PacketFits DEF Holding
    <2>8. ASSUME NEW p \in Packet, Reply(p) PROVE Channel!Next
      <3>1. PICK b \in Buffer : /\ IsNext(b) /\ Holding(b, p)
                                /\ Enqueue("network", [ptr |-> b, size |-> Len(p)])
        BY <2>8 DEF Reply
      <3>2. UNCHANGED <<plain, extra>> /\ "network" \in Thread
        BY <2>8 DEF Reply, Handled, Thread
      <3>3. Pending' = [Pending EXCEPT !["network"] = Append(@, p)]
        BY <2>7, <3>1, <3>2, PendingPut
      <3>4. QED
        BY <2>4, <2>6, <3>2, <3>3
    <2>9. ASSUME NEW p \in Packet, Callback(p) PROVE Channel!Next
      <3>1. PICK b \in Buffer : /\ IsNext(b) /\ Holding(b, p)
                                /\ Enqueue("curl", [ptr |-> b, size |-> Len(p)])
        BY <2>9 DEF Callback
      <3>2. UNCHANGED <<plain, extra>> /\ "curl" \in Thread
        BY <2>9 DEF Callback, wireVars, Thread
      <3>3. Pending' = [Pending EXCEPT !["curl"] = Append(@, p)]
        BY <2>7, <3>1, <3>2, PendingPut
      <3>4. QED
        BY <2>4, <2>6, <3>2, <3>3
    <2>10. CASE Echo
      <3> DEFINE x == [received EXCEPT !.size = @ + 2]
      <3>1. /\ Handled /\ Enqueue("network", x) /\ bytes' = bytes
        BY <2>10 DEF Echo, Echoed
      <3>2. UNCHANGED <<plain, extra>> /\ "network" \in Thread /\ netPc = "handle"
        BY <3>1 DEF Handled, Thread
      <3>3. /\ bytes[received.ptr] \in Packet /\ received \in Payload /\ received.ptr \in Buffer
            /\ received.size = Len(bytes[received.ptr])
        <4>1. received.ptr # Null /\ received \in Payload
          BY <3>2 DEF Ownership, HandsInPhase, TypeOK
        <4>2. Filled(received, 0)
          BY <4>1 DEF Ownership, BuffersFilled
        <4>3. bytes[received.ptr] \in Packet /\ Len(bytes[received.ptr]) \in Nat
          BY <4>2, PacketFits DEF Filled
        <4>4. QED
          BY <4>1, <4>2, <4>3 DEF Filled, Payload
      <3>4. x \in Payload /\ x.ptr = received.ptr
        <4>1. [ptr |-> received.ptr, size |-> Len(bytes[received.ptr]) + 2] \in Payload
          BY <3>3, PacketFits
        <4>2. x = [ptr |-> received.ptr, size |-> received.size + 2]
          BY <3>3 DEF Payload
        <4>3. QED
          BY <3>3, <4>1, <4>2
      <3> HIDE DEF x
      <3>5. Pending' = [Pending EXCEPT !["network"] = Append(@, bytes[received.ptr])]
        BY <3>1, <3>2, <3>4, PendingPut
      <3>6. QED
        BY <2>4, <2>6, <3>2, <3>3, <3>5
    <2>11. CASE Ignore \/ EnableEncryption \/ EndSend \/ BeginSend \/ UNCHANGED vars
      <3>1. UNCHANGED <<queue, bytes, plain, extra>>
        BY <2>11 DEF Ignore, EnableEncryption, Handled, EndSend, BeginSend, vars,
                     heapVars, wireVars
      <3>2. Pending' = Pending
        BY <3>1, PendingStays
      <3>3. QED
        BY <2>3, <2>6, <3>1, <3>2
    <2>12. ASSUME NEW p \in Packet, Receive(p) PROVE UNCHANGED Channel!vars
      <3>1. PICK b \in Buffer : IsNext(b) /\ Holding(b, p)
        BY <2>12 DEF Receive
      <3>2. UNCHANGED <<queue, plain, extra>>
        BY <2>12 DEF Receive, wireVars
      <3>3. Pending' = Pending
        BY <2>7, <3>1, <3>2, PendingStays
      <3>4. QED
        BY <2>3, <2>6, <3>2, <3>3
    <2>13. ~(Destroy \/ RecvClosed \/ \E t \in Thread : SendFails(t))
      BY <1>2, <2>1 DEF Destroy, RecvClosed, SendFails, WholeInv
    <2>14. QED
      BY <2>5, <2>8, <2>9, <2>10, <2>11, <2>12, <2>13 DEF Next, NetworkStep
  <1>3. QED
    BY <1>1, <1>2

(* Until something is cut, the connection is a channel of whole packets:   *)
(* the client reads those that were queued, each once and those of one     *)
(* thread in their order, encrypted or not.                                *)
THEOREM SendingIsChannel == Spec => Channel!Spec
  <1>1. Init => Channel!Init
    <2> SUFFICES ASSUME Init PROVE Channel!Init
      OBVIOUS
    <2>1. /\ queue = [t \in Thread |-> <<>>] /\ whole = TRUE /\ wire = <<>>
          /\ extra = 0 /\ encrypted = FALSE
      BY DEF Init
    <2>2. Pending = [t \in Thread |-> <<>>]
      <3>1. ASSUME NEW t \in Thread
            PROVE  [i \in DOMAIN queue[t] |-> bytes[queue[t][i].ptr]] = <<>>
        <4>1. queue[t] = <<>> /\ DOMAIN <<>> = {}
          BY <2>1
        <4>2. QED
          BY <4>1
      <3>2. QED
        BY <3>1 DEF Pending
    <2>3. Got = <<>>
      <3>1. SubSeq(ClientReads, 1, 0) = <<>> /\ Len(<<>>) = 0 /\ 0 - 0 = 0
        BY SubSeqEmpty
      <3>2. Packets(<<>>) = <<>>
        <4>1. <<>> \in Seq(Byte) /\ <<>> \in Seq(Packet)
          OBVIOUS
        <4>2. QED
          BY <4>1, NothingConsists, ReadAsSent
      <3>3. QED
        BY <2>1, <3>1, <3>2 DEF Got
    <2>4. QED
      BY <2>1, <2>2, <2>3 DEF Channel!Init, Pending, Got
  <1>2. /\ TypeOK /\ Ownership /\ GarbledOnlyAfterRestart /\ WholeInv
        /\ TypeOK' /\ Ownership' /\ GarbledOnlyAfterRestart' /\ WholeInv' /\ [Next]_vars
        => [Channel!Next]_(Channel!vars)
    BY SendingSteps
  <1>3. QED
    BY <1>1, <1>2, SendingTypeCorrect, GarblesOnlyRestarts, WholeInvHolds, PTL
    DEF Spec, Channel!Spec
=============================================================================
