---------------------------- MODULE FramingProofs ----------------------------
(***************************************************************************)
(* Framing, proved for every set of packets, every length of the buffer,   *)
(* whatever is behind it, and however many packets are sent.               *)
(***************************************************************************)
EXTENDS Framing, DataProofs, FiniteSetTheorems

(***************************************************************************)
(* What the loops over the segments of a VarInt compute.                   *)
(***************************************************************************)

(* The first byte without the continue bit ends a VarInt.                  *)
LEMMA FirstEnds ==
  ASSUME NEW m, NEW k \in 1..Segments, m[k] < Base, \A j \in 1..(k - 1) : m[j] >= Base,
         \A j \in 1..k : m[j] \in Nat
  PROVE  /\ LastSegments(m) = {k}
         /\ ReadVarInt(m) = Signed(Value(Base, [j \in 1..k |-> m[k + 1 - j] % Base]))
  <1>1. Segments \in Nat /\ Base \in Nat
    BY BoundsAssumption
  <1>2. ASSUME NEW i \in LastSegments(m) PROVE i = k
    <2>1. i \in 1..Segments /\ m[i] < Base /\ \A j \in 1..(i - 1) : m[j] >= Base
      BY DEF LastSegments
    <2>2. ~(i < k)
      <3>1. i < k => i \in 1..(k - 1) /\ m[i] \in Nat
        BY <1>1, <2>1
      <3>2. QED
        BY <1>1, <2>1, <3>1
    <2>3. ~(k < i)
      <3>1. k < i => k \in 1..(i - 1)
        BY <1>1, <2>1
      <3>2. k \in 1..k /\ m[k] \in Nat
        BY <1>1
      <3>3. QED
        BY <1>1, <2>1, <3>1, <3>2
    <2>4. QED
      BY <1>1, <2>1, <2>2, <2>3
  <1>3. k \in LastSegments(m)
    BY DEF LastSegments
  <1>4. LastSegments(m) = {k}
    BY <1>2, <1>3
  <1>5. (CHOOSE i \in {k} : TRUE) = k
    OBVIOUS
  <1>6. QED
    BY <1>4, <1>5 DEF ReadVarInt

(* Whatever a VarInt is read from, it is an integer.                       *)
LEMMA ReadsInt ==
  ASSUME NEW m \in [1..Segments -> Nat]
  PROVE  ReadVarInt(m) \in Int
  <1>1. /\ Segments \in Nat /\ Segments - 1 \in Nat /\ Base \in Nat \ {0}
        /\ Top \in Nat \ {0}
    BY BoundsAssumption
  <1>2. CASE LastSegments(m) = {}
    BY <1>2 DEF ReadVarInt
  <1>3. CASE LastSegments(m) # {}
    <2> DEFINE k == CHOOSE k \in LastSegments(m) : TRUE
               d == [j \in 1..k |-> m[k + 1 - j] % Base]
    <2>1. ReadVarInt(m) = Signed(Value(Base, d))
      BY <1>3 DEF ReadVarInt
    <2>2. k \in 1..Segments
      <3>1. k \in LastSegments(m)
        BY <1>3
      <3>2. QED
        BY <3>1 DEF LastSegments
    <2> HIDE DEF k
    <2>3. ASSUME NEW j \in 1..k PROVE m[k + 1 - j] % Base \in Nat
      <3>1. k + 1 - j \in 1..Segments
        BY <1>1, <2>2
      <3>2. m[k + 1 - j] \in Nat
        BY <3>1
      <3>3. ASSUME NEW x \in Nat PROVE x % Base \in Nat
        BY <1>1, Division
      <3>4. QED
        BY <3>2, <3>3
    <2>4. d \in [1..k -> Nat] /\ k \in Nat
      BY <1>1, <2>2, <2>3
    <2> HIDE DEF d
    <2>5. d \in Seq(Nat) /\ Len(d) = k
      <3>1. d \in Seq(Nat)
        BY <2>4, SeqDef
      <3>2. QED
        BY <2>4, <3>1, LenProperties
    <2>6. PICK f : Values(Base, d, f) /\ Value(Base, d) = f[Len(d)]
      BY <1>1, <2>5, ValueIs
    <2>7. f[k] \in Nat
      <3>1. f \in [0..Len(d) -> Nat] /\ k \in 0..k
        BY <2>4, <2>6 DEF Values
      <3>2. QED
        BY <2>5, <3>1
    <2>8. Word \in Nat \ {0}
      <3> DEFINE p == Power(Base, Segments - 1)
      <3>1. p \in Nat \ {0}
        BY <1>1, PowerIs
      <3> HIDE DEF p
      <3>2. p * Top \in Nat \ {0}
        BY <1>1, <3>1
      <3>3. QED
        BY <3>2 DEF Word, p
    <2>9. \A u \in Nat : Signed(u) \in Int
      <3> HIDE DEF k
      <3>1. ASSUME NEW u \in Nat PROVE u % Word \in Nat
        BY <2>8, Division
      <3>2. QED
        BY <2>8, <3>1 DEF Signed
    <2>10. QED
      BY <2>1, <2>5, <2>6, <2>7, <2>9
  <1>4. QED
    BY <1>2, <1>3

(* The size of a size is not zero.                                         *)
LEMMA SizesCount ==
  ASSUME NEW v
  PROVE  SizeLength(v) \in Nat \ {0}
  <1> DEFINE S == {k \in 1..(Segments - 1) : v >= Power(Base, k)}
  <1>1. IsFiniteSet(1..(Segments - 1))
    BY BoundsAssumption, FS_Interval
  <1>2. S \in SUBSET (1..(Segments - 1))
    OBVIOUS
  <1>3. Cardinality(S) \in Nat
    BY <1>1, <1>2, FS_Subset, FS_CardinalityType
  <1>4. QED
    BY <1>3 DEF SizeLength

(* Where a packet is found complete, its length is what its size says.     *)
LEMMA SizeOfPacket ==
  ASSUME NEW p \in Packet, NEW m, \A i \in 1..Segments : i <= Len(p) => m[i] = p[i]
  PROVE  ReadVarInt(m) >= 0 /\ ReadVarInt(m) + SizeLength(ReadVarInt(m)) = Len(p)
  <1> DEFINE q == [i \in 1..Segments |-> IF i <= Len(p) THEN p[i] ELSE 0]
             K == {k \in 1..Segments : k <= Len(p) /\ p[k] < Base}
  <1>1. /\ p \in Seq(Byte) /\ Len(p) \in Nat /\ K # {}
        /\ ReadVarInt(q) >= 0 /\ ReadVarInt(q) + SizeLength(ReadVarInt(q)) = Len(p)
    BY PacketAssumption
  <1>2. Segments \in Nat /\ Base \in Nat /\ Byte \subseteq Nat
    BY BoundsAssumption DEF Byte
  <1>3. PICK k \in K : \A j \in K : ~(j < k)
    <2>1. K \in SUBSET Nat
      BY <1>2
    <2> HIDE DEF K
    <2>2. QED
      BY <1>1, <2>1, LeastNatural
  <1>4. /\ k \in 1..Segments /\ k <= Len(p) /\ p[k] < Base
        /\ \A j \in 1..k : j \in 1..Segments /\ j \in 1..Len(p) /\ p[j] \in Nat
    <2>1. k \in 1..Segments /\ k <= Len(p) /\ p[k] < Base
      OBVIOUS
    <2>2. ASSUME NEW j \in 1..k PROVE j \in 1..Segments /\ j \in 1..Len(p)
      <3>1. Len(p) \in Nat
        BY <1>1
      <3> HIDE DEF K, q
      <3>2. QED
        BY <1>2, <2>1, <3>1
    <2>3. \A j \in 1..Len(p) : p[j] \in Byte
      BY <1>1, ElementOfSeq
    <2>4. QED
      BY <1>2, <2>1, <2>2, <2>3
  <1>5. \A j \in 1..(k - 1) : p[j] >= Base /\ j \in 1..k
    <2> SUFFICES ASSUME NEW j \in 1..(k - 1) PROVE p[j] >= Base /\ j \in 1..k
      OBVIOUS
    <2>1. j \in 1..k /\ j < k
      BY <1>2, <1>4
    <2>2. j \in 1..Segments /\ j <= Len(p) /\ p[j] \in Nat
      <3>1. Len(p) \in Nat /\ j \in 1..Len(p)
        BY <1>1, <1>4, <2>1
      <3>2. j <= Len(p)
        BY <3>1
      <3>3. QED
        BY <1>4, <2>1, <3>2
    <2>3. j \notin K
      BY <1>3, <2>1
    <2>4. ~(p[j] < Base)
      BY <2>2, <2>3
    <2>5. QED
      BY <1>2, <2>1, <2>2, <2>4
  <1> HIDE DEF K
  <1>6. \A j \in 1..k : m[j] = p[j] /\ q[j] = p[j]
    <2> SUFFICES ASSUME NEW j \in 1..k PROVE m[j] = p[j] /\ q[j] = p[j]
      OBVIOUS
    <2>1. Len(p) \in Nat /\ j \in 1..Segments /\ j \in 1..Len(p)
      BY <1>1, <1>4
    <2>2. j <= Len(p)
      BY <2>1
    <2>3. QED
      BY <2>1, <2>2
  <1> HIDE DEF q
  <1>7. /\ k \in 1..Segments
        /\ m[k] < Base /\ (\A j \in 1..(k - 1) : m[j] >= Base)
        /\ \A j \in 1..k : m[j] \in Nat
        /\ q[k] < Base /\ (\A j \in 1..(k - 1) : q[j] >= Base)
        /\ \A j \in 1..k : q[j] \in Nat
    <2>1. k \in 1..k
      BY <1>4
    <2>2. QED
      BY <1>4, <1>5, <1>6, <2>1
  <1>8. ReadVarInt(m) = Signed(Value(Base, [j \in 1..k |-> m[k + 1 - j] % Base]))
    BY <1>7, FirstEnds
  <1>9. ReadVarInt(q) = Signed(Value(Base, [j \in 1..k |-> q[k + 1 - j] % Base]))
    BY <1>7, FirstEnds
  <1>10. [j \in 1..k |-> m[k + 1 - j] % Base] = [j \in 1..k |-> q[k + 1 - j] % Base]
    <2>1. ASSUME NEW j \in 1..k PROVE m[k + 1 - j] % Base = q[k + 1 - j] % Base
      <3>1. k + 1 - j \in 1..k
        BY <1>4
      <3>2. QED
        BY <1>6, <3>1
    <2>2. QED
      BY <2>1
  <1>11. QED
    BY <1>1, <1>8, <1>9, <1>10

(***************************************************************************)
(* What FlattenSeq computes.                                               *)
(***************************************************************************)

(* FlattenSeq computes its last value.                                     *)
LEMMA FlattenIs ==
  ASSUME NEW X, NEW s \in Seq(Seq(X)), NEW f, Running(X, s, f)
  PROVE  FlattenSeq(s) = f[Len(s)]
  <1> DEFINE n == Len(s)
             Rounds(g) == [i \in 1..n |-> IF i = 1 THEN s[i] ELSE g[i - 1] \o s[i]]
             g == CHOOSE h : h = Rounds(h)
  <1>1. /\ n \in Nat /\ f \in [0..n -> Seq(X)] /\ f[0] = <<>>
        /\ \A i \in 1..n : f[i] = f[i - 1] \o s[i] /\ s[i] \in Seq(X)
    <2>1. /\ n \in Nat /\ f \in [0..n -> Seq(X)] /\ f[0] = <<>>
          /\ \A i \in 1..n : f[i] = f[i - 1] \o s[i]
      <3>1. Running(X, s, f) /\ n \in Nat
        OBVIOUS
      <3>2. QED
        BY <3>1, ZenonT(40) DEF Running
    <2>2. \A i \in 1..n : s[i] \in Seq(X)
      BY ElementOfSeq
    <2>3. QED
      BY <2>1, <2>2
  <1>2. CASE n = 0
    <2>1. s = <<>>
      BY <1>2
    <2>2. QED
      BY <1>1, <1>2, <2>1 DEF FlattenSeq
  <1>3. CASE n # 0
    <2>1. FlattenSeq(s) = g[n]
      BY <1>3 DEF FlattenSeq
    <2>2. \E h : h = Rounds(h)
      <3> DEFINE h == [i \in 1..n |-> f[i]]
      <3>1. ASSUME NEW i \in 1..n PROVE h[i] = Rounds(h)[i]
        <4>1. CASE i = 1
          <5>1. f[1] = f[0] \o s[1]
            <6>1. 1 \in 1..n /\ 1 - 1 = 0
              BY <4>1
            <6>2. f[1] = f[1 - 1] \o s[1]
              BY <1>1, <6>1
            <6>3. QED
              BY <6>1, <6>2
          <5>2. f[1] = s[1]
            BY <1>1, <4>1, <5>1, ConcatEmptySeq
          <5>3. QED
            BY <4>1, <5>2
        <4>2. CASE i # 1
          <5>1. i - 1 \in 1..n /\ h[i - 1] = f[i - 1]
            BY <1>1, <4>2
          <5>2. QED
            BY <1>1, <4>2, <5>1
        <4>3. QED
          BY <4>1, <4>2
      <3>2. h = Rounds(h)
        BY <3>1
      <3>3. QED
        BY <3>2
    <2>3. g = Rounds(g)
      BY <2>2, Zenon
    <2> HIDE DEF g
    <2>4. \A i \in 1..n : g[i] = Rounds(g)[i]
      BY <2>3
    <2>5. ASSUME NEW i \in 1..n
          PROVE  g[i] = IF i = 1 THEN s[i] ELSE g[i - 1] \o s[i]
      BY <2>4
    <2> DEFINE S == {m \in Nat : m + 1 <= n => g[m + 1] = f[m + 1]}
    <2>6. 0 \in S
      <3>1. n > 0 /\ 1 \in 1..n /\ 0 + 1 = 1 /\ 1 - 1 = 0
        BY <1>1, <1>3
      <3>2. g[1] = s[1] /\ f[1] = f[0] \o s[1]
        BY <1>1, <2>5, <3>1
      <3>3. f[1] = s[1]
        BY <1>1, <3>1, <3>2, ConcatEmptySeq
      <3>4. QED
        BY <3>1, <3>2, <3>3
    <2>7. ASSUME NEW m \in Nat, m \in S PROVE m + 1 \in S
      <3> SUFFICES ASSUME (m + 1) + 1 <= n PROVE g[(m + 1) + 1] = f[(m + 1) + 1]
        OBVIOUS
      <3> DEFINE i == (m + 1) + 1
      <3>1. i \in 1..n /\ i # 1 /\ i - 1 = m + 1 /\ g[m + 1] = f[m + 1]
        BY <1>1, <2>7
      <3> HIDE DEF i
      <3>2. g[i] = f[i]
        <4>1. g[i] = g[i - 1] \o s[i]
          BY <2>5, <3>1
        <4>2. f[i] = f[i - 1] \o s[i]
          BY <1>1, <3>1
        <4>3. QED
          BY <3>1, <4>1, <4>2
      <3>3. QED
        BY <3>2 DEF i
    <2> HIDE DEF S
    <2>8. n - 1 \in S
      <3>1. n - 1 \in Nat
        BY <1>1, <1>3
      <3>2. \A m \in Nat : m \in S
        BY <2>6, <2>7, SetInduction
      <3>3. QED
        BY <3>1, <3>2
    <2>9. (n - 1) + 1 = n
      BY <1>1
    <2>10. g[n] = f[n]
      BY <2>8, <2>9 DEF S
    <2>11. QED
      BY <2>1, <2>10
  <1>4. QED
    BY <1>2, <1>3

(* The bytes of the first k packets of s.                                  *)
Bytes(s, k) == FlattenSeq(SubSeq(s, 1, k))

(* They are those of the packet k behind those of the packets before.      *)
LEMMA Boundaries ==
  ASSUME NEW X, NEW s \in Seq(Seq(X))
  PROVE  /\ Bytes(s, 0) = <<>> /\ Bytes(s, Len(s)) = FlattenSeq(s)
         /\ \A k \in 0..Len(s) : Bytes(s, k) \in Seq(X)
         /\ \A k \in 1..Len(s) : Bytes(s, k) = Bytes(s, k - 1) \o s[k]
  <1>1. PICK f : Running(X, s, f)
    BY RunningExists DEF HasRunning
  <1>2. /\ Len(s) \in Nat /\ f \in [0..Len(s) -> Seq(X)] /\ f[0] = <<>>
        /\ \A i \in 1..Len(s) : f[i] = f[i - 1] \o s[i]
    <2>1. Len(s) \in Nat
      OBVIOUS
    <2>2. QED
      BY <1>1, <2>1, Zenon DEF Running
  <1>3. ASSUME NEW k \in 0..Len(s) PROVE Bytes(s, k) = f[k]
    <2> DEFINE t == SubSeq(s, 1, k)
               h == [i \in 0..k |-> f[i]]
    <2>1. /\ t \in Seq(Seq(X)) /\ Len(t) = k /\ \A i \in 1..k : t[i] = s[i]
      <3>1. /\ 1 \in Nat \ {0} /\ k \in Nat /\ k <= Len(s) /\ 1 <= k + 1
            /\ k - 1 + 1 = k /\ \A i \in 1..k : 1 + i - 1 = i
        BY <1>2
      <3>2. /\ t \in Seq(Seq(X)) /\ Len(t) = k - 1 + 1
            /\ \A i \in 1..(k - 1 + 1) : t[i] = s[1 + i - 1]
        BY <3>1, PartIs
      <3>3. QED
        BY <3>1, <3>2
    <2> HIDE DEF t
    <2>2. h \in [0..k -> Seq(X)] /\ h[0] = <<>>
      BY <1>2
    <2>3. ASSUME NEW i \in 1..k PROVE h[i] = h[i - 1] \o t[i]
      <3>1. i \in 1..Len(s) /\ i \in 0..k /\ i - 1 \in 0..k
        BY <1>2
      <3>2. h[i] = f[i] /\ h[i - 1] = f[i - 1]
        BY <3>1
      <3> HIDE DEF h
      <3>3. QED
        BY <1>2, <2>1, <3>1, <3>2
    <2>4. h[k] = f[k]
      OBVIOUS
    <2> HIDE DEF h
    <2>5. Running(X, t, h)
      BY <2>1, <2>2, <2>3 DEF Running
    <2>6. FlattenSeq(t) = h[k]
      BY <2>1, <2>5, FlattenIs
    <2>7. QED
      BY <2>4, <2>6 DEF Bytes, t
  <1>4. FlattenSeq(s) = f[Len(s)]
    BY <1>1, FlattenIs
  <1>5. ASSUME NEW k \in 1..Len(s) PROVE Bytes(s, k) = Bytes(s, k - 1) \o s[k]
    <2>1. k \in 0..Len(s) /\ k - 1 \in 0..Len(s)
      BY <1>2
    <2>2. QED
      BY <1>2, <1>3, <2>1
  <1>6. 0 \in 0..Len(s) /\ Len(s) \in 0..Len(s)
    BY <1>2
  <1>7. QED
    BY <1>2, <1>3, <1>4, <1>5, <1>6

(* One more packet does not change the bytes of those before.              *)
LEMMA OneMore ==
  ASSUME NEW X, NEW s \in Seq(Seq(X)), NEW p \in Seq(X)
  PROVE  /\ \A k \in 0..Len(s) : /\ SubSeq(Append(s, p), 1, k) = SubSeq(s, 1, k)
                                 /\ Bytes(Append(s, p), k) = Bytes(s, k)
         /\ FlattenSeq(Append(s, p)) = FlattenSeq(s) \o p
  <1> DEFINE t == Append(s, p)
  <1>1. /\ t \in Seq(Seq(X)) /\ Len(t) = Len(s) + 1 /\ t[Len(s) + 1] = p
        /\ Len(s) \in Nat
    BY AppendProperties
  <1>2. ASSUME NEW k \in 0..Len(s) PROVE SubSeq(t, 1, k) = SubSeq(s, 1, k)
    <2>1. t = s \o <<p>> /\ <<p>> \in Seq(Seq(X))
      BY AppendIsConcat
    <2>2. 1 \in Nat \ {0} /\ k \in Nat /\ k <= Len(s) /\ 1 <= k + 1
      BY <1>1
    <2>3. QED
      BY <2>1, <2>2, PartOfPrefix
  <1> HIDE DEF t
  <1>3. \A k \in 0..Len(s) : Bytes(t, k) = Bytes(s, k)
    BY <1>2 DEF Bytes
  <1> DEFINE m == Len(s) + 1
  <1>4. m \in 1..Len(t) /\ m - 1 = Len(s) /\ Len(s) \in 0..Len(s) /\ m = Len(t)
    BY <1>1
  <1>5. Bytes(t, m) = Bytes(t, m - 1) \o t[m]
    <2> HIDE DEF m
    <2>1. QED
      BY <1>1, <1>4, Boundaries
  <1>6. Bytes(t, m) = FlattenSeq(t) /\ Bytes(s, Len(s)) = FlattenSeq(s)
    BY <1>1, <1>4, Boundaries
  <1>7. t[m] = p
    BY <1>1
  <1>8. FlattenSeq(t) = FlattenSeq(s) \o p
    <2> HIDE DEF m
    <2>1. QED
      BY <1>3, <1>4, <1>5, <1>6, <1>7
  <1>9. QED
    BY <1>2, <1>3, <1>8 DEF t

(* The bytes of fewer packets are the first of those of more, and fewer,   *)
(* as none is empty.                                                       *)
LEMMA Nested ==
  ASSUME NEW X, NEW s \in Seq(Seq(X)), \A i \in 1..Len(s) : Len(s[i]) > 0,
         NEW k \in 0..Len(s), NEW j \in 0..Len(s), k <= j
  PROVE  /\ Len(Bytes(s, k)) <= Len(Bytes(s, j))
         /\ k < j => Len(Bytes(s, k)) < Len(Bytes(s, j))
         /\ \A i \in 1..Len(Bytes(s, k)) : Bytes(s, j)[i] = Bytes(s, k)[i]
  <1> DEFINE Within(m) ==
               /\ Len(Bytes(s, k)) <= Len(Bytes(s, m))
               /\ k < m => Len(Bytes(s, k)) < Len(Bytes(s, m))
               /\ \A i \in 1..Len(Bytes(s, k)) : Bytes(s, m)[i] = Bytes(s, k)[i]
             S == {m \in Nat : k + m <= Len(s) => Within(k + m)}
  <1>1. /\ Len(s) \in Nat
        /\ \A m \in 0..Len(s) : Bytes(s, m) \in Seq(X)
        /\ \A m \in 0..Len(s) : Len(Bytes(s, m)) \in Nat
        /\ \A m \in 1..Len(s) : Bytes(s, m) = Bytes(s, m - 1) \o s[m]
        /\ \A m \in 1..Len(s) : s[m] \in Seq(X) /\ Len(s[m]) \in Nat
    <2>1. Len(s) \in Nat /\ \A m \in 1..Len(s) : s[m] \in Seq(X)
      BY ElementOfSeq
    <2>2. \A q \in Seq(X) : Len(q) \in Nat
      OBVIOUS
    <2>3. QED
      BY <2>1, <2>2, Boundaries
  <1>2. 0 \in S
    <2>1. k + 0 = k
      OBVIOUS
    <2>2. Within(k)
      BY <1>1
    <2>3. QED
      BY <2>1, <2>2
  <1>3. ASSUME NEW m \in Nat, m \in S PROVE m + 1 \in S
    <2> SUFFICES ASSUME k + (m + 1) <= Len(s) PROVE Within(k + (m + 1))
      OBVIOUS
    <2> DEFINE e == k + (m + 1)
    <2>1. e \in 1..Len(s) /\ e - 1 = k + m /\ e - 1 \in 0..Len(s) /\ k < e /\ e \in 0..Len(s)
      BY <1>1
    <2>2. Within(e - 1)
      BY <1>1, <1>3, <2>1
    <2> HIDE DEF e
    <2> DEFINE a == Bytes(s, e - 1)
               b == Bytes(s, e)
               c == Bytes(s, k)
    <2>3. b = a \o s[e] /\ a \in Seq(X) /\ s[e] \in Seq(X) /\ Len(s[e]) > 0
          /\ Len(a) \in Nat /\ Len(s[e]) \in Nat /\ Len(c) \in Nat
      BY <1>1, <2>1
    <2>4. Len(c) <= Len(a) /\ \A i \in 1..Len(c) : a[i] = c[i]
      BY <2>2
    <2> HIDE DEF a, b, c
    <2>5. /\ Len(b) = Len(a) + Len(s[e])
          /\ \A i \in 1..(Len(a) + Len(s[e])) :
               b[i] = IF i <= Len(a) THEN a[i] ELSE s[e][i - Len(a)]
      BY <2>3, ConcatProperties
    <2>6. Len(c) < Len(b)
      BY <2>3, <2>4, <2>5
    <2>7. ASSUME NEW i \in 1..Len(c) PROVE b[i] = c[i]
      <3>1. i \in 1..(Len(a) + Len(s[e])) /\ i <= Len(a)
        BY <2>3, <2>4
      <3>2. QED
        BY <2>4, <2>5, <3>1
    <2>8. Len(c) <= Len(b)
      BY <2>3, <2>5, <2>6
    <2>9. Within(e)
      BY <2>6, <2>7, <2>8 DEF b, c
    <2>10. QED
      BY <2>9 DEF e
  <1> HIDE DEF S, Within
  <1>4. j - k \in S
    <2>1. j - k \in Nat
      BY <1>1
    <2>2. \A m \in Nat : m \in S
      BY <1>2, <1>3, SetInduction
    <2>3. QED
      BY <2>1, <2>2
  <1>5. k + (j - k) = j /\ j <= Len(s)
    BY <1>1
  <1>6. Within(j)
    BY <1>4, <1>5 DEF S
  <1>7. QED
    BY <1>6 DEF Within

(***************************************************************************)
(* The inductive invariant.                                                *)
(***************************************************************************)

(* Where the packet behind the first k begins.                             *)
Begin(k) == Len(Bytes(sent, k))

(* The client sends in the clear until it has answered.                    *)
ClearIs ==
    /\ ~Answered => clear = Len(FlattenSeq(sent))
    /\ \A k \in 1..Len(sent) : sent[k] = Response => clear = Begin(k)

(* What is under way is the end of what was sent.                          *)
UnderWay ==
    /\ stream \in Seq(Nat) /\ buffer \in Seq(Nat)
    /\ Len(stream) <= Len(FlattenSeq(sent))
    /\ \A i \in 1..Len(stream) : stream[i] = FlattenSeq(sent)[Arrived + i]

(* As long as nothing is cut, what was given to the player are the first   *)
(* packets, and what is left in the buffer are some of the next, no part   *)
(* of a packet missing; and what arrives is decrypted since the client has *)
(* encrypted it.                                                           *)
Aligned ==
    LET got == Len(delivered)
    IN /\ open /\ got \in 0..Len(sent) /\ delivered = SubSeq(sent, 1, got)
       /\ offset <= Len(buffer) /\ pc # "hung"
       /\ encrypted => \E k \in 1..got : sent[k] = Response
       /\ \A k \in 1..got : sent[k] = Response => encrypted
       /\ pc = "idle" => Begin(got) = Arrived
       /\ pc = "packets" =>
            /\ Begin(got) + (Len(buffer) - offset) = Arrived
            /\ \A i \in 1..(Len(buffer) - offset) :
                 buffer[offset + i] = FlattenSeq(sent)[Begin(got) + i]
            /\ \E k \in got..Len(sent) : Arrived = Begin(k)

FramingInv == TypeOK /\ UnderWay /\ ClearIs /\ (~cut => Aligned)

(* What memory holds are numbers.                                          *)
LEMMA NoiseBytes ==
  ASSUME NEW b \in Noise, NEW i \in 1..MemLen
  PROVE  b[i] \in Nat
  <1>1. b[i] \in Byte
    BY NoiseAssumption
  <1>2. Byte \subseteq Nat
    BY BoundsAssumption DEF Byte
  <1>3. QED
    BY <1>1, <1>2

(* A packet is a sequence of numbers.                                      *)
LEMMA PacketBytes ==
  ASSUME NEW p \in Packet
  PROVE  p \in Seq(Nat) /\ Len(p) \in Nat /\ Len(p) > 0
  <1>1. p \in Seq(Byte) /\ Len(p) > 1
    BY PacketAssumption
  <1>2. Byte \subseteq Nat
    BY BoundsAssumption DEF Byte
  <1>3. p \in Seq(Nat)
    BY <1>1, <1>2, SeqOfMore
  <1>4. QED
    BY <1>1, <1>3

(* Packets are bytes, and what was sent are packets.                       *)
LEMMA SentBytes ==
  ASSUME TypeOK
  PROVE  /\ sent \in Seq(Seq(Nat)) /\ Len(sent) \in Nat
         /\ \A i \in 1..Len(sent) : /\ sent[i] \in Packet /\ sent[i] \in Seq(Nat)
                                    /\ Len(sent[i]) \in Nat /\ Len(sent[i]) > 0
         /\ FlattenSeq(sent) \in Seq(Nat) /\ Len(FlattenSeq(sent)) \in Nat
         /\ \A k \in 0..Len(sent) : Bytes(sent, k) \in Seq(Nat) /\ Begin(k) \in Nat
  <1>1. /\ \A p \in Packet : p \in Seq(Nat) /\ Len(p) \in Nat /\ Len(p) > 0
        /\ \A q \in Seq(Nat) : Len(q) \in Nat
    BY PacketBytes
  <1>2. sent \in Seq(Packet) /\ Len(sent) \in Nat
    BY DEF TypeOK
  <1>3. \A i \in 1..Len(sent) : sent[i] \in Packet
    BY <1>2, ElementOfSeq
  <1>4. sent \in Seq(Seq(Nat))
    <2>1. Packet \subseteq Seq(Nat)
      BY <1>1
    <2>2. sent \in [1..Len(sent) -> Seq(Nat)]
      BY <1>2, <1>3, <2>1
    <2>3. sent \in UNION {[1..n -> Seq(Nat)] : n \in Nat}
      BY <1>2, <2>2
    <2>4. QED
      BY <2>3, SeqDef
  <1>5. \A k \in 0..Len(sent) : Bytes(sent, k) \in Seq(Nat)
    BY <1>4, Boundaries
  <1>6. FlattenSeq(sent) \in Seq(Nat)
    <2>1. Len(sent) \in 0..Len(sent)
      BY <1>2
    <2>2. QED
      BY <1>4, <1>5, <2>1, Boundaries
  <1>7. QED
    BY <1>1, <1>2, <1>3, <1>4, <1>5, <1>6 DEF Begin

(* The client sends another packet.                                        *)
LEMMA ClientSendKeeps ==
  ASSUME FramingInv, NEW p \in Packet, ClientSend(p)
  PROVE  FramingInv'
  <1> DEFINE F == FlattenSeq(sent)
             F1 == FlattenSeq(sent')
             n == Len(stream)
  <1>1. /\ Len(sent) < MaxPackets /\ sent' = Append(sent, p) /\ stream' = stream \o p
        /\ clear' = (IF Answered THEN clear ELSE clear + Len(p))
        /\ (Answered => p # Response)
        /\ UNCHANGED <<pc, buffer, decrypted, offset, encrypted, delivered, open, cut>>
    BY DEF ClientSend, recvVars
  <1>2. /\ sent \in Seq(Seq(Nat)) /\ Len(sent) \in Nat
        /\ F \in Seq(Nat) /\ Len(F) \in Nat
        /\ \A k \in 0..Len(sent) : Begin(k) \in Nat
    BY SentBytes DEF FramingInv
  <1>3. p \in Seq(Nat) /\ Len(p) \in Nat
    BY PacketBytes
  <1>4. /\ \A k \in 0..Len(sent) : /\ SubSeq(sent', 1, k) = SubSeq(sent, 1, k)
                                    /\ Bytes(sent', k) = Bytes(sent, k)
        /\ F1 = F \o p
    BY <1>1, <1>2, <1>3, OneMore
  <1>5. stream \in Seq(Nat) /\ n \in Nat /\ n <= Len(F)
        /\ \A i \in 1..n : stream[i] = F[Len(F) - n + i]
    BY DEF FramingInv, UnderWay, Arrived
  <1> HIDE DEF F, F1, n
  <1>6. /\ F1 \in Seq(Nat) /\ Len(F1) = Len(F) + Len(p)
        /\ \A i \in 1..(Len(F) + Len(p)) :
             F1[i] = IF i <= Len(F) THEN F[i] ELSE p[i - Len(F)]
    BY <1>2, <1>3, <1>4, ConcatProperties
  <1>7. /\ stream' \in Seq(Nat) /\ Len(stream') = n + Len(p)
        /\ \A i \in 1..(n + Len(p)) :
             stream'[i] = IF i <= n THEN stream[i] ELSE p[i - n]
    BY <1>1, <1>3, <1>5, ConcatProperties DEF n
  <1>8. TypeOK'
    <2>1. sent' \in Seq(Packet) /\ Len(sent') = Len(sent) + 1
      BY <1>1, AppendProperties DEF FramingInv, TypeOK
    <2>2. Len(sent') <= MaxPackets
      BY <1>1, <1>2, <2>1, BoundsAssumption
    <2>3. Len(stream') <= Len(F1)
      BY <1>2, <1>3, <1>5, <1>6, <1>7
    <2>4. clear' \in 0..Len(F1)
      <3>1. clear \in 0..Len(F)
        BY DEF FramingInv, TypeOK, F
      <3>2. clear' = clear \/ clear' = clear + Len(p)
        BY <1>1
      <3>3. Len(F1) = Len(F) + Len(p) /\ Len(F) \in Nat /\ Len(p) \in Nat
        BY <1>2, <1>3, <1>6
      <3> HIDE DEF F, F1
      <3>4. QED
        BY <3>1, <3>2, <3>3
    <2>5. QED
      BY <1>1, <2>1, <2>2, <2>3, <2>4 DEF FramingInv, TypeOK, F1
  <1>9. Len(F1) - Len(stream') = Len(F) - n
    BY <1>2, <1>3, <1>5, <1>6, <1>7
  <1>10. UnderWay'
    <2>1. ASSUME NEW i \in 1..Len(stream')
          PROVE  stream'[i] = F1[Len(F) - n + i]
      <3> DEFINE k == Len(F) - n + i
      <3>1. /\ i \in 1..(n + Len(p)) /\ k \in 1..(Len(F) + Len(p))
            /\ (i <= n <=> k <= Len(F)) /\ i - n = k - Len(F)
            /\ (i <= n => i \in 1..n)
        <4>1. n \in Nat /\ n <= Len(F) /\ Len(F) \in Nat /\ Len(p) \in Nat
          BY <1>2, <1>3, <1>5
        <4>2. i \in 1..(n + Len(p))
          BY <1>7
        <4> HIDE DEF F, n
        <4> DEFINE l == Len(F)
                   o == Len(p)
        <4>3. /\ n \in Nat /\ l \in Nat /\ o \in Nat /\ n <= l
              /\ i \in 1..(n + o) /\ k = l - n + i
          BY <4>1, <4>2
        <4> HIDE DEF k, l, o
        <4>4. i \in Int /\ 1 <= i /\ i <= n + o /\ k \in Int
          BY <4>3
        <4>5. 1 <= k /\ k <= l + o /\ (i <= n <=> k <= l) /\ i - n = k - l
          BY <4>3, <4>4
        <4>6. QED
          BY <4>3, <4>4, <4>5 DEF l, o
      <3>2. i <= n => stream[i] = F[k]
        BY <1>5, <3>1
      <3> HIDE DEF k
      <3>3. F1[k] = IF k <= Len(F) THEN F[k] ELSE p[k - Len(F)]
        BY <1>6, <3>1
      <3>4. stream'[i] = F1[k]
        BY <1>7, <3>1, <3>2, <3>3
      <3>5. QED
        BY <3>4 DEF k
    <2>2. Len(stream') <= Len(F1)
      BY <1>2, <1>3, <1>5, <1>6, <1>7
    <2>3. QED
      BY <1>1, <1>7, <1>9, <2>1, <2>2 DEF UnderWay, Arrived, FramingInv, F1
  <1>11. \A k \in 1..Len(sent) : sent'[k] = sent[k] /\ Len(Bytes(sent', k)) = Begin(k)
    <2>1. ASSUME NEW k \in 1..Len(sent) PROVE sent'[k] = sent[k]
      BY <1>1, <1>2, AppendProperties
    <2>2. \A k \in 1..Len(sent) : k \in 0..Len(sent)
      BY <1>2
    <2>3. QED
      BY <1>4, <2>1, <2>2 DEF Begin
  <1>12. ClearIs'
    <2> DEFINE n1 == Len(sent) + 1
    <2>1. /\ n1 \in 1..Len(sent') /\ sent'[n1] = p /\ Len(sent') = n1
          /\ \A k \in 1..Len(sent') : k = n1 \/ k \in 1..Len(sent)
      <3>1. Len(sent') = n1 /\ sent'[n1] = p
        BY <1>1, <1>2, AppendProperties
      <3>2. QED
        BY <1>2, <3>1
    <2>2. Len(Bytes(sent', n1)) = Len(F1)
      <3>1. sent' \in Seq(Seq(Nat))
        BY <1>1, <1>2, <1>3, AppendProperties
      <3>2. Bytes(sent', Len(sent')) = FlattenSeq(sent')
        BY <3>1, Boundaries
      <3>3. QED
        BY <2>1, <3>2 DEF F1
    <2> HIDE DEF n1
    <2>3. Answered => Answered' /\ clear' = clear
      BY <1>1, <1>11, <2>1 DEF Answered
    <2>4. ~Answered => clear' = Len(F1)
      BY <1>1, <1>6 DEF FramingInv, ClearIs, F
    <2>5. ASSUME NEW k \in 1..Len(sent'), sent'[k] = Response
          PROVE  clear' = Len(Bytes(sent', k))
      <3>1. CASE k = n1
        <4>1. p = Response
          BY <2>1, <2>5, <3>1
        <4>2. QED
          BY <1>1, <2>2, <2>4, <3>1, <4>1
      <3>2. CASE k \in 1..Len(sent)
        <4>1. sent[k] = Response
          BY <1>11, <2>5, <3>2
        <4>2. Answered
          BY <3>2, <4>1 DEF Answered
        <4>3. clear = Begin(k)
          BY <3>2, <4>1 DEF FramingInv, ClearIs
        <4>4. QED
          BY <1>11, <2>3, <3>2, <4>2, <4>3
      <3>3. QED
        BY <2>1, <3>1, <3>2
    <2>6. ~Answered' => clear' = Len(F1)
      BY <2>3, <2>4
    <2>7. QED
      BY <2>5, <2>6 DEF ClearIs, Begin, F1
  <1>13. ASSUME ~cut PROVE Aligned'
    <2> DEFINE got == Len(delivered)
    <2>1. Aligned
      BY <1>13 DEF FramingInv
    <2>2. /\ got \in 0..Len(sent) /\ delivered = SubSeq(sent, 1, got) /\ open
          /\ got \in Nat /\ offset <= Len(buffer) /\ pc # "hung"
      BY <1>2, <2>1 DEF Aligned
    <2>3. /\ encrypted => \E k \in 1..got : sent'[k] = Response
          /\ \A k \in 1..got : sent'[k] = Response => encrypted
      <3>1. \A k \in 1..got : k \in 1..Len(sent)
        BY <1>2, <2>2
      <3>2. /\ encrypted => \E k \in 1..got : sent[k] = Response
            /\ \A k \in 1..got : sent[k] = Response => encrypted
        BY <2>1 DEF Aligned
      <3> HIDE DEF got
      <3>3. QED
        BY <1>11, <3>1, <3>2
    <2>4. got <= Len(sent') /\ Len(sent') = Len(sent) + 1
      BY <1>1, <1>2, <1>3, <2>2, AppendProperties
    <2>5. delivered = SubSeq(sent', 1, got) /\ Len(Bytes(sent', got)) = Begin(got)
      BY <1>4, <2>2 DEF Begin
    <2>6. pc = "idle" => Begin(got) = Len(F1) - Len(stream')
      BY <1>9, <2>1 DEF Aligned, Arrived, F, n
    <2>7. ASSUME pc = "packets"
          PROVE  /\ Begin(got) + (Len(buffer) - offset) = Len(F1) - Len(stream')
                 /\ \A i \in 1..(Len(buffer) - offset) : buffer[offset + i] = F1[Begin(got) + i]
                 /\ \E k \in got..Len(sent') : Len(F1) - Len(stream') = Len(Bytes(sent', k))
      <3>1. /\ offset <= Len(buffer) /\ Begin(got) + (Len(buffer) - offset) = Len(F) - n
            /\ \A i \in 1..(Len(buffer) - offset) : buffer[offset + i] = F[Begin(got) + i]
            /\ \E k \in got..Len(sent) : Len(F) - n = Begin(k)
        BY <2>1, <2>7 DEF Aligned, Arrived, F, n
      <3>2. ASSUME NEW i \in 1..(Len(buffer) - offset) PROVE F1[Begin(got) + i] = F[Begin(got) + i]
        <4> DEFINE k == Begin(got) + i
        <4>1. Begin(got) \in Nat /\ Len(buffer) \in Nat /\ offset \in Nat
          BY <1>2, <2>2 DEF FramingInv, TypeOK, UnderWay
        <4>2. Begin(got) + (Len(buffer) - offset) = Len(F) - n
          BY <3>1
        <4>3. k \in 1..(Len(F) + Len(p)) /\ k <= Len(F)
          <5>1. /\ Len(F) \in Nat /\ Len(p) \in Nat /\ n \in Nat
                /\ Begin(got) \in Nat /\ Len(buffer) \in Nat /\ offset \in Nat
            BY <1>2, <1>3, <1>5, <4>1
          <5> HIDE DEF got
          <5>2. QED
            BY <4>2, <5>1
        <4> HIDE DEF k
        <4>4. F1[k] = F[k]
          BY <1>6, <4>3
        <4>5. QED
          BY <4>4 DEF k
      <3>3. PICK k \in got..Len(sent) : Len(F) - n = Begin(k)
        BY <3>1
      <3>4. k \in got..Len(sent') /\ Len(Bytes(sent', k)) = Begin(k)
        BY <1>2, <1>4, <2>2, <2>4, <3>3 DEF Begin
      <3>5. QED
        BY <1>9, <3>1, <3>2, <3>3, <3>4
    <2>8. QED
      BY <1>1, <2>2, <2>3, <2>4, <2>5, <2>6, <2>7 DEF Aligned, Arrived, Begin, F1
  <1>14. QED
    BY <1>1, <1>8, <1>10, <1>12, <1>13 DEF FramingInv

(* recv returns some bytes.                                                *)
LEMMA RecvKeeps ==
  ASSUME FramingInv, NEW n \in 1..BufLen, NEW noise \in Noise, Recv(n, noise)
  PROVE  FramingInv'
  <1> DEFINE F == FlattenSeq(sent)
             l == Len(stream)
             a == Len(F) - l
  <1>1. /\ pc = "idle" /\ open /\ n <= l
        /\ buffer' = [i \in 1..n |-> IF Legible(i) THEN stream[i] ELSE noise[i]]
        /\ stream' = SubSeq(stream, n + 1, l)
        /\ pc' = "packets" /\ offset' = 0 /\ decrypted' = encrypted
        /\ cut' = (cut \/ ~Whole(n))
        /\ UNCHANGED <<sent, clear, encrypted, delivered, open>>
    BY DEF Recv
  <1>2. /\ sent \in Seq(Seq(Nat)) /\ Len(sent) \in Nat
        /\ \A i \in 1..Len(sent) : Len(sent[i]) > 0
        /\ F \in Seq(Nat) /\ Len(F) \in Nat
        /\ \A k \in 0..Len(sent) : Begin(k) \in Nat
    BY SentBytes DEF FramingInv
  <1>3. stream \in Seq(Nat) /\ l \in Nat /\ l <= Len(F) /\ n \in Nat
        /\ \A i \in 1..l : stream[i] = F[a + i]
    <2>1. /\ stream \in Seq(Nat) /\ l <= Len(F)
          /\ \A i \in 1..l : stream[i] = F[a + i]
      BY DEF FramingInv, UnderWay, Arrived
    <2>2. \A q \in Seq(Nat) : Len(q) \in Nat
      OBVIOUS
    <2>3. n \in Nat
      BY BoundsAssumption
    <2>4. QED
      BY <2>1, <2>2, <2>3
  <1>4. Arrived = a
    BY DEF Arrived
  <1> HIDE DEF F, l
  <1>5. /\ buffer' \in Seq(Nat) /\ Len(buffer') = n
        /\ \A i \in 1..n : Legible(i) => buffer'[i] = stream[i]
    <2> HIDE DEF a
    <2>1. ASSUME NEW i \in 1..n PROVE stream[i] \in Nat /\ noise[i] \in Nat
      <3>1. i \in 1..Len(stream) /\ i \in 1..MemLen
        BY <1>1, <1>3, BoundsAssumption DEF l, MemLen
      <3>2. noise[i] \in Nat
        BY <3>1, NoiseBytes
      <3>3. stream[i] \in Nat
        BY <1>3, <3>1, ElementOfSeq
      <3>4. QED
        BY <3>2, <3>3
    <2>2. buffer' \in [1..n -> Nat]
      BY <1>1, <2>1
    <2>3. buffer' \in Seq(Nat)
      BY <1>3, <2>2, SeqDef
    <2>4. Len(buffer') = n
      BY <1>3, <2>2, <2>3, LenProperties
    <2>5. \A i \in 1..n : Legible(i) => buffer'[i] = stream[i]
      BY <1>1
    <2>6. QED
      BY <2>3, <2>4, <2>5
  <1>6. /\ stream' \in Seq(Nat) /\ Len(stream') = l - n
        /\ \A i \in 1..(l - n) : stream'[i] = stream[n + i]
    <2> DEFINE m == n + 1
    <2>1. /\ m \in Nat \ {0} /\ l <= Len(stream) /\ m <= l + 1
          /\ l - m + 1 = l - n /\ \A i \in 1..(l - n) : m + i - 1 = n + i
      BY <1>1, <1>3 DEF l
    <2>2. stream' = SubSeq(stream, m, l)
      BY <1>1
    <2> HIDE DEF m
    <2>3. /\ SubSeq(stream, m, l) \in Seq(Nat) /\ Len(SubSeq(stream, m, l)) = l - m + 1
          /\ \A i \in 1..(l - m + 1) : SubSeq(stream, m, l)[i] = stream[m + i - 1]
      <3>1. stream \in Seq(Nat) /\ l \in Nat
        BY <1>3
      <3>2. QED
        BY <2>1, <3>1, PartIs
    <2>4. QED
      BY <2>1, <2>2, <2>3
  <1>7. Len(F) - Len(stream') = a + n
    BY <1>2, <1>3, <1>6
  <1>8. TypeOK'
    <2>1. cut' \in BOOLEAN
      BY <1>1, Zenon
    <2>2. Len(stream') <= Len(F) /\ Len(buffer') <= BufLen
      BY <1>1, <1>2, <1>3, <1>5, <1>6, BoundsAssumption
    <2>3. Len(stream') <= Len(FlattenSeq(sent'))
      BY <1>1, <2>2 DEF F
    <2>4. /\ pc' = "packets" /\ offset' = 0 /\ decrypted' = encrypted
          /\ UNCHANGED <<sent, clear, encrypted, open>>
      BY <1>1
    <2>5. QED
      BY <2>1, <2>2, <2>3, <2>4 DEF FramingInv, TypeOK
  <1>9. UnderWay'
    <2>1. ASSUME NEW i \in 1..Len(stream') PROVE stream'[i] = F[a + n + i]
      <3> DEFINE k == n + i
      <3>1. i \in 1..(l - n) /\ k \in 1..l /\ a + k = a + n + i
        BY <1>1, <1>2, <1>3, <1>6
      <3>2. stream'[i] = stream[k]
        BY <1>6, <3>1
      <3> HIDE DEF k, a
      <3>3. QED
        BY <1>3, <3>1, <3>2
    <2>2. Len(stream') <= Len(F)
      BY <1>1, <1>2, <1>3, <1>6
    <2>3. QED
      BY <1>1, <1>5, <1>6, <1>7, <2>1, <2>2 DEF UnderWay, Arrived, F
  <1>10. ClearIs'
    BY <1>1 DEF FramingInv, ClearIs, Answered, Begin
  <1>11. ASSUME ~cut' PROVE Aligned'
    <2> DEFINE got == Len(delivered)
    <2>1. ~cut /\ AtBoundary(a + n) /\ (a + n <= clear \/ a = clear)
      <3>1. ~cut /\ Whole(n)
        BY <1>1, <1>11
      <3>2. QED
        BY <1>4, <3>1 DEF Whole
    <2>2. /\ got \in 0..Len(sent) /\ delivered = SubSeq(sent, 1, got) /\ open
          /\ Begin(got) = a
          /\ encrypted => \E k \in 1..got : sent[k] = Response
          /\ \A k \in 1..got : sent[k] = Response => encrypted
      BY <1>1, <2>1 DEF FramingInv, Aligned, Arrived, F, l
    <2>3. ASSUME NEW i \in 1..n PROVE Legible(i)
      <3> HIDE DEF got
      <3>1. a \in Nat /\ clear \in Nat /\ clear <= Len(F) /\ i <= n /\ i \in Nat
        BY <1>2, <1>3 DEF FramingInv, TypeOK, F
      <3>2. ASSUME a = clear PROVE encrypted
        <4>1. a # Len(F)
          BY <1>1, <1>2, <1>3
        <4>2. Answered
          BY <3>2, <4>1 DEF FramingInv, ClearIs, F
        <4>3. PICK k \in 1..Len(sent) : sent[k] = Response
          BY <4>2 DEF Answered
        <4>4. clear = Begin(k)
          BY <4>3 DEF FramingInv, ClearIs
        <4>5. k \in 0..Len(sent)
          BY <1>2
        <4>6. ~(k > got)
          <5>1. k > got => got < k /\ got <= k
            BY <1>2, <2>2
          <5>2. k > got => Begin(got) < Begin(k)
            BY <1>2, <2>2, <4>5, <5>1, Nested DEF Begin
          <5> HIDE DEF a
          <5>3. QED
            BY <2>2, <3>1, <3>2, <4>4, <5>2
        <4>7. k \in 1..got
          BY <1>2, <2>2, <4>6
        <4>8. QED
          BY <2>2, <4>3, <4>7
      <3>3. ASSUME encrypted PROVE clear <= a
        <4>1. PICK k \in 1..got : sent[k] = Response
          BY <2>2, <3>3
        <4>2. k \in 1..Len(sent) /\ k \in 0..Len(sent) /\ k <= got
          BY <1>2, <2>2
        <4>3. clear = Begin(k)
          BY <4>1, <4>2 DEF FramingInv, ClearIs
        <4>4. Begin(k) <= Begin(got)
          BY <1>2, <2>2, <4>2, Nested DEF Begin
        <4>5. QED
          BY <2>2, <4>3, <4>4
      <3> HIDE DEF a
      <3>4. CASE a = clear
        BY <1>4, <3>2, <3>4 DEF Legible
      <3>5. CASE a # clear
        <4>1. a + n <= clear
          BY <2>1, <3>5
        <4>2. ~(clear <= a) /\ a + i <= clear
          BY <1>3, <3>1, <4>1
        <4>3. QED
          BY <1>4, <3>3, <4>2 DEF Legible
      <3>6. QED
        BY <3>4, <3>5
    <2> HIDE DEF got
    <2>4. PICK k \in 0..Len(sent) : a + n = Begin(k)
      BY <2>1 DEF AtBoundary, Begin, Bytes
    <2>5. k \in got..Len(sent)
      <3>1. CASE k < got
        <4>1. k <= got
          BY <1>2, <2>2, <3>1
        <4>2. Begin(k) <= Begin(got)
          BY <1>2, <2>2, <4>1, Nested DEF Begin
        <4>3. a \in Nat /\ a + n > a
          BY <1>2, <1>3
        <4> HIDE DEF a
        <4>4. FALSE
          BY <1>3, <2>2, <2>4, <4>2, <4>3
        <4>5. QED
          BY <4>4
      <3>2. QED
        BY <1>2, <2>2, <3>1
    <2>6. ASSUME NEW i \in 1..(Len(buffer') - offset')
          PROVE  buffer'[offset' + i] = F[Begin(got) + i]
      <3>1. i \in 1..n /\ i \in 1..l /\ offset' + i = i
        BY <1>1, <1>3, <1>5
      <3>2. buffer'[i] = stream[i]
        BY <1>5, <2>3, <3>1
      <3>3. QED
        BY <1>3, <2>2, <3>1, <3>2
    <2>7. offset' <= Len(buffer') /\ Begin(got) + (Len(buffer') - offset') = a + n
      BY <1>1, <1>2, <1>3, <1>5, <2>2
    <2>8. Begin(got)' = Begin(got) /\ Begin(k)' = Begin(k) /\ Arrived' = a + n
      BY <1>1, <1>7 DEF Begin, got, Arrived, F
    <2>9. \E j \in got..Len(sent) : Arrived' = Begin(j)'
      BY <2>4, <2>5, <2>8
    <2>10. QED
      BY <1>1, <2>2, <2>6, <2>7, <2>8, <2>9 DEF Aligned, got, F
  <1>12. QED
    BY <1>8, <1>9, <1>10, <1>11 DEF FramingInv

(* Whatever a size is misread from, it is an integer.                      *)
LEMMA SizesAreInts ==
  ASSUME FramingInv, MoreToRead, NEW b \in Noise
  PROVE  PayloadSize(b) \in Int
  <1> DEFINE mem == [i \in 1..Segments |-> Memory(b, offset + i)]
  <1>1. /\ buffer \in Seq(Nat) /\ Len(buffer) \in Nat /\ offset \in Nat
        /\ Len(buffer) <= BufLen /\ offset < Len(buffer)
    BY DEF FramingInv, TypeOK, UnderWay, MoreToRead
  <1>2. ASSUME NEW i \in 1..Segments PROVE Memory(b, offset + i) \in Nat
    <2>1. offset + i \in Nat \ {0}
      BY <1>1, BoundsAssumption
    <2>2. CASE offset + i <= Len(buffer)
      <3>1. offset + i \in 1..Len(buffer)
        BY <1>1, <2>1, <2>2
      <3>2. buffer[offset + i] \in Nat
        BY <1>1, <3>1, ElementOfSeq
      <3>3. QED
        BY <2>2, <3>2 DEF Memory
    <2>3. CASE ~(offset + i <= Len(buffer))
      <3>1. offset + i \in 1..MemLen
        BY <1>1, <2>1, BoundsAssumption DEF MemLen
      <3>2. b[offset + i] \in Nat
        BY <3>1, NoiseBytes
      <3>3. QED
        BY <2>3, <3>2 DEF Memory
    <2>4. QED
      BY <2>2, <2>3
  <1>3. mem \in [1..Segments -> Nat]
    BY <1>2
  <1> HIDE DEF mem
  <1>4. ReadVarInt(mem) \in Int
    BY <1>3, ReadsInt
  <1>5. QED
    BY <1>4 DEF PayloadSize, mem

(* What is left in the buffer begins with the next packet, complete.       *)
LEMMA NextPacket ==
  ASSUME FramingInv, ~cut, MoreToRead
  PROVE  LET p == sent[Len(delivered) + 1]
         IN /\ Len(delivered) + 1 \in 1..Len(sent)
            /\ Begin(Len(delivered) + 1) = Begin(Len(delivered)) + Len(p)
            /\ Len(p) <= Len(buffer) - offset
            /\ \A b : /\ PayloadSize(b) >= 0 /\ FinalPayloadSize(b) = Len(p)
                     /\ Payload(b) = p
  <1> DEFINE F == FlattenSeq(sent)
             got == Len(delivered)
             m == got + 1
             p == sent[m]
             left == Len(buffer) - offset
  <1>1. /\ sent \in Seq(Seq(Nat)) /\ Len(sent) \in Nat
        /\ \A i \in 1..Len(sent) : /\ sent[i] \in Packet /\ sent[i] \in Seq(Nat)
                                   /\ Len(sent[i]) \in Nat /\ Len(sent[i]) > 0
        /\ \A i \in 1..Len(sent) : Len(sent[i]) > 0
        /\ F \in Seq(Nat) /\ Len(F) \in Nat
        /\ \A k \in 0..Len(sent) : Bytes(sent, k) \in Seq(Nat) /\ Begin(k) \in Nat
    BY SentBytes DEF FramingInv
  <1>2. /\ got \in 0..Len(sent) /\ offset < Len(buffer)
        /\ Begin(got) + left = Arrived
        /\ \A i \in 1..left : buffer[offset + i] = F[Begin(got) + i]
        /\ \E k \in got..Len(sent) : Arrived = Begin(k)
    BY DEF FramingInv, Aligned, MoreToRead
  <1>3. /\ Len(buffer) \in Nat /\ offset \in Nat /\ left \in Nat /\ left > 0
        /\ Len(stream) \in Nat /\ Len(stream) <= Len(F)
    BY <1>2 DEF FramingInv, TypeOK, UnderWay
  <1> HIDE DEF F, got, left
  <1>4. PICK k \in got..Len(sent) : Arrived = Begin(k)
    BY <1>2
  <1>5. k \in 0..Len(sent) /\ Begin(k) = Begin(got) + left
    BY <1>1, <1>2, <1>4
  <1>6. k # got
    <2>1. Begin(got) \in Nat
      BY <1>1, <1>2
    <2>2. QED
      BY <1>3, <1>5, <2>1
  <1>7. m \in 1..Len(sent) /\ m \in 0..Len(sent) /\ m <= k /\ m - 1 = got
    BY <1>1, <1>2, <1>4, <1>6
  <1> HIDE DEF m
  <1>8. p \in Packet /\ p \in Seq(Nat) /\ Len(p) \in Nat /\ Len(p) > 0
    BY <1>1, <1>7
  <1>9. Bytes(sent, m) = Bytes(sent, got) \o p
    BY <1>1, <1>7, Boundaries
  <1> DEFINE B == Bytes(sent, m)
             b0 == Begin(got)
  <1>10. /\ Bytes(sent, got) \in Seq(Nat) /\ b0 \in Nat /\ b0 = Len(Bytes(sent, got))
         /\ B \in Seq(Nat)
    BY <1>1, <1>2, <1>7 DEF Begin
  <1> HIDE DEF p, B, b0
  <1>11. /\ Len(B) = b0 + Len(p)
         /\ \A i \in 1..(b0 + Len(p)) :
              B[i] = IF i <= b0 THEN Bytes(sent, got)[i] ELSE p[i - b0]
    BY <1>8, <1>9, <1>10, ConcatProperties DEF B
  <1>12. Len(B) <= Begin(k)
    BY <1>1, <1>5, <1>7, Nested DEF Begin, B
  <1>13. Len(p) <= left
    BY <1>3, <1>5, <1>8, <1>10, <1>11, <1>12 DEF b0
  <1>14. \A i \in 1..Len(B) : F[i] = B[i]
    <2>1. F = Bytes(sent, Len(sent))
      BY <1>1, Boundaries DEF F
    <2>2. Len(sent) \in 0..Len(sent) /\ m <= Len(sent)
      BY <1>1, <1>7
    <2>3. QED
      BY <1>1, <1>7, <2>1, <2>2, Nested DEF B
  <1>15. ASSUME NEW i \in 1..Len(p) PROVE buffer[offset + i] = p[i]
    <2> DEFINE j == b0 + i
    <2>1. j \in 1..(b0 + Len(p)) /\ ~(j <= b0) /\ j - b0 = i /\ i \in 1..left
      BY <1>3, <1>8, <1>10, <1>13, SMTT(30)
    <2>2. buffer[offset + i] = F[j]
      BY <1>2, <2>1 DEF b0
    <2> HIDE DEF j
    <2>3. F[j] = B[j]
      BY <1>11, <1>14, <2>1
    <2>4. B[j] = p[i]
      BY <1>11, <2>1
    <2>5. QED
      BY <2>2, <2>3, <2>4
  <1>16. ASSUME NEW b, NEW i \in 1..Len(p) PROVE Memory(b, offset + i) = p[i]
    <2>1. offset + i <= Len(buffer)
      BY <1>3, <1>8, <1>13 DEF left
    <2>2. QED
      BY <1>15, <2>1 DEF Memory
  <1>17. ASSUME NEW b PROVE PayloadSize(b) >= 0 /\ FinalPayloadSize(b) = Len(p)
    <2> DEFINE mem == [i \in 1..Segments |-> Memory(b, offset + i)]
    <2>1. ASSUME NEW i \in 1..Segments, i <= Len(p) PROVE mem[i] = p[i]
      <3>1. i \in 1..Len(p)
        BY <1>8, <2>1, BoundsAssumption
      <3>2. QED
        BY <1>16, <3>1
    <2> HIDE DEF mem
    <2>2. ReadVarInt(mem) >= 0 /\ ReadVarInt(mem) + SizeLength(ReadVarInt(mem)) = Len(p)
      BY <1>8, <2>1, SizeOfPacket
    <2>3. QED
      BY <2>2 DEF FinalPayloadSize, PayloadSize, mem
  <1>18. ASSUME NEW b PROVE Payload(b) = p
    <2>1. ASSUME NEW i \in 1..Len(p) PROVE Payload(b)[i] = p[i]
      BY <1>16, <1>17 DEF Payload
    <2>2. Payload(b) = [i \in 1..Len(p) |-> Payload(b)[i]]
      BY <1>17 DEF Payload
    <2>3. p = [i \in 1..Len(p) |-> p[i]]
      BY <1>8
    <2>4. QED
      BY <2>1, <2>2, <2>3
  <1>19. QED
    BY <1>7, <1>10, <1>11, <1>13, <1>17, <1>18 DEF Begin, B, b0, m, p, got, left

(* A packet is given to the player: the next, if nothing was cut.          *)
LEMMA GivenInOrder ==
  ASSUME FramingInv, ~cut, NEW b \in Noise, ProcessPacket(b)
  PROVE  LET p == sent[Len(delivered) + 1]
         IN /\ delivered' = Append(delivered, p)
            /\ delivered' = SubSeq(sent, 1, Len(delivered) + 1)
            /\ Len(delivered') = Len(delivered) + 1
            /\ offset' = offset + Len(p) /\ open' = TRUE /\ pc' = "packets"
            /\ encrypted' = (encrypted \/ p = Response)
  <1> DEFINE got == Len(delivered)
             m == got + 1
             p == sent[m]
  <1>1. MoreToRead /\ Process(b) /\ Enable(b)
    BY DEF ProcessPacket, Process
  <1>2. /\ m \in 1..Len(sent) /\ FinalPayloadSize(b) = Len(p) /\ Payload(b) = p
    BY <1>1, NextPacket
  <1>3. /\ sent \in Seq(Packet) /\ sent \in Seq(Seq(Nat)) /\ Len(sent) \in Nat
        /\ p \in Packet
    BY <1>2, SentBytes DEF FramingInv, TypeOK
  <1>4. got \in 0..Len(sent) /\ delivered = SubSeq(sent, 1, got)
    BY DEF FramingInv, Aligned
  <1>5. /\ delivered' = Append(delivered, p) /\ offset' = offset + Len(p)
        /\ open' = TRUE /\ pc' = "packets"
        /\ encrypted' = (encrypted \/ p = Response)
    <2>1. delivered' = Append(delivered, Payload(b)) /\ open' \in Accepts(Payload(b))
      BY <1>1 DEF Process
    <2>2. delivered' = Append(delivered, p) /\ open' = TRUE
      BY <1>2, <1>3, <2>1 DEF Accepts
    <2>3. offset' = offset + Len(p) /\ pc' = "packets"
      BY <1>1, <1>2, <2>2 DEF Process
    <2>4. encrypted' = (encrypted \/ p = Response)
      BY <1>1, <1>2 DEF Enable
    <2>5. QED
      BY <2>2, <2>3, <2>4
  <1> HIDE DEF got
  <1>6. delivered \in Seq(Packet)
    <2>1. /\ 1 \in Nat \ {0} /\ got \in Nat /\ got <= Len(sent) /\ 1 <= got + 1
      BY <1>3, <1>4
    <2>2. QED
      BY <1>3, <1>4, <2>1, PartIs
  <1>7. Append(delivered, p) = SubSeq(sent, 1, m)
    <2>1. SubSeq(sent, 1, m) = SubSeq(sent, 1, m - 1) \o <<sent[m]>>
      <3>1. 1 \in 1..Len(sent) /\ m \in 1..Len(sent)
        BY <1>2, <1>3
      <3> HIDE DEF m
      <3>2. QED
        BY <1>3, <3>1, SubSeqRecursiveSecond
    <2>2. m - 1 = got
      BY <1>3, <1>4
    <2>3. Append(delivered, p) = delivered \o <<p>>
      BY <1>3, <1>6, AppendIsConcat
    <2>4. QED
      BY <1>4, <2>1, <2>2, <2>3
  <1>8. Len(Append(delivered, p)) = got + 1
    BY <1>3, <1>6, AppendProperties DEF got
  <1>9. QED
    BY <1>5, <1>7, <1>8 DEF got

(* What is left in the buffer stays aligned.                               *)
LEMMA ProcessKeeps ==
  ASSUME FramingInv, NEW b \in Noise, ProcessPacket(b)
  PROVE  FramingInv'
  <1> DEFINE F == FlattenSeq(sent)
             got == Len(delivered)
             m == got + 1
             p == sent[m]
             s == FinalPayloadSize(b)
  <1>1. /\ pc = "packets" /\ offset < Len(buffer) /\ s <= Len(buffer)
        /\ offset' = offset + s /\ PayloadSize(b) >= 0
        /\ UNCHANGED <<sent, clear, stream, buffer, decrypted, cut>>
    BY DEF ProcessPacket, Process, Fits, MoreToRead
  <1>2. /\ buffer \in Seq(Nat) /\ Len(buffer) \in Nat /\ offset \in Nat
        /\ Len(buffer) <= BufLen
    BY DEF FramingInv, TypeOK, UnderWay
  <1>3. s \in Nat
    <2>1. PayloadSize(b) \in Int
      BY SizesAreInts DEF ProcessPacket, Process
    <2>2. SizeLength(PayloadSize(b)) \in Nat
      BY SizesCount
    <2>3. QED
      BY <1>1, <2>1, <2>2 DEF FinalPayloadSize
  <1>4. TypeOK'
    <2>1. open' \in BOOLEAN /\ pc' \in {"idle", "packets"}
      BY DEF ProcessPacket, Process, Accepts
    <2>2. encrypted' \in BOOLEAN
      BY Zenon DEF ProcessPacket, Enable
    <2> HIDE DEF s
    <2>3. offset' \in Nat /\ offset' < 2 * Len(buffer)
      BY <1>1, <1>2, <1>3
    <2>4. QED
      BY <1>1, <2>1, <2>2, <2>3 DEF FramingInv, TypeOK
  <1>5. UnderWay' /\ ClearIs'
    BY <1>1 DEF FramingInv, UnderWay, Arrived, ClearIs, Answered, Begin
  <1>6. ASSUME ~cut PROVE Aligned'
    <2>1. /\ m \in 1..Len(sent) /\ Begin(m) = Begin(got) + Len(p)
          /\ Len(p) <= Len(buffer) - offset
      BY <1>6, NextPacket DEF ProcessPacket, Process
    <2>2. /\ delivered' = SubSeq(sent, 1, m) /\ Len(delivered') = m
          /\ offset' = offset + Len(p) /\ open' = TRUE /\ pc' = "packets"
      BY <1>6, GivenInOrder
    <2>3. encrypted' = (encrypted \/ p = Response)
      BY <1>6, GivenInOrder
    <2>4. /\ got \in 0..Len(sent) /\ Begin(got) + (Len(buffer) - offset) = Arrived
          /\ \A i \in 1..(Len(buffer) - offset) : buffer[offset + i] = F[Begin(got) + i]
          /\ \E k \in got..Len(sent) : Arrived = Begin(k)
      BY <1>1, <1>6 DEF FramingInv, Aligned
    <2>5. /\ encrypted => \E k \in 1..got : sent[k] = Response
          /\ \A k \in 1..got : sent[k] = Response => encrypted
      BY <1>1, <1>6 DEF FramingInv, Aligned
    <2>6. /\ Len(sent) \in Nat /\ p \in Packet /\ Len(p) \in Nat /\ Len(p) > 0
          /\ Begin(got) \in Nat
      BY <2>1, <2>4, SentBytes DEF FramingInv
    <2> HIDE DEF F, got, p, s
    <2>7. PICK k \in got..Len(sent) : Arrived = Begin(k)
      BY <2>4
    <2>8. k # got
      BY <1>1, <1>2, <2>1, <2>4, <2>6, <2>7
    <2>9. k \in m..Len(sent)
      BY <2>4, <2>6, <2>7, <2>8
    <2>10. offset' <= Len(buffer) /\ Begin(m) + (Len(buffer) - offset') = Arrived
      BY <1>2, <2>1, <2>2, <2>4, <2>6
    <2>11. ASSUME NEW i \in 1..(Len(buffer) - offset')
          PROVE  buffer[offset' + i] = F[Begin(m) + i]
      <3> DEFINE j == Len(p) + i
      <3>1. /\ j \in 1..(Len(buffer) - offset) /\ offset + j = offset' + i
            /\ Begin(got) + j = Begin(m) + i
        BY <1>2, <2>1, <2>2, <2>6, SMTT(30)
      <3> HIDE DEF j
      <3>2. buffer[offset + j] = F[Begin(got) + j]
        BY <2>4, <3>1
      <3>3. QED
        BY <3>1, <3>2
    <2>12. m \in 0..Len(sent)
      BY <2>1, <2>6
    <2>13. /\ encrypted' => \E k1 \in 1..m : sent[k1] = Response
          /\ \A k1 \in 1..m : sent[k1] = Response => encrypted'
      <3>1. /\ m \in 1..m /\ \A k1 \in 1..got : k1 \in 1..m
            /\ \A k1 \in 1..m : k1 = m \/ k1 \in 1..got
        BY <2>4, <2>6
      <3>2. p = sent[m]
        BY DEF p
      <3> HIDE DEF m
      <3>3. ASSUME encrypted' PROVE \E k1 \in 1..m : sent[k1] = Response
        BY <2>3, <2>5, <3>1, <3>2, <3>3
      <3>4. ASSUME NEW k1 \in 1..m, sent[k1] = Response PROVE encrypted'
        BY <2>3, <2>5, <3>1, <3>2, <3>4
      <3>5. QED
        BY <3>3, <3>4
    <2>14. /\ Len(Bytes(sent', m)) = Begin(m) /\ Len(Bytes(sent', k)) = Begin(k)
           /\ Arrived' = Arrived
      BY <1>1 DEF Begin, Arrived
    <2>15. QED
      <3> DEFINE g == Len(delivered')
      <3>1. /\ open' /\ g \in 0..Len(sent') /\ delivered' = SubSeq(sent', 1, g)
            /\ pc' = "packets" /\ offset' <= Len(buffer')
            /\ Len(Bytes(sent', g)) + (Len(buffer') - offset') = Arrived'
            /\ \A i \in 1..(Len(buffer') - offset') :
                 buffer'[offset' + i] = FlattenSeq(sent')[Len(Bytes(sent', g)) + i]
        BY <1>1, <2>2, <2>10, <2>11, <2>12, <2>14 DEF F, Begin
      <3>2. /\ encrypted' => \E j \in 1..g : sent'[j] = Response
            /\ \A j \in 1..g : sent'[j] = Response => encrypted'
        BY <1>1, <2>2, <2>13
      <3>3. \E j \in g..Len(sent') : Arrived' = Len(Bytes(sent', j))
        BY <1>1, <2>2, <2>7, <2>9, <2>14 DEF Begin
      <3>4. QED
        BY <3>1, <3>2, <3>3 DEF Aligned, Begin
  <1>7. QED
    BY <1>1, <1>4, <1>5, <1>6 DEF FramingInv

(* The loop ends: nothing is left, or something was cut.                   *)
LEMMA EndKeeps ==
  ASSUME FramingInv, BufferRead \/ \E b \in Noise : Break(b) \/ Hang(b)
  PROVE  FramingInv'
  <1>1. /\ pc = "packets" /\ pc' \in {"idle", "hung"}
        /\ UNCHANGED <<sent, clear, stream, buffer, decrypted, offset, encrypted>>
        /\ UNCHANGED <<delivered, open, cut>>
    BY DEF BufferRead, Break, Hang, MoreToRead, EndBuffer, recvVars
  <1>2. TypeOK' /\ UnderWay' /\ ClearIs'
    BY <1>1 DEF FramingInv, TypeOK, UnderWay, Arrived, ClearIs, Answered, Begin
  <1>3. ASSUME ~cut PROVE offset >= Len(buffer) /\ pc' = "idle"
    <2>1. CASE BufferRead
      BY <2>1 DEF BufferRead, EndBuffer
    <2>2. ASSUME NEW b \in Noise, Break(b) \/ Hang(b) PROVE FALSE
      <3> DEFINE p == sent[Len(delivered) + 1]
      <3>1. /\ Len(p) <= Len(buffer) - offset
            /\ Len(delivered) + 1 \in 1..Len(sent) /\ ~(Len(p) <= Len(buffer))
        <4>1. MoreToRead
          BY <2>2 DEF Break, Hang
        <4>2. /\ Len(p) <= Len(buffer) - offset /\ Len(delivered) + 1 \in 1..Len(sent)
              /\ PayloadSize(b) >= 0 /\ FinalPayloadSize(b) = Len(p)
          BY <1>3, <4>1, NextPacket
        <4>3. PayloadSize(b) < 0 \/ ~Fits(b)
          BY <2>2 DEF Break, Hang
        <4>4. PayloadSize(b) \in Int
          BY <4>1, SizesAreInts
        <4>5. QED
          BY <4>2, <4>3, <4>4 DEF Fits
      <3>2. Len(p) \in Nat /\ offset \in Nat /\ Len(buffer) \in Nat
        BY <3>1, SentBytes DEF FramingInv, TypeOK, UnderWay
      <3> HIDE DEF p
      <3>3. QED
        BY <3>1, <3>2
    <2>3. QED
      BY <2>1, <2>2
  <1>4. ASSUME ~cut PROVE Aligned'
    <2> DEFINE got == Len(delivered)
    <2>1. /\ open /\ got \in 0..Len(sent) /\ delivered = SubSeq(sent, 1, got)
          /\ offset <= Len(buffer) /\ Begin(got) + (Len(buffer) - offset) = Arrived
          /\ encrypted => \E k \in 1..got : sent[k] = Response
          /\ \A k \in 1..got : sent[k] = Response => encrypted
      BY <1>1, <1>4 DEF FramingInv, Aligned
    <2>2. Begin(got) \in Nat /\ offset \in Nat /\ Len(buffer) \in Nat
      BY <2>1, SentBytes DEF FramingInv, TypeOK, UnderWay
    <2>3. Begin(got) = Arrived
      BY <1>3, <1>4, <2>1, <2>2
    <2>4. QED
      BY <1>1, <1>3, <1>4, <2>1, <2>3 DEF Aligned, Begin, Arrived
  <1>5. QED
    BY <1>1, <1>2, <1>4 DEF FramingInv

(* Every step keeps what was sent together.                                *)
LEMMA FramingInductive ==
  ASSUME FramingInv, [Next]_vars
  PROVE  FramingInv'
  <1>1. CASE UNCHANGED vars
    BY <1>1
    DEF vars, recvVars, FramingInv, TypeOK, UnderWay, ClearIs, Answered, Aligned, Arrived, Begin
  <1>2. CASE Next
    BY <1>2, ClientSendKeeps, RecvKeeps, ProcessKeeps, EndKeeps DEF Next, RecvPackets
  <1>3. QED
    BY <1>1, <1>2

(* The invariant holds from the start on.                                  *)
LEMMA FramingInvHolds == Spec => []FramingInv
  <1>1. Init => FramingInv
    <2> SUFFICES ASSUME Init PROVE FramingInv
      OBVIOUS
    <2>1. /\ <<>> \in Seq(Packet) /\ <<>> \in Seq(Nat) /\ Len(<<>>) = 0
          /\ SubSeq(<<>>, 1, 0) = <<>>
      BY SubSeqEmpty
    <2>2. FlattenSeq(<<>>) = <<>> /\ Bytes(<<>>, 0) = <<>>
      BY <2>1 DEF FlattenSeq, Bytes
    <2>3. TypeOK
      <3>1. Len(sent) <= MaxPackets /\ Len(stream) <= Len(FlattenSeq(sent)) /\ Len(buffer) <= BufLen
        BY <2>1, <2>2, BoundsAssumption DEF Init
      <3>2. /\ decrypted \in BOOLEAN /\ encrypted \in BOOLEAN
            /\ open \in BOOLEAN /\ cut \in BOOLEAN
        BY DEF Init
      <3>3. /\ sent = <<>> /\ pc = "idle" /\ offset = 0 /\ clear = 0
        BY DEF Init
      <3>4. QED
        BY <2>1, <2>2, <3>1, <3>2, <3>3 DEF TypeOK
    <2>4. UnderWay /\ ClearIs
      BY <2>1, <2>2 DEF Init, UnderWay, ClearIs
    <2>5. Aligned
      BY <2>1, <2>2 DEF Init, Aligned, Begin, Arrived
    <2>6. QED
      BY <2>3, <2>4, <2>5 DEF FramingInv
  <1>2. FramingInv /\ [Next]_vars => FramingInv'
    BY FramingInductive
  <1>3. QED
    BY <1>1, <1>2, PTL DEF Spec

(***************************************************************************)
(* The theorems.                                                           *)
(***************************************************************************)

(* Every variable keeps its type: the check against the whole buffer keeps *)
(* RecvPackets within twice its length, whatever bytes it misreads.        *)
THEOREM FramingTypeCorrect == Spec => []TypeOK
  BY FramingInvHolds, PTL DEF FramingInv

(* Until a recv ends within a packet, or begins within what is encrypted,  *)
(* nothing of what the client has sent is lost or misread.                 *)
THEOREM NothingIsLost == Spec => []NothingLostUntilCut
  <1>1. FramingInv => NothingLostUntilCut
    <2> SUFFICES ASSUME FramingInv, ~cut PROVE NothingLostUntilCut
      BY DEF NothingLostUntilCut
    <2> DEFINE F == FlattenSeq(sent)
               got == Len(delivered)
               l == Len(stream)
               left == IF pc = "packets" THEN SubSeq(buffer, offset + 1, Len(buffer)) ELSE <<>>
               D == FlattenSeq(delivered)
    <2>1. /\ sent \in Seq(Seq(Nat)) /\ Len(sent) \in Nat
          /\ \A i \in 1..Len(sent) : Len(sent[i]) > 0
          /\ F \in Seq(Nat) /\ Len(F) \in Nat
          /\ \A k \in 0..Len(sent) : Bytes(sent, k) \in Seq(Nat) /\ Begin(k) \in Nat
      BY SentBytes DEF FramingInv
    <2>2. /\ stream \in Seq(Nat) /\ l \in Nat /\ l <= Len(F)
          /\ \A i \in 1..l : stream[i] = F[Len(F) - l + i]
          /\ buffer \in Seq(Nat) /\ Len(buffer) \in Nat
      <3>1. /\ stream \in Seq(Nat) /\ l <= Len(F) /\ buffer \in Seq(Nat)
            /\ \A i \in 1..l : stream[i] = F[Len(F) - l + i]
        BY DEF FramingInv, UnderWay, Arrived
      <3>2. \A q \in Seq(Nat) : Len(q) \in Nat
        OBVIOUS
      <3>3. QED
        BY <3>1, <3>2
    <2>3. /\ got \in 0..Len(sent) /\ D = Bytes(sent, got) /\ Len(D) = Begin(got)
          /\ D \in Seq(Nat) /\ Len(D) \in Nat
      BY <2>1 DEF FramingInv, Aligned, Bytes, Begin
    <2> HIDE DEF F, l, D, got
    <2>4. \A i \in 1..Len(D) : F[i] = D[i]
      <3>1. F = Bytes(sent, Len(sent))
        BY <2>1, Boundaries DEF F
      <3>2. Len(sent) \in 0..Len(sent) /\ got <= Len(sent)
        BY <2>1, <2>3
      <3>3. QED
        BY <2>1, <2>3, <3>1, <3>2, Nested
    <2>5. /\ offset <= Len(buffer) /\ left \in Seq(Nat) /\ Len(left) \in Nat
          /\ Len(D) + Len(left) = Len(F) - l
          /\ \A i \in 1..Len(left) : left[i] = F[Len(D) + i]
      <3>1. CASE pc = "packets"
        <4>1. /\ offset <= Len(buffer) /\ offset \in Nat
              /\ Begin(got) + (Len(buffer) - offset) = Len(F) - l
              /\ \A i \in 1..(Len(buffer) - offset) : buffer[offset + i] = F[Begin(got) + i]
          BY <3>1 DEF FramingInv, TypeOK, Aligned, Arrived, F, l, got
        <4> DEFINE m == offset + 1
        <4>2. /\ m \in Nat \ {0} /\ Len(buffer) <= Len(buffer) /\ m <= Len(buffer) + 1
              /\ Len(buffer) - m + 1 = Len(buffer) - offset
              /\ \A i \in 1..(Len(buffer) - offset) : m + i - 1 = offset + i
          BY <2>2, <4>1
        <4>3. left = SubSeq(buffer, m, Len(buffer))
          BY <3>1
        <4> HIDE DEF m, left
        <4>4. /\ SubSeq(buffer, m, Len(buffer)) \in Seq(Nat)
              /\ Len(SubSeq(buffer, m, Len(buffer))) = Len(buffer) - m + 1
              /\ \A i \in 1..(Len(buffer) - m + 1) :
                   SubSeq(buffer, m, Len(buffer))[i] = buffer[m + i - 1]
          <5>1. buffer \in Seq(Nat) /\ Len(buffer) \in Nat
            BY <2>2
          <5>2. m \in Nat \ {0} /\ Len(buffer) <= Len(buffer) /\ m <= Len(buffer) + 1
            BY <4>2
          <5>3. QED
            BY <5>1, <5>2, PartIs
        <4>5. /\ left \in Seq(Nat) /\ Len(left) = Len(buffer) - offset
              /\ \A i \in 1..(Len(buffer) - offset) : left[i] = buffer[offset + i]
          BY <4>2, <4>3, <4>4
        <4>6. QED
          BY <2>2, <2>3, <4>1, <4>5
      <3>2. CASE pc # "packets"
        <4>1. pc = "idle" /\ left = <<>>
          BY <3>2 DEF FramingInv, TypeOK, Aligned
        <4>2. Begin(got) = Len(F) - l /\ offset <= Len(buffer)
          BY <4>1 DEF FramingInv, Aligned, Arrived, F, l, got
        <4>3. left \in Seq(Nat) /\ Len(left) = 0
          BY <4>1
        <4>4. QED
          BY <2>3, <4>2, <4>3
      <3>3. QED
        BY <3>1, <3>2
    <2> HIDE DEF left
    <2>6. D \o left \o stream = F
      <3> DEFINE a == D \o left
                 b == a \o stream
                 n == Len(D) + Len(left)
      <3>1. /\ a \in Seq(Nat) /\ Len(a) = n
            /\ \A i \in 1..n : a[i] = IF i <= Len(D) THEN D[i] ELSE left[i - Len(D)]
        BY <2>3, <2>5, ConcatProperties
      <3> HIDE DEF a
      <3>2. ASSUME NEW i \in 1..n PROVE a[i] = F[i]
        <4>1. CASE i <= Len(D)
          BY <2>3, <2>4, <3>1, <4>1
        <4>2. CASE ~(i <= Len(D))
          <5> DEFINE j == i - Len(D)
          <5>1. j \in 1..Len(left) /\ Len(D) + j = i
            BY <2>3, <2>5, <4>2
          <5>2. a[i] = left[j]
            BY <3>1, <4>2
          <5> HIDE DEF j
          <5>3. left[j] = F[Len(D) + j]
            BY <2>5, <5>1
          <5>4. QED
            BY <5>1, <5>2, <5>3
        <4>3. QED
          BY <4>1, <4>2
      <3>3. n \in Nat /\ n = Len(F) - l
        BY <2>3, <2>5
      <3> HIDE DEF n
      <3>4. /\ b \in Seq(Nat) /\ Len(b) = n + l
            /\ \A i \in 1..(n + l) : b[i] = IF i <= n THEN a[i] ELSE stream[i - n]
        BY <2>2, <3>1, ConcatProperties, ZenonT(40) DEF l
      <3> HIDE DEF b
      <3>5. ASSUME NEW i \in 1..(n + l) PROVE b[i] = F[i]
        <4>1. CASE i <= n
          BY <3>2, <3>3, <3>4, <4>1
        <4>2. CASE ~(i <= n)
          <5> DEFINE j == i - n
          <5>1. j \in 1..l /\ Len(F) - l + j = i
            BY <2>1, <2>2, <3>3, <4>2
          <5>2. b[i] = stream[j]
            BY <3>4, <4>2
          <5> HIDE DEF j
          <5>3. stream[j] = F[Len(F) - l + j]
            BY <2>2, <5>1
          <5>4. QED
            BY <5>1, <5>2, <5>3
        <4>3. QED
          BY <4>1, <4>2
      <3>6. Len(b) = Len(F)
        BY <2>1, <2>2, <3>3, <3>4
      <3>7. b = F
        <4>1. \A i \in 1..Len(b) : b[i] = F[i]
          BY <3>4, <3>5
        <4>2. QED
          BY <2>1, <3>4, <3>6, <4>1, SeqEqual
      <3>8. QED
        BY <3>7 DEF b, a
    <2>7. QED
      <3>1. pc # "hung"
        BY DEF FramingInv, Aligned
      <3>2. QED
        BY <2>5, <2>6, <3>1 DEF NothingLostUntilCut, F, D, left
  <1>2. QED
    BY <1>1, FramingInvHolds, PTL

(* A step of RecvPackets is a step of the channel: processing a packet is  *)
(* receiving the next, and everything else is none, or cuts it.            *)
LEMMA StepOfChannel ==
  ASSUME FramingInv, FramingInv', [Next]_vars
  PROVE  [Channel!Next]_(Channel!vars)
  <1> DEFINE got == Len(delivered)
             n == Len(sent)
             pend == [t \in {"client"} |-> SubSeq(sent, got + 1, n)]
             pend1 == [t \in {"client"} |-> SubSeq(sent', Len(delivered') + 1, Len(sent'))]
  <1>1. CASE cut'
    <2>1. (~cut)' = FALSE
      BY <1>1
    <2>2. Channel!Cut
      BY <2>1 DEF Channel!Cut
    <2>3. QED
      BY <2>2 DEF Channel!Next
  <1>2. CASE ~cut'
    <2>1. ~cut /\ cut' = cut
      <3>1. cut \in BOOLEAN /\ cut' \in BOOLEAN
        BY DEF FramingInv, TypeOK
      <3>2. cut => cut'
        BY DEF Next, RecvPackets, ClientSend, Recv, ProcessPacket, Process, BufferRead, Break,
               Hang, EndBuffer, vars
      <3>3. QED
        BY <1>2, <3>1, <3>2
    <2>2. /\ sent \in Seq(Packet) /\ n \in Nat /\ got \in 0..n
          /\ (~cut) = TRUE /\ (~cut)' = TRUE
      BY <1>2, <2>1 DEF FramingInv, TypeOK, Aligned
    <2>3. CASE UNCHANGED <<sent, delivered>>
      <3>1. UNCHANGED Channel!vars
        BY <2>1, <2>3 DEF Channel!vars
      <3>2. QED
        BY <3>1
    <2>4. ASSUME NEW p \in Packet, ClientSend(p) PROVE Channel!Next
      <3>1. sent' = Append(sent, p) /\ delivered' = delivered
        BY <2>4 DEF ClientSend
      <3>2. SubSeq(sent', got + 1, Len(sent')) = Append(SubSeq(sent, got + 1, n), p)
        <4> DEFINE m == got + 1
        <4>1. /\ sent' = sent \o <<p>> /\ sent' \in Seq(Packet) /\ <<p>> \in Seq(Packet)
              /\ Len(sent') = n + 1 /\ sent'[n + 1] = p
          BY <2>2, <3>1, AppendIsConcat, AppendProperties
        <4>2. m \in 1..Len(sent') /\ n + 1 \in m..Len(sent') /\ (n + 1) - 1 = n
          BY <2>2, <4>1
        <4>3. m \in Nat \ {0} /\ n <= Len(sent) /\ m <= n + 1
          BY <2>2
        <4> HIDE DEF n
        <4> DEFINE e == n + 1
        <4> HIDE DEF m, e
        <4>4. SubSeq(sent', m, e) = SubSeq(sent', m, e - 1) \o <<sent'[e]>>
          BY <4>1, <4>2, SubSeqRecursiveSecond DEF e
        <4>5. SubSeq(sent', m, n) = SubSeq(sent, m, n)
          BY <2>2, <4>1, <4>3, PartOfPrefix
        <4>6. SubSeq(sent, m, n) \in Seq(Packet)
          BY <2>2, <4>3, PartIs
        <4>7. Append(SubSeq(sent, m, n), p) = SubSeq(sent, m, n) \o <<p>>
          BY <4>6, AppendIsConcat
        <4>8. QED
          BY <4>1, <4>2, <4>4, <4>5, <4>7 DEF e, m, n
      <3>3. pend1 = [pend EXCEPT !["client"] = Append(@, p)]
        BY <3>1, <3>2
      <3>4. Channel!Put("client", p)
        BY <2>2, <3>1, <3>3 DEF Channel!Put
      <3>5. QED
        BY <3>4 DEF Channel!Next
    <2>5. ASSUME NEW b \in Noise, ProcessPacket(b) PROVE Channel!Next
      <3>1. /\ got + 1 \in 1..n /\ delivered' = Append(delivered, sent[got + 1])
            /\ Len(delivered') = got + 1 /\ sent' = sent
        BY <2>1, <2>5, GivenInOrder, NextPacket DEF ProcessPacket, Process
      <3>2. /\ SubSeq(sent, got + 1, n) # <<>>
            /\ Head(SubSeq(sent, got + 1, n)) = sent[got + 1]
            /\ Tail(SubSeq(sent, got + 1, n)) = SubSeq(sent, (got + 1) + 1, n)
        <4> DEFINE m == got + 1
        <4>1. m \in 1..Len(sent) /\ n \in m..Len(sent)
          BY <2>2, <3>1
        <4>2. m \in Nat \ {0} /\ n <= Len(sent) /\ m <= n + 1 /\ n - m + 1 # 0
          BY <2>2, <3>1
        <4> HIDE DEF m, n
        <4>3. /\ Head(SubSeq(sent, m, n)) = sent[m]
              /\ Tail(SubSeq(sent, m, n)) = SubSeq(sent, m + 1, n)
          BY <2>2, <4>1, HeadTailOfSubSeq
        <4>4. Len(SubSeq(sent, m, n)) = n - m + 1
          BY <2>2, <4>2, PartIs
        <4>5. SubSeq(sent, m, n) # <<>>
          <5>1. Len(<<>>) = 0
            OBVIOUS
          <5>2. QED
            BY <4>2, <4>4, <5>1
        <4>6. QED
          BY <4>3, <4>5 DEF m
      <3>3. pend1 = [pend EXCEPT !["client"] = Tail(@)]
        BY <3>1, <3>2
      <3>4. Channel!Get("client")
        BY <2>2, <3>1, <3>2, <3>3 DEF Channel!Get
      <3>5. QED
        BY <3>4 DEF Channel!Next
    <2>6. QED
      BY <2>3, <2>4, <2>5
      DEF Next, RecvPackets, Recv, BufferRead, Break, Hang, EndBuffer, vars
  <1>3. QED
    BY <1>1, <1>2

(* Until then, with encryption and without it, RecvPackets is a channel of *)
(* whole packets: it gives the player those that were sent, each once and in     *)
(* their order, however many of them a recv returns.                       *)
THEOREM FramingIsChannel == Spec => Channel!Spec
  <1>1. Init => Channel!Init
    <2> SUFFICES ASSUME Init PROVE Channel!Init
      OBVIOUS
    <2>1. sent = <<>> /\ delivered = <<>> /\ (~cut) = TRUE /\ Len(<<>>) = 0
      BY DEF Init
    <2>2. SubSeq(<<>>, 1, 0) = <<>>
      BY SubSeqEmpty
    <2>3. QED
      BY <2>1, <2>2 DEF Channel!Init
  <1>2. FramingInv /\ FramingInv' /\ [Next]_vars => [Channel!Next]_(Channel!vars)
    BY StepOfChannel
  <1>3. QED
    BY <1>1, <1>2, FramingInvHolds, PTL DEF Spec, Channel!Spec
=============================================================================
