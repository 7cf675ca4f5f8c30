-------------------------- MODULE PacketCodecProofs --------------------------
(***************************************************************************)
(* PacketCodec, proved for integers of any width and segments of any size, *)
(* whatever the limits of the strings.                                     *)
(***************************************************************************)
EXTENDS PacketCodec, DataProofs

(***************************************************************************)
(* VarInts.                                                                *)
(***************************************************************************)

(* Segs(v) segments hold v; these are the bytes of the VarInt.             *)
HasSegments(v, k) == v < Power(Base, k) /\ (k > 1 => v >= Power(Base, k - 1))
Segs(v) == CHOOSE k \in 1..Segments : HasSegments(v, k)
Segment(v, i) == v \div Power(Base, i - 1)
VarIntBytes(v) ==
    [i \in 1..Segs(v) |->
        IF i < Segs(v) THEN (Segment(v, i) % Base) + Base ELSE Segment(v, i)]

LEMMA BaseIs ==
  /\ Base \in Nat \ {0} /\ Base \in Nat \ {0, 1}
  /\ \A n \in Nat : Power(Base, n) \in Nat \ {0} /\ Power(Base, n + 1) = Base * Power(Base, n)
  <1>1. Base \in Nat \ {0} /\ Base \in Nat \ {0, 1}
    BY WidthAssumption
  <1>2. QED
    BY <1>1, PowerIs

(* An int has room for sizes, and no more values than so many segments.    *)
LEMMA WordIs ==
  /\ Word \in Nat /\ Word <= Power(Base, Segments)
  /\ Word \div 2 \in Nat /\ 2 * (Word \div 2) <= Word /\ 16 < Word \div 2
  /\ 4 * Segments + 2 * MaxLen + 16 < Word \div 2
  <1> DEFINE m == Segments - 1
             p == Power(Base, m)
  <1>1. m \in Nat /\ m + 1 = Segments
    BY WidthAssumption
  <1>2. p \in Nat /\ Power(Base, Segments) = Base * p
    BY <1>1, BaseIs
  <1>3. Word = p * Top /\ Top \in Nat /\ Top <= Base /\ Base \in Nat
    BY WidthAssumption DEF Word
  <1> HIDE DEF p, m
  <1>4. Word \in Nat /\ Word <= Base * p
    <2>1. p * Top <= p * Base /\ p * Base = Base * p /\ p * Top \in Nat
      BY <1>2, <1>3
    <2>2. QED
      BY <1>3, <2>1
  <1>5. Word \div 2 \in Nat /\ 2 * (Word \div 2) <= Word
    BY <1>4
  <1>6. 4 * Segments + 2 * MaxLen + 16 < Word \div 2
    BY LengthAssumption
  <1>7. 16 < Word \div 2
    <2>1. 4 * Segments + 2 * MaxLen \in Nat
      BY WidthAssumption, LengthAssumption
    <2>2. QED
      BY <1>5, <1>6, <2>1
  <1>8. QED
    BY <1>2, <1>4, <1>5, <1>6, <1>7

(* What fits an int has some number of segments.                           *)
LEMMA SegsIs ==
  ASSUME NEW v \in Nat, v < Word
  PROVE  Segs(v) \in 1..Segments /\ HasSegments(v, Segs(v))
  <1> DEFINE S == {k \in Nat : k > 0 /\ v < Power(Base, k)}
  <1>1. Segments \in S /\ Segments \in Nat
    <2>1. Power(Base, Segments) \in Nat
      BY BaseIs, WidthAssumption
    <2>2. v < Power(Base, Segments)
      BY WordIs, <2>1
    <2>3. QED
      BY <2>2, WidthAssumption
  <1>2. PICK k \in S : \A j \in S : ~(j < k)
    <2>1. S \in SUBSET Nat /\ S # {}
      BY <1>1
    <2> HIDE DEF S
    <2>2. QED
      BY <2>1, LeastNatural
  <1>3. k \in 1..Segments
    BY <1>1, <1>2
  <1>4. k > 1 => v >= Power(Base, k - 1)
    <2> SUFFICES ASSUME k > 1 PROVE v >= Power(Base, k - 1)
      OBVIOUS
    <2> DEFINE j == k - 1
    <2>1. j \in Nat /\ j < k /\ j > 0
      BY <1>2
    <2> HIDE DEF j
    <2>2. Power(Base, j) \in Nat
      BY <2>1, BaseIs
    <2>3. ~(v < Power(Base, j))
      BY <1>2, <2>1
    <2>4. v >= Power(Base, j)
      BY <2>2, <2>3
    <2>5. QED
      BY <2>4 DEF j
  <1>5. \E l \in 1..Segments : HasSegments(v, l)
    BY <1>2, <1>3, <1>4 DEF HasSegments
  <1>6. QED
    BY <1>5, Zenon DEF Segs

(* A round of a VarInt loop, of the j segments before which r is left: it  *)
(* is the last exactly if one segment holds r.                             *)
Round(v, j) ==
    LET r == v \div Power(Base, j) IN
    /\ r \in Nat /\ r <= v /\ (r < Base <=> j + 1 = Segs(v))
    /\ r \div Base = v \div Power(Base, j + 1)
    /\ r \div Base \in Nat /\ r % Base \in 0..(Base - 1)
    /\ v % Power(Base, j) \in Nat
    /\ (v % Power(Base, j)) + (r % Base) * Power(Base, j) = v % Power(Base, j + 1)
    /\ v % Power(Base, j + 1) \in Nat /\ v % Power(Base, j + 1) <= v
    /\ j + 1 = Segs(v) => v % Power(Base, j + 1) = v

LEMMA RoundIs ==
  ASSUME NEW v \in Nat, v < Word, NEW j \in Nat, j < Segs(v)
  PROVE  Round(v, j)
  <1> DEFINE p == Power(Base, j)
             b == Base
             q == b * p
             r == v \div p
             k == Segs(v)
  <1>1. p \in Nat \ {0} /\ Power(Base, j + 1) = q /\ b \in Nat \ {0}
    BY BaseIs
  <1>2. k \in Nat /\ j < k /\ HasSegments(v, k)
    BY SegsIs, WidthAssumption
  <1>3. r < b <=> j + 1 = k
    <2>1. CASE j + 1 = k
      <3>1. v < q
        BY <1>1, <1>2, <2>1 DEF HasSegments
      <3> HIDE DEF p, b, k
      <3>2. DividesTwice(v, p, b)
        BY <1>1, DivisionTwice
      <3>3. QED
        BY <2>1, <3>1, <3>2 DEF DividesTwice
    <2>2. CASE j + 1 # k
      <3> DEFINE i == j + 1
                 l == k - 1
      <3>1. i \in Nat /\ l \in Nat /\ i <= l /\ k > 1
        BY <1>2, <2>2
      <3>2. v >= Power(Base, l) /\ q = Power(Base, i)
        BY <1>1, <1>2, <3>1 DEF HasSegments
      <3> HIDE DEF i, l
      <3>3. Power(Base, i) <= Power(Base, l) /\ Power(Base, i) \in Nat /\ Power(Base, l) \in Nat
        <4>1. Power(Base, i) \in Nat /\ Power(Base, l) \in Nat
          BY <3>1, BaseIs
        <4>2. CASE i = l
          BY <4>1, <4>2
        <4>3. CASE i < l
          <5>1. Power(Base, i) < Power(Base, l)
            BY <3>1, <4>3, PowersGrow, BaseIs
          <5>2. QED
            BY <4>1, <5>1
        <4>4. QED
          BY <3>1, <4>1, <4>2, <4>3
      <3>4. ~(v < q)
        BY <3>2, <3>3
      <3> HIDE DEF p, b, k
      <3>5. DividesTwice(v, p, b)
        BY <1>1, DivisionTwice
      <3>6. QED
        BY <2>2, <3>4, <3>5 DEF DividesTwice
    <2>3. QED
      BY <2>1, <2>2
  <1> HIDE DEF p, b, k
  <1>4. DividesTwice(v, p, b)
    BY <1>1, DivisionTwice
  <1>5. r \in Nat /\ v % p \in 0..(p - 1) /\ v = p * r + (v % p)
    BY <1>1, Division
  <1>6. r <= v
    <2>1. p * r >= r /\ p * r \in Nat
      BY <1>1, <1>5
    <2> HIDE DEF r
    <2>2. QED
      BY <1>1, <1>5, <2>1
  <1>7. q \in Nat \ {0} /\ r \div b = v \div q /\ (v % p) + (r % b) * p = v % q
    BY <1>4 DEF DividesTwice
  <1>8. r \div b \in Nat /\ r % b \in 0..(b - 1)
    <2> HIDE DEF r
    <2>1. QED
      BY <1>1, <1>5, Division
  <1>9. v % q \in Nat /\ v % q <= v /\ (v < q => v % q = v)
    <2> HIDE DEF q
    <2>1. v \div q \in Nat /\ v % q \in 0..(q - 1) /\ v = q * (v \div q) + (v % q)
      BY <1>7, Division
    <2>2. q * (v \div q) \in Nat
      BY <1>7, <2>1
    <2>3. v % q \in Nat /\ v % q <= v
      BY <1>7, <2>1, <2>2
    <2>4. ASSUME v < q PROVE v % q = v
      <3>1. v = q * 0 + v /\ v \in 0..(q - 1)
        BY <1>7, <2>4
      <3>2. QED
        BY <1>7, <3>1, DivisionUnique
    <2>5. QED
      BY <2>3, <2>4
  <1>10. j + 1 = k => v < q
    BY <1>1, <1>2 DEF HasSegments
  <1>11. v % p \in Nat
    BY <1>1, <1>5
  <1>12. /\ r \in Nat /\ r <= v /\ (r < b <=> j + 1 = k)
         /\ r \div b = v \div q
         /\ r \div b \in Nat /\ r % b \in 0..(b - 1)
         /\ v % p \in Nat
         /\ (v % p) + (r % b) * p = v % q
         /\ v % q \in Nat /\ v % q <= v
         /\ j + 1 = k => v % q = v
    BY <1>3, <1>5, <1>6, <1>7, <1>8, <1>9, <1>10, <1>11
  <1> HIDE DEF q
  <1>13. QED
    BY <1>1, <1>12 DEF p, b, k, r, Round

(* The bytes of a VarInt, segment by segment.                              *)
LEMMA VarIntBytesAre ==
  ASSUME NEW v \in Nat, v < Word
  PROVE  /\ VarIntBytes(v) \in Seq(0..(2 * Base - 1)) /\ Len(VarIntBytes(v)) = Segs(v)
         /\ \A j \in Nat : j < Segs(v) =>
              LET r == v \div Power(Base, j) IN
              VarIntBytes(v)[j + 1] = IF r < Base THEN r ELSE (r % Base) + Base
  <1> DEFINE k == Segs(v)
             b == VarIntBytes(v)
  <1>1. k \in Nat
    BY SegsIs, WidthAssumption
  <1>2. b = [i \in 1..k |-> IF i < k THEN (Segment(v, i) % Base) + Base ELSE Segment(v, i)]
    BY DEF VarIntBytes
  <1> HIDE DEF k, b
  <1>3. ASSUME NEW j \in Nat, j < k
        PROVE  LET r == v \div Power(Base, j) IN
               /\ b[j + 1] = IF r < Base THEN r ELSE (r % Base) + Base
               /\ b[j + 1] \in 0..(2 * Base - 1)
    <2> DEFINE r == v \div Power(Base, j)
    <2>1. j + 1 \in 1..k /\ (j + 1) - 1 = j /\ (j + 1 < k <=> j + 1 # k)
      BY <1>1, <1>3
    <2>2. Segment(v, j + 1) = r
      BY <2>1 DEF Segment
    <2>3. r \in Nat /\ (r < Base <=> j + 1 = k) /\ r % Base \in 0..(Base - 1)
      BY <1>3, RoundIs DEF Round, k
    <2> HIDE DEF r
    <2>4. b[j + 1] = IF r < Base THEN r ELSE (r % Base) + Base
      BY <1>2, <2>1, <2>2, <2>3
    <2>5. Base \in Nat
      BY BaseIs
    <2>6. b[j + 1] \in 0..(2 * Base - 1)
      BY <2>3, <2>4, <2>5
    <2>7. QED
      BY <2>4, <2>6 DEF r
  <1>4. \A i \in 1..k : b[i] \in 0..(2 * Base - 1)
    <2> SUFFICES ASSUME NEW i \in 1..k PROVE b[i] \in 0..(2 * Base - 1)
      OBVIOUS
    <2>1. i - 1 \in Nat /\ i - 1 < k /\ (i - 1) + 1 = i
      BY <1>1
    <2>2. QED
      BY <1>3, <2>1
  <1>5. b \in Seq(0..(2 * Base - 1)) /\ Len(b) = k
    <2>1. b \in [1..k -> 0..(2 * Base - 1)]
      BY <1>2, <1>4
    <2>2. b \in Seq(0..(2 * Base - 1))
      BY <1>1, <2>1, SeqDef
    <2>3. QED
      BY <1>1, <2>1, <2>2, LenProperties
  <1>6. QED
    BY <1>3, <1>5 DEF b, k

(***************************************************************************)
(* Packets.                                                                *)
(***************************************************************************)

Visited == [kind : {"varint", "body", "fixed", "uuid", "end"}, n : Int, max : Nat]

(* What Serialize relies on: a string's length is visited before its body, *)
(* and both with the string's limit; nothing but a string is too long.     *)
IsLength(f, g) == f.kind = "varint" /\ g.kind = "body" /\ f.n = g.n /\ f.max = g.max

Regular(s) ==
    /\ s \in Seq(Visited)
    /\ \A i \in 1..Len(s) :
         /\ s[i].kind # "end" /\ s[i].n \in Int32
         /\ s[i].kind # "varint" => s[i].n \in Nat
         /\ s[i].kind \in {"fixed", "uuid"} => s[i].n <= s[i].max
         /\ s[i].kind = "body" => i > 1 /\ IsLength(s[i - 1], s[i])
         /\ s[i].kind = "varint" /\ s[i].n > s[i].max =>
              i < Len(s) /\ IsLength(s[i], s[i + 1])

(* Such sequences can be put one behind the other.                         *)
LEMMA RegularJoined ==
  ASSUME NEW s, NEW t, Regular(s), Regular(t)
  PROVE  Regular(s \o t)
  <1> DEFINE u == s \o t
             m == Len(s)
             n == Len(t)
  <1>1. s \in Seq(Visited) /\ t \in Seq(Visited)
    BY DEF Regular
  <1>2. /\ m \in Nat /\ n \in Nat /\ u \in Seq(Visited) /\ Len(u) = m + n
        /\ \A i \in 1..(m + n) : u[i] = IF i <= m THEN s[i] ELSE t[i - m]
    BY <1>1, ConcatProperties
  <1> HIDE DEF u, m, n
  <1>3. ASSUME NEW i \in 1..Len(u)
        PROVE  /\ u[i].kind # "end" /\ u[i].n \in Int32
               /\ u[i].kind # "varint" => u[i].n \in Nat
               /\ u[i].kind \in {"fixed", "uuid"} => u[i].n <= u[i].max
               /\ u[i].kind = "body" => i > 1 /\ IsLength(u[i - 1], u[i])
               /\ u[i].kind = "varint" /\ u[i].n > u[i].max =>
                    i < Len(u) /\ IsLength(u[i], u[i + 1])
    <2>1. CASE i <= m
      <3>1. u[i] = s[i] /\ i \in 1..m
        BY <1>2, <2>1
      <3>2. i > 1 => u[i - 1] = s[i - 1]
        BY <1>2, <2>1
      <3>3. i < m => u[i + 1] = s[i + 1] /\ i < Len(u)
        BY <1>2, <2>1
      <3>4. QED
        BY <3>1, <3>2, <3>3 DEF Regular, m
    <2>2. CASE i > m
      <3> DEFINE j == i - m
      <3>1. u[i] = t[j] /\ j \in 1..n /\ (j > 1 => i > 1) /\ (j < n => i < Len(u))
        BY <1>2, <2>2
      <3>2. j > 1 => u[i - 1] = t[j - 1]
        <4>1. j > 1 => i - 1 \in 1..(m + n) /\ ~(i - 1 <= m) /\ (i - 1) - m = j - 1
          BY <1>2, <2>2
        <4>2. QED
          BY <1>2, <4>1
      <3>3. j < n => u[i + 1] = t[j + 1]
        <4>1. j < n => i + 1 \in 1..(m + n) /\ ~(i + 1 <= m) /\ (i + 1) - m = j + 1
          BY <1>2, <2>2
        <4>2. QED
          BY <1>2, <4>1
      <3> HIDE DEF j
      <3>4. QED
        BY <3>1, <3>2, <3>3 DEF Regular, n
    <2>3. QED
      BY <1>2, <2>1, <2>2
  <1>4. Regular(u)
    BY <1>2, <1>3 DEF Regular
  <1>5. QED
    BY <1>4 DEF u

LEMMA StringRegular ==
  ASSUME NEW n \in 0..MaxLen, NEW max \in Nat
  PROVE  Regular(String(n, max)) /\ Len(String(n, max)) = 2
  <1> DEFINE f == Visit("varint", n, max)
             g == Visit("body", n, max)
  <1>1. n \in Nat /\ n \in Int32
    <2> DEFINE w == Word \div 2
    <2>1. n <= 2 * MaxLen /\ 4 * Segments \in Nat /\ n \in Nat
      BY LengthAssumption, WidthAssumption
    <2>2. w \in Nat /\ 4 * Segments + 2 * MaxLen + 16 < w
      BY WordIs
    <2> HIDE DEF w
    <2>3. n \in -w .. w - 1
      BY <2>1, <2>2, LengthAssumption
    <2>4. QED
      BY <2>1, <2>3 DEF Int32, w
  <1>2. f \in Visited /\ g \in Visited
    BY <1>1 DEF Visit, Visited
  <1>3. IsLength(f, g) /\ f.kind = "varint" /\ g.kind = "body" /\ f.n = n /\ g.n = n
    BY DEF IsLength, Visit
  <1> HIDE DEF f, g
  <1>4. Regular(<<f, g>>)
    <2> DEFINE s == <<f, g>>
    <2>1. s \in Seq(Visited) /\ Len(s) = 2 /\ s[1] = f /\ s[2] = g
      BY <1>2
    <2> HIDE DEF s
    <2>2. \A i \in 1..Len(s) : i = 1 \/ i = 2
      BY <2>1
    <2>3. 2 - 1 = 1 /\ 1 + 1 = 2
      OBVIOUS
    <2>4. Regular(s)
      BY <1>1, <1>3, <2>1, <2>2, <2>3 DEF Regular
    <2>5. QED
      BY <2>4 DEF s
  <1>5. String(n, max) = <<f, g>>
    BY DEF String, f, g
  <1>6. QED
    BY <1>4, <1>5

LEMMA OneRegular ==
  ASSUME NEW f \in Visited, f.kind \in {"varint", "fixed", "uuid"},
         f.n \in Int32, f.n <= f.max, f.kind # "varint" => f.n \in Nat
  PROVE  Regular(<<f>>)
  <1> DEFINE s == <<f>>
  <1>1. s \in Seq(Visited) /\ Len(s) = 1 /\ s[1] = f
    OBVIOUS
  <1> HIDE DEF s
  <1>2. \A i \in 1..Len(s) : i = 1
    BY <1>1
  <1>3. f.n \in Int /\ f.max \in Nat
    BY DEF Visited
  <1>4. Regular(s)
    BY <1>1, <1>2, <1>3 DEF Regular
  <1>5. QED
    BY <1>4 DEF s

(* The bytes of a visit.                                                   *)
Byte == 0..(2 * Base - 1)
Bytes(f) == IF f.kind = "varint" THEN VarIntBytes(f.n % Word) ELSE Content(f.n)

LEMMA BytesAre ==
  ASSUME NEW f \in Visited, f.kind # "varint" => f.n \in Nat
  PROVE  /\ Bytes(f) \in Seq(Byte)
         /\ f.kind = "varint" => Len(Bytes(f)) \in 0..Segments
         /\ f.kind # "varint" => Len(Bytes(f)) = f.n
  <1>1. CASE f.kind = "varint"
    <2> DEFINE v == f.n % Word
               w == Word
    <2>1. w \in Nat \ {0} /\ f.n \in Int
      BY WordIs DEF Visited
    <2>2. v \in Nat /\ v < Word
      <3> HIDE DEF w
      <3>1. f.n % w \in 0..(w - 1)
        BY <2>1
      <3>2. f.n % w \in Nat /\ f.n % w < w
        BY <2>1, <3>1
      <3>3. QED
        BY <3>2 DEF w
    <2> HIDE DEF v, w
    <2>3. VarIntBytes(v) \in Seq(Byte) /\ Len(VarIntBytes(v)) = Segs(v) /\ Segs(v) \in 1..Segments
      BY <2>2, VarIntBytesAre, SegsIs DEF Byte
    <2>4. Bytes(f) = VarIntBytes(v)
      BY <1>1 DEF Bytes, v
    <2>5. QED
      BY <1>1, <2>3, <2>4
  <1>2. CASE f.kind # "varint"
    <2> DEFINE n == f.n
    <2>1. n \in Nat /\ Bytes(f) = Content(n)
      BY <1>2 DEF Bytes
    <2> HIDE DEF n
    <2>2. Content(n) \in Seq(Byte) /\ Len(Content(n)) = n
      <3>1. ASSUME NEW j \in 1..n PROVE j % Base \in Byte
        <4>1. j \in Nat /\ Base \in Nat \ {0}
          BY <2>1, BaseIs
        <4>2. j % Base \in 0..(Base - 1)
          BY <4>1, Division
        <4>3. QED
          BY <4>1, <4>2 DEF Byte
      <3>2. Content(n) \in [1..n -> Byte]
        BY <3>1 DEF Content
      <3>3. Content(n) \in Seq(Byte)
        BY <2>1, <3>2, SeqDef
      <3>4. QED
        BY <2>1, <3>2, <3>3, LenProperties
    <2>3. QED
      BY <1>2, <2>1, <2>2 DEF n
  <1>3. QED
    BY <1>1, <1>2

(* f bounds, for every k, the bytes of the first k visits, m in all.       *)
Bounds(s, m, f) ==
    /\ f \in [0..Len(s) -> Nat] /\ f[0] = 0 /\ f[Len(s)] <= m
    /\ \A i \in 1..Len(s) : f[i - 1] + Len(Bytes(s[i])) <= f[i]

(* A regular part of a packet, with no more than m bytes.                  *)
Part(s, m) == Regular(s) /\ \E f : Bounds(s, m, f)

LEMMA PartsJoined ==
  ASSUME NEW s, NEW t, NEW a \in Nat, NEW b \in Nat, Part(s, a), Part(t, b)
  PROVE  Part(s \o t, a + b)
  <1>1. PICK f : Bounds(s, a, f)
    BY DEF Part
  <1>2. PICK g : Bounds(t, b, g)
    BY DEF Part
  <1> DEFINE u == s \o t
             m == Len(s)
             n == Len(t)
             h == [i \in 0..(m + n) |-> IF i <= m THEN f[i] ELSE f[m] + g[i - m]]
  <1>3. s \in Seq(Visited) /\ t \in Seq(Visited)
    BY DEF Part, Regular
  <1>4. /\ m \in Nat /\ n \in Nat /\ Len(u) = m + n
        /\ \A i \in 1..(m + n) : u[i] = IF i <= m THEN s[i] ELSE t[i - m]
    BY <1>3, ConcatProperties
  <1>5. /\ f \in [0..m -> Nat] /\ f[0] = 0 /\ f[m] <= a /\ f[m] \in Nat
        /\ \A i \in 1..m : f[i - 1] + Len(Bytes(s[i])) <= f[i]
    <2>1. /\ f \in [0..m -> Nat] /\ f[0] = 0 /\ f[m] <= a
          /\ \A i \in 1..m : f[i - 1] + Len(Bytes(s[i])) <= f[i]
      BY <1>1, Zenon DEF Bounds
    <2>2. m \in 0..m
      BY <1>4
    <2>3. f[m] \in Nat
      BY <2>1, <2>2, Zenon
    <2>4. QED
      BY <2>1, <2>3, Zenon
  <1>6. /\ g \in [0..n -> Nat] /\ g[0] = 0 /\ g[n] <= b /\ g[n] \in Nat
        /\ \A i \in 1..n : g[i - 1] + Len(Bytes(t[i])) <= g[i]
    <2>1. /\ g \in [0..n -> Nat] /\ g[0] = 0 /\ g[n] <= b
          /\ \A i \in 1..n : g[i - 1] + Len(Bytes(t[i])) <= g[i]
      BY <1>2, Zenon DEF Bounds
    <2>2. n \in 0..n
      BY <1>4
    <2>3. g[n] \in Nat
      BY <2>1, <2>2, Zenon
    <2>4. QED
      BY <2>1, <2>3, Zenon
  <1>b. \A i \in 1..n : Len(Bytes(t[i])) \in Nat
    <2> SUFFICES ASSUME NEW i \in 1..n PROVE Len(Bytes(t[i])) \in Nat
      OBVIOUS
    <2>1. t[i] \in Visited /\ (t[i].kind # "varint" => t[i].n \in Nat)
      BY <1>3, <1>4, ElementOfSeq DEF Part, Regular
    <2>2. Bytes(t[i]) \in Seq(Byte)
      BY <2>1, BytesAre
    <2>3. QED
      BY <2>2, LenProperties
  <1> HIDE DEF u, m, n
  <1>7. h \in [0..(m + n) -> Nat]
    <2>1. ASSUME NEW i \in 0..(m + n) PROVE (IF i <= m THEN f[i] ELSE f[m] + g[i - m]) \in Nat
      <3>1. CASE i <= m
        BY <1>4, <1>5, <3>1
      <3>2. CASE ~(i <= m)
        <4>1. i - m \in 0..n
          BY <1>4, <3>2
        <4>2. g[i - m] \in Nat
          BY <1>6, <4>1
        <4>3. QED
          BY <1>5, <3>2, <4>2
      <3>3. QED
        BY <3>1, <3>2
    <2>2. QED
      BY <2>1
  <1>8. h[0] = 0 /\ h[m + n] <= a + b
    <2>1. h[0] = 0
      BY <1>4, <1>5
    <2>2. h[m + n] = f[m] + g[n]
      <3>1. CASE n = 0
        BY <1>4, <1>5, <1>6, <3>1
      <3>2. CASE n # 0
        <4>1. ~(m + n <= m) /\ (m + n) - m = n /\ m + n \in 0..(m + n)
          BY <1>4, <3>2
        <4>2. QED
          BY <4>1
      <3>3. QED
        BY <3>1, <3>2
    <2>3. QED
      BY <1>5, <1>6, <2>1, <2>2
  <1>9. ASSUME NEW i \in 1..(m + n) PROVE h[i - 1] + Len(Bytes(u[i])) <= h[i]
    <2>1. CASE i <= m
      <3>1. i \in 1..m /\ i - 1 \in 0..(m + n) /\ i - 1 <= m /\ i \in 0..(m + n)
        BY <1>4, <2>1
      <3>2. h[i - 1] = f[i - 1] /\ h[i] = f[i] /\ u[i] = s[i]
        BY <1>4, <2>1, <3>1
      <3>3. QED
        BY <1>5, <3>1, <3>2
    <2>2. CASE ~(i <= m)
      <3> DEFINE j == i - m
      <3>1. j \in 1..n /\ i \in 0..(m + n) /\ i - 1 \in 0..(m + n) /\ (i - 1) - m = j - 1 /\ j - 1 \in 0..n
        BY <1>4, <2>2
      <3>2. h[i] = f[m] + g[j] /\ u[i] = t[j]
        BY <1>4, <2>2, <3>1
      <3>3. h[i - 1] = f[m] + g[j - 1]
        <4>1. CASE i - 1 <= m
          <5>1. i - 1 = m /\ j - 1 = 0
            BY <1>4, <2>2, <4>1
          <5>2. QED
            BY <1>4, <1>5, <1>6, <3>1, <5>1
        <4>2. CASE ~(i - 1 <= m)
          BY <3>1, <4>2
        <4>3. QED
          BY <4>1, <4>2
      <3> HIDE DEF j, h
      <3>4. g[j - 1] + Len(Bytes(t[j])) <= g[j] /\ Len(Bytes(t[j])) \in Nat
        BY <1>6, <1>b, <3>1
      <3>5. g[j - 1] \in Nat /\ g[j] \in Nat
        BY <1>6, <3>1
      <3>6. QED
        BY <1>5, <3>2, <3>3, <3>4, <3>5
    <2>3. QED
      BY <2>1, <2>2
  <1> HIDE DEF h
  <1>10. Bounds(u, a + b, h)
    BY <1>4, <1>7, <1>8, <1>9 DEF Bounds
  <1>11. Regular(u)
    BY RegularJoined DEF Part, u
  <1>12. QED
    BY <1>10, <1>11 DEF Part, u

(* A visit on its own, and the two of a string.                            *)
LEMMA OnePart ==
  ASSUME NEW f \in Visited, f.kind \in {"varint", "fixed", "uuid"},
         f.n \in Int32, f.n <= f.max, f.kind # "varint" => f.n \in Nat
  PROVE  Part(<<f>>, IF f.kind = "varint" THEN Segments ELSE f.n)
  <1> DEFINE m == IF f.kind = "varint" THEN Segments ELSE f.n
             s == <<f>>
             h == [i \in 0..1 |-> IF i = 0 THEN 0 ELSE m]
  <1>1. Len(Bytes(f)) \in Nat /\ Len(Bytes(f)) <= m /\ m \in Nat
    BY BytesAre, WidthAssumption
  <1>2. Len(s) = 1 /\ s[1] = f /\ Regular(s)
    BY OneRegular
  <1> HIDE DEF m, s
  <1>3. /\ h \in [0..1 -> Nat] /\ h[0] = 0 /\ h[1] = m
    BY <1>1
  <1> HIDE DEF h
  <1>4. \A i \in 1..1 : h[i - 1] + Len(Bytes(s[i])) <= h[i]
    <2>1. \A i \in 1..1 : i = 1 /\ i - 1 = 0
      OBVIOUS
    <2>2. QED
      BY <1>1, <1>2, <1>3, <2>1
  <1>5. Bounds(s, m, h)
    BY <1>1, <1>2, <1>3, <1>4 DEF Bounds
  <1>6. QED
    BY <1>2, <1>5 DEF Part, m, s

LEMMA StringPart ==
  ASSUME NEW n \in 0..MaxLen, NEW max \in Nat
  PROVE  Part(String(n, max), Segments + n)
  <1> DEFINE f == Visit("varint", n, max)
             g == Visit("body", n, max)
             s == <<f, g>>
             h == [i \in 0..2 |-> IF i = 0 THEN 0 ELSE IF i = 1 THEN Segments ELSE Segments + n]
  <1>1. n \in Nat /\ Segments \in Nat
    BY WidthAssumption, LengthAssumption
  <1>2. /\ f \in Visited /\ g \in Visited /\ f.kind = "varint" /\ g.kind = "body"
        /\ f.n = n /\ g.n = n
    BY <1>1 DEF Visit, Visited
  <1>3. Len(s) = 2 /\ s[1] = f /\ s[2] = g /\ s = String(n, max)
    BY DEF String
  <1> HIDE DEF f, g, s
  <1>4. Len(Bytes(f)) \in 0..Segments /\ Len(Bytes(g)) = n
    BY <1>1, <1>2, BytesAre
  <1>5. h \in [0..2 -> Nat] /\ h[0] = 0 /\ h[1] = Segments /\ h[2] = Segments + n
    BY <1>1
  <1> HIDE DEF h
  <1>6. \A i \in 1..2 : h[i - 1] + Len(Bytes(s[i])) <= h[i]
    <2>1. \A i \in 1..2 : (i = 1 /\ i - 1 = 0) \/ (i = 2 /\ i - 1 = 1)
      OBVIOUS
    <2>2. QED
      BY <1>1, <1>3, <1>4, <1>5, <2>1
  <1>7. Bounds(s, Segments + n, h)
    BY <1>1, <1>3, <1>5, <1>6 DEF Bounds
  <1>8. Regular(s)
    BY <1>3, StringRegular
  <1>9. QED
    BY <1>3, <1>7, <1>8 DEF Part

(* Small numbers are ints.                                                 *)
LEMMA Ints ==
  ASSUME NEW n \in Nat, n <= 16
  PROVE  n \in Int32
  <1> DEFINE w == Word \div 2
  <1>1. w \in Nat /\ 16 < w
    BY WordIs
  <1> HIDE DEF w
  <1>2. n \in -w .. w - 1
    BY <1>1
  <1>3. QED
    BY <1>2 DEF Int32, w

(* An integer of a packet.                                                 *)
LEMMA VarIntPart ==
  ASSUME NEW v \in Int32
  PROVE  Part(<<VarInt(v)>>, Segments)
  <1> DEFINE f == VarInt(v)
             w == Word \div 2
  <1>1. Word \in Nat /\ w \in Nat /\ 2 * w <= Word
    BY WordIs
  <1>2. v \in -w .. w - 1
    BY DEF Int32
  <1> HIDE DEF w
  <1>3. v \in Int /\ v <= Word
    BY <1>1, <1>2
  <1>4. f \in Visited /\ f.kind = "varint" /\ f.n = v /\ f.max = Word
    BY <1>1, <1>3 DEF VarInt, Visit, Visited
  <1> HIDE DEF f
  <1>5. Part(<<f>>, Segments)
    BY <1>3, <1>4, OnePart
  <1>6. QED
    BY <1>5 DEF f

(* What is visited without the packet's own size.                          *)
Items(p) == <<VarInt(p.id)>> \o p.fields
Count(p) == Len(Items(p))

(* Every packet that is serialized is regular, and its size an int.        *)
Serializable(p) ==
    /\ p.fields \in Seq(Visited) /\ p.id \in 0..2
    /\ Regular(p.fields) /\ Regular(Items(p))
    /\ \E m \in Nat : m < Word \div 2 /\ \E f : Bounds(Items(p), m, f)

LEMMA PacketIs ==
  ASSUME NEW p \in Packet
  PROVE  Serializable(p)
  <1> DEFINE limit == 4 * Segments + 2 * MaxLen + 16
  <1>1. /\ Segments \in Nat /\ MaxLen \in Nat /\ limit \in Nat /\ limit < Word \div 2
    BY WidthAssumption, LengthAssumption
  <1>2. MaxAddress \in Nat /\ MaxName \in Nat /\ MaxServerId \in Nat /\ MaxString \in Nat
    BY LengthAssumption
  <1>3. Part(<<Uuid>>, 16)
    <2>1. Uuid \in Visited /\ Uuid.kind = "uuid" /\ Uuid.n = 16 /\ Uuid.max = 16
      BY DEF Uuid, Visit, Visited
    <2>2. 16 \in Int32
      BY Ints
    <2>3. QED
      BY <2>1, <2>2, OnePart
  <1>4. Part(<<Fixed(2), Fixed(1)>>, 3)
    <2> DEFINE a == Fixed(2)
               b == Fixed(1)
    <2>1. /\ a \in Visited /\ a.kind = "fixed" /\ a.n = 2 /\ a.max = 2
          /\ b \in Visited /\ b.kind = "fixed" /\ b.n = 1 /\ b.max = 1
      BY DEF Fixed, Visit, Visited
    <2>2. 1 \in Int32 /\ 2 \in Int32
      BY Ints
    <2> HIDE DEF a, b
    <2>3. Part(<<a>>, 2) /\ Part(<<b>>, 1)
      BY <2>1, <2>2, OnePart
    <2>4. Part(<<a>> \o <<b>>, 2 + 1)
      BY <2>3, PartsJoined
    <2> DEFINE s == <<a>>
               t == <<b>>
               u == <<a, b>>
    <2>5. /\ s \in Seq(Visited) /\ Len(s) = 1 /\ s[1] = a
          /\ t \in Seq(Visited) /\ Len(t) = 1 /\ t[1] = b
          /\ u \in Seq(Visited) /\ Len(u) = 2 /\ u[1] = a /\ u[2] = b
      BY <2>1
    <2> HIDE DEF s, t, u
    <2>6. s \o t = u
      <3>1. /\ s \o t \in Seq(Visited) /\ Len(s \o t) = 2
            /\ \A i \in 1..2 : (s \o t)[i] = IF i <= 1 THEN s[i] ELSE t[i - 1]
        BY <2>5, ConcatProperties
      <3>2. \A i \in 1..2 : i = 1 \/ (i = 2 /\ i - 1 = 1)
        OBVIOUS
      <3>3. \A i \in 1..2 : (s \o t)[i] = u[i]
        BY <2>5, <3>1, <3>2
      <3>4. QED
        BY <2>5, <3>1, <3>3, SeqEqual
    <2>7. 2 + 1 = 3
      OBVIOUS
    <2>8. Part(s \o t, 2 + 1)
      BY <2>4 DEF s, t
    <2>9. Part(u, 3)
      BY <2>6, <2>7, <2>8
    <2>10. QED
      BY <2>9 DEF a, b, u
  <1>5. /\ \A v \in Int32 : Part(<<VarInt(v)>>, Segments)
        /\ \A n \in 0..MaxLen : Segments + n \in Nat /\
             \A max \in Nat : Part(String(n, max), Segments + n)
    BY <1>1, VarIntPart, StringPart
  <1>6. 0 \in 0..MaxLen /\ 0 \in Int32
    BY <1>1, Ints
  <1> DEFINE H(v, n) == <<VarInt(v)>> \o String(n, MaxAddress) \o <<Fixed(2), Fixed(1)>>
             I(m, n) == String(0, MaxServerId) \o String(m, MaxString) \o String(n, MaxString)
  <1>7. p.id \in 0..2 /\ \E m \in Nat : m + Segments <= limit /\ Part(p.fields, m)
    <2>1. CASE p.id = 0 /\ \E v \in Int32, n \in 0..MaxLen : p.fields = H(v, n)
      <3>1. PICK v \in Int32, n \in 0..MaxLen : p.fields = H(v, n)
        BY <2>1
      <3>2. Part(<<VarInt(v)>> \o String(n, MaxAddress), Segments + (Segments + n))
        BY <1>1, <1>2, <1>5, PartsJoined
      <3>3. Segments + (Segments + n) \in Nat
        BY <1>1
      <3>4. Part(p.fields, Segments + (Segments + n) + 3)
        BY <1>4, <3>1, <3>2, <3>3, PartsJoined
      <3>5. Segments + (Segments + n) + 3 \in Nat /\ Segments + (Segments + n) + 3 + Segments <= limit
        BY <1>1
      <3>6. QED
        BY <2>1, <3>4, <3>5
    <2>2. CASE p.id = 0 /\ \E n \in 0..MaxLen : p.fields = String(n, MaxName) \o <<Uuid>>
      <3>1. PICK n \in 0..MaxLen : p.fields = String(n, MaxName) \o <<Uuid>>
        BY <2>2
      <3>2. Part(p.fields, (Segments + n) + 16)
        BY <1>2, <1>3, <1>5, <3>1, PartsJoined
      <3>3. (Segments + n) + 16 \in Nat /\ (Segments + n) + 16 + Segments <= limit
        BY <1>1
      <3>4. QED
        BY <2>2, <3>2, <3>3
    <2>3. CASE p.id = 0 /\ \E n \in 0..MaxLen : p.fields = String(n, MaxString)
      <3>1. PICK n \in 0..MaxLen : p.fields = String(n, MaxString)
        BY <2>3
      <3>2. Part(p.fields, Segments + n)
        BY <1>2, <1>5, <3>1
      <3>3. Segments + n \in Nat /\ Segments + n + Segments <= limit
        BY <1>1
      <3>4. QED
        BY <2>3, <3>2, <3>3
    <2>4. CASE p.id = 1 /\ \E m \in 0..MaxLen, n \in 0..MaxLen : p.fields = I(m, n)
      <3>1. PICK m \in 0..MaxLen, n \in 0..MaxLen : p.fields = I(m, n)
        BY <2>4
      <3>2. Part(String(0, MaxServerId) \o String(m, MaxString), (Segments + 0) + (Segments + m))
        BY <1>2, <1>5, <1>6, PartsJoined
      <3>3. (Segments + 0) + (Segments + m) \in Nat
        BY <1>1
      <3>4. Part(p.fields, (Segments + 0) + (Segments + m) + (Segments + n))
        BY <1>2, <1>5, <3>1, <3>2, <3>3, PartsJoined
      <3>5. /\ (Segments + 0) + (Segments + m) + (Segments + n) \in Nat
            /\ (Segments + 0) + (Segments + m) + (Segments + n) + Segments <= limit
        BY <1>1
      <3>6. QED
        BY <2>4, <3>4, <3>5
    <2>5. CASE p.id = 2 /\ \E n \in 0..MaxLen :
                 p.fields = <<Uuid>> \o String(n, MaxName) \o <<VarInt(0)>>
      <3>1. PICK n \in 0..MaxLen : p.fields = <<Uuid>> \o String(n, MaxName) \o <<VarInt(0)>>
        BY <2>5
      <3>2. Part(<<Uuid>> \o String(n, MaxName), 16 + (Segments + n))
        BY <1>2, <1>3, <1>5, PartsJoined
      <3>3. 16 + (Segments + n) \in Nat
        BY <1>1
      <3>4. Part(p.fields, 16 + (Segments + n) + Segments)
        BY <1>1, <1>5, <1>6, <3>1, <3>2, <3>3, PartsJoined
      <3>5. 16 + (Segments + n) + Segments \in Nat /\ 16 + (Segments + n) + Segments + Segments <= limit
        BY <1>1
      <3>6. QED
        BY <2>5, <3>4, <3>5
    <2> DEFINE A == {H(v, n) : v \in Int32, n \in 0..MaxLen}
               B == {String(n, MaxName) \o <<Uuid>> : n \in 0..MaxLen}
               C == {String(n, MaxString) : n \in 0..MaxLen}
               D == {I(m, n) : m \in 0..MaxLen, n \in 0..MaxLen}
               E == {<<Uuid>> \o String(n, MaxName) \o <<VarInt(0)>> : n \in 0..MaxLen}
               Goal == p.id \in 0..2 /\ \E m \in Nat : m + Segments <= limit /\ Part(p.fields, m)
    <2>6. Packet = [id : {0}, fields : A \cup B \cup C] \cup [id : {1}, fields : D]
                   \cup [id : {2}, fields : E]
      BY SMT DEF Packet
    <2>7. p.id = 0 /\ p.fields \in A => Goal
      <3> HIDE DEF H
      <3>1. p.fields \in A => \E v \in Int32, n \in 0..MaxLen : p.fields = H(v, n)
        OBVIOUS
      <3>2. QED
        BY <2>1, <3>1
    <2>8. p.id = 0 /\ p.fields \in B => Goal
      BY <2>2, Zenon
    <2>9. p.id = 0 /\ p.fields \in C => Goal
      BY <2>3, Zenon
    <2>10. p.id = 1 /\ p.fields \in D => Goal
      <3> HIDE DEF I
      <3>1. p.fields \in D => \E m \in 0..MaxLen, n \in 0..MaxLen : p.fields = I(m, n)
        OBVIOUS
      <3>2. QED
        BY <2>4, <3>1
    <2>11. p.id = 2 /\ p.fields \in E => Goal
      BY <2>5, Zenon
    <2> HIDE DEF A, B, C, D, E, Goal
    <2>12. \/ p.id = 0 /\ (p.fields \in A \/ p.fields \in B \/ p.fields \in C)
           \/ p.id = 1 /\ p.fields \in D
           \/ p.id = 2 /\ p.fields \in E
      BY <2>6
    <2>13. Goal
      BY <2>7, <2>8, <2>9, <2>10, <2>11, <2>12
    <2>14. QED
      BY <2>13 DEF Goal
  <1>8. PICK m \in Nat : m + Segments <= limit /\ Part(p.fields, m)
    BY <1>7
  <1>9. p.id \in Int32
    BY <1>7, Ints
  <1>10. Part(Items(p), Segments + m)
    BY <1>1, <1>5, <1>8, <1>9, PartsJoined DEF Items
  <1>11. Segments + m \in Nat /\ Segments + m < Word \div 2
    <2> DEFINE w == Word \div 2
    <2>1. w \in Nat /\ limit < w
      BY <1>1, WordIs
    <2> HIDE DEF w, limit
    <2>2. Segments + m \in Nat /\ Segments + m < w
      BY <1>1, <1>8, <2>1
    <2>3. QED
      BY <2>2 DEF w
  <1>12. QED
    BY <1>7, <1>8, <1>10, <1>11 DEF Serializable, Part, Regular

(* The items of a packet are its id and its fields.                        *)
LEMMA ItemsAre ==
  ASSUME NEW p \in Packet
  PROVE  /\ Count(p) \in Nat \ {0} /\ Items(p) \in Seq(Visited)
         /\ Items(p)[1] = VarInt(p.id) /\ DOMAIN p.fields = 1..(Count(p) - 1)
         /\ \A i \in 1..(Count(p) - 1) : Items(p)[i + 1] = p.fields[i]
         /\ \A i \in 1..Count(p) : Items(p)[i] \in Visited
  <1> DEFINE f == VarInt(p.id)
             a == <<f>>
             b == p.fields
             c == Items(p)
  <1>1. Serializable(p)
    BY PacketIs
  <1>2. f \in Visited /\ b \in Seq(Visited)
    BY <1>1, WordIs DEF Serializable, VarInt, Visit, Visited
  <1> HIDE DEF f, b
  <1>3. a \in Seq(Visited) /\ Len(a) = 1 /\ a[1] = f
    BY <1>2
  <1>4. c = a \o b
    BY DEF Items, f, b
  <1> HIDE DEF a, c
  <1>5. /\ c \in Seq(Visited) /\ Len(c) = 1 + Len(b) /\ Len(b) \in Nat
        /\ \A i \in 1..(1 + Len(b)) : c[i] = IF i <= 1 THEN a[i] ELSE b[i - 1]
    <2>1. Len(b) \in Nat
      BY <1>2, LenProperties
    <2>2. /\ a \o b \in Seq(Visited) /\ Len(a \o b) = Len(a) + Len(b)
          /\ \A i \in 1..(Len(a) + Len(b)) :
               (a \o b)[i] = IF i <= Len(a) THEN a[i] ELSE b[i - Len(a)]
      BY <1>2, <1>3, ConcatProperties
    <2>3. QED
      BY <1>3, <1>4, <2>1, <2>2
  <1>6. DOMAIN b = 1..Len(b)
    BY <1>2, LenProperties
  <1>7. c[1] = f
    BY <1>3, <1>5
  <1>8. \A i \in 1..Len(b) : c[i + 1] = b[i]
    <2>1. \A i \in 1..Len(b) : i + 1 \in 1..(1 + Len(b)) /\ ~(i + 1 <= 1) /\ (i + 1) - 1 = i
      BY <1>5
    <2>2. QED
      BY <1>5, <2>1
  <1>9. Count(p) = 1 + Len(b) /\ Count(p) - 1 = Len(b) /\ Count(p) \in Nat \ {0}
    BY <1>5 DEF Count, c
  <1>10. \A i \in 1..Len(c) : c[i] \in Visited
    BY <1>5, ElementOfSeq
  <1>11. QED
    BY <1>5, <1>6, <1>7, <1>8, <1>9, <1>10 DEF f, b, c

(* The bytes of the first items, and of all.                               *)
Flat(p) == CHOOSE f : Running(Byte, [i \in 1..Count(p) |-> Bytes(Items(p)[i])], f)
Payload(p) == Len(Flat(p)[Count(p)])

LEMMA FlatIs ==
  ASSUME NEW p \in Packet
  PROVE  /\ Flat(p)[0] = <<>> /\ \A i \in 0..Count(p) : Flat(p)[i] \in Seq(Byte)
         /\ \A i \in 1..Count(p) : /\ Bytes(Items(p)[i]) \in Seq(Byte)
                                   /\ Flat(p)[i] = Flat(p)[i - 1] \o Bytes(Items(p)[i])
         /\ Payload(p) \in Nat /\ Payload(p) < Word \div 2
  <1> DEFINE n == Count(p)
             c == Items(p)
             s == [i \in 1..n |-> Bytes(c[i])]
             f == Flat(p)
  <1>1. n \in Nat \ {0} /\ Len(c) = n /\ \A i \in 1..n : c[i] \in Visited
    BY ItemsAre DEF Count
  <1>2. Serializable(p)
    BY PacketIs
  <1>3. \A i \in 1..n : c[i].kind # "varint" => c[i].n \in Nat
    BY <1>1, <1>2 DEF Serializable, Regular
  <1> HIDE DEF n, c
  <1>4. \A i \in 1..n : Bytes(c[i]) \in Seq(Byte)
    BY <1>1, <1>3, BytesAre
  <1>5. s \in Seq(Seq(Byte)) /\ Len(s) = n
    <2>1. s \in [1..n -> Seq(Byte)]
      BY <1>4
    <2> HIDE DEF s
    <2>2. s \in Seq(Seq(Byte))
      BY <1>1, <2>1, SeqDef
    <2>3. QED
      BY <1>1, <2>1, <2>2, LenProperties
  <1>6. Running(Byte, s, f)
    <2>1. \E g : Running(Byte, s, g)
      <3> HIDE DEF s
      <3>1. QED
        BY <1>5, RunningExists DEF HasRunning
    <2>2. f = CHOOSE g : Running(Byte, s, g)
      BY DEF Flat, n, c
    <2> HIDE DEF s, f
    <2>3. QED
      BY <2>1, <2>2, Zenon
  <1>7. \A i \in 1..n : s[i] = Bytes(c[i])
    OBVIOUS
  <1> HIDE DEF s, f
  <1>8. /\ f \in [0..n -> Seq(Byte)] /\ f[0] = <<>>
        /\ \A i \in 1..n : f[i] = f[i - 1] \o Bytes(c[i])
    BY <1>1, <1>5, <1>6, <1>7 DEF Running
  <1>9. PICK m \in Nat : m < Word \div 2 /\ \E g : Bounds(c, m, g)
    BY <1>2 DEF Serializable, c
  <1>10. PICK g : Bounds(c, m, g)
    BY <1>9
  <1>11. /\ g \in [0..n -> Nat] /\ g[0] = 0 /\ g[n] <= m
         /\ \A i \in 1..n : g[i - 1] + Len(Bytes(c[i])) <= g[i]
    BY <1>1, <1>10 DEF Bounds
  <1> DEFINE S == {i \in Nat : i <= n => Len(f[i]) \in Nat /\ Len(f[i]) <= g[i]}
  <1>12. 0 \in S
    BY <1>8, <1>11, EmptySeq
  <1>13. ASSUME NEW i \in Nat, i \in S PROVE i + 1 \in S
    <2> SUFFICES ASSUME i + 1 <= n PROVE Len(f[i + 1]) \in Nat /\ Len(f[i + 1]) <= g[i + 1]
      OBVIOUS
    <2>1. i + 1 \in 1..n /\ i \in 0..n /\ i + 1 \in 0..n /\ (i + 1) - 1 = i /\ i <= n
      BY <1>1
    <2>2. Len(f[i]) \in Nat /\ Len(f[i]) <= g[i]
      BY <1>13, <2>1
    <2> DEFINE a == f[i]
               b == Bytes(c[i + 1])
    <2>3. a \in Seq(Byte) /\ b \in Seq(Byte) /\ f[i + 1] = a \o b
      BY <1>4, <1>8, <2>1
    <2>4. g[i] + Len(b) <= g[i + 1] /\ g[i] \in Nat /\ g[i + 1] \in Nat
      BY <1>11, <2>1
    <2> HIDE DEF b
    <2>5. Len(a \o b) = Len(a) + Len(b) /\ Len(b) \in Nat
      BY <2>3, ConcatProperties, LenProperties
    <2>6. QED
      BY <2>2, <2>3, <2>4, <2>5
  <1>14. n \in S
    <2> HIDE DEF S
    <2>1. QED
      BY <1>1, <1>12, <1>13, SetInduction
  <1>15. Len(f[n]) \in Nat /\ Len(f[n]) < Word \div 2
    <2> DEFINE w == Word \div 2
    <2>1. w \in Nat /\ m < w
      BY <1>9, WordIs
    <2> HIDE DEF w
    <2>2. Len(f[n]) \in Nat /\ Len(f[n]) < w
      BY <1>1, <1>11, <1>14, <2>1
    <2>3. QED
      BY <2>2 DEF w
  <1>16. \A i \in 0..n : f[i] \in Seq(Byte)
    BY <1>8
  <1>17. QED
    BY <1>4, <1>8, <1>15, <1>16 DEF n, c, f, Payload

(* The visits of the size calculation, and those of the other two.         *)
Counted(p) == Items(p) \o <<Visit("end", 0, 0)>>
Prefixed(p, m) == <<VarInt(m)>> \o Items(p)

LEMMA CountedIs ==
  ASSUME NEW p \in Packet
  PROVE  /\ Counted(p) \in Seq(Visited) /\ Len(Counted(p)) = Count(p) + 1
         /\ \A i \in 1..Count(p) : Counted(p)[i] = Items(p)[i]
         /\ Counted(p)[Count(p) + 1] = Visit("end", 0, 0)
  <1> DEFINE e == Visit("end", 0, 0)
             a == Items(p)
             b == <<e>>
             n == Count(p)
  <1>1. n \in Nat /\ a \in Seq(Visited) /\ n = Len(a)
    BY ItemsAre DEF Count
  <1>2. e \in Visited
    BY DEF Visit, Visited
  <1> HIDE DEF e
  <1>3. b \in Seq(Visited) /\ Len(b) = 1 /\ b[1] = e
    BY <1>2
  <1> HIDE DEF a, b, n
  <1>4. /\ a \o b \in Seq(Visited) /\ Len(a \o b) = Len(a) + Len(b)
        /\ \A i \in 1..(Len(a) + Len(b)) :
             (a \o b)[i] = IF i <= Len(a) THEN a[i] ELSE b[i - Len(a)]
    BY <1>1, <1>3, ConcatProperties
  <1>5. n + 1 \in 1..(n + 1) /\ ~(n + 1 <= n) /\ (n + 1) - n = 1
    BY <1>1
  <1>6. /\ a \o b \in Seq(Visited) /\ Len(a \o b) = n + 1 /\ (a \o b)[n + 1] = e
        /\ \A i \in 1..n : (a \o b)[i] = a[i]
    BY <1>1, <1>3, <1>4, <1>5
  <1>7. QED
    BY <1>6 DEF Counted, a, b, n, e

LEMMA PrefixedIs ==
  ASSUME NEW p \in Packet, NEW m \in Int
  PROVE  /\ Prefixed(p, m) \in Seq(Visited) /\ Len(Prefixed(p, m)) = Count(p) + 1
         /\ Prefixed(p, m)[1] = VarInt(m)
         /\ \A i \in 1..Count(p) : Prefixed(p, m)[i + 1] = Items(p)[i]
  <1> DEFINE e == VarInt(m)
             a == <<e>>
             b == Items(p)
             n == Count(p)
  <1>1. n \in Nat /\ b \in Seq(Visited) /\ n = Len(b)
    BY ItemsAre DEF Count
  <1>2. e \in Visited
    BY WordIs DEF VarInt, Visit, Visited
  <1> HIDE DEF e
  <1>3. a \in Seq(Visited) /\ Len(a) = 1 /\ a[1] = e
    BY <1>2
  <1> HIDE DEF a, b, n
  <1>4. /\ a \o b \in Seq(Visited) /\ Len(a \o b) = Len(a) + Len(b)
        /\ \A i \in 1..(Len(a) + Len(b)) :
             (a \o b)[i] = IF i <= Len(a) THEN a[i] ELSE b[i - Len(a)]
    BY <1>1, <1>3, ConcatProperties
  <1>5. \A i \in 1..n : i + 1 \in 1..(1 + n) /\ ~(i + 1 <= 1) /\ (i + 1) - 1 = i
    BY <1>1
  <1>6. /\ a \o b \in Seq(Visited) /\ Len(a \o b) = n + 1 /\ (a \o b)[1] = e
        /\ \A i \in 1..n : (a \o b)[i + 1] = b[i]
    BY <1>1, <1>3, <1>4, <1>5
  <1>7. QED
    BY <1>6 DEF Prefixed, a, b, n, e

(* They are those of the three visitors.                                   *)
LEMMA VisitsAre ==
  ASSUME packet \in Packet
  PROVE  SizeVisits = Counted(packet) /\ \A m \in Int : PrefixedVisits(m) = Prefixed(packet, m)
  <1>1. SizeVisits = Counted(packet)
    BY DEF SizeVisits, Counted, Items
  <1>2. ASSUME NEW m \in Int PROVE PrefixedVisits(m) = Prefixed(packet, m)
    <2> DEFINE e == VarInt(m)
               i == VarInt(packet.id)
               f == packet.fields
               a == <<e>>
               b == <<i>>
               c == <<e, i>>
    <2>1. f \in Seq(Visited) /\ packet.id \in 0..2
      BY PacketIs DEF Serializable
    <2>2. e \in Visited /\ i \in Visited
      BY <2>1, WordIs DEF VarInt, Visit, Visited
    <2> HIDE DEF e, i, f
    <2>3. /\ a \in Seq(Visited) /\ Len(a) = 1 /\ a[1] = e
          /\ b \in Seq(Visited) /\ Len(b) = 1 /\ b[1] = i
          /\ c \in Seq(Visited) /\ Len(c) = 2 /\ c[1] = e /\ c[2] = i
      BY <2>2
    <2> HIDE DEF a, b, c
    <2>4. a \o b = c
      <3>1. /\ a \o b \in Seq(Visited) /\ Len(a \o b) = 2
            /\ \A j \in 1..2 : (a \o b)[j] = IF j <= 1 THEN a[j] ELSE b[j - 1]
        BY <2>3, ConcatProperties
      <3>2. \A j \in 1..2 : j = 1 \/ (j = 2 /\ j - 1 = 1)
        OBVIOUS
      <3>3. \A j \in 1..2 : (a \o b)[j] = c[j]
        BY <2>3, <3>1, <3>2
      <3>4. QED
        BY <2>3, <3>1, <3>3, SeqEqual
    <2>5. c \o f = a \o (b \o f)
      <3>1. a \in Seq(Visited) /\ b \in Seq(Visited) /\ f \in Seq(Visited)
        BY <2>1, <2>3
      <3>2. (a \o b) \o f = a \o (b \o f)
        BY <3>1, ConcatAssociative
      <3>3. QED
        BY <2>4, <3>2
    <2>6. QED
      BY <2>5 DEF PrefixedVisits, Prefixed, Items, a, b, c, e, i, f
  <1>3. QED
    BY <1>1, <1>2

(* What is still to be visited after the first k visits.                   *)
Left(V, k, s) ==
    /\ s = SubSeq(V, k + 1, Len(V)) /\ (s = <<>> <=> k = Len(V))
    /\ k < Len(V) => Head(s) = V[k + 1] /\ Tail(s) = SubSeq(V, k + 2, Len(V))

LEMMA LeftIs ==
  ASSUME NEW V \in Seq(Visited), NEW k \in Nat, k <= Len(V)
  PROVE  Left(V, k, SubSeq(V, k + 1, Len(V)))
  <1> DEFINE n == Len(V)
             s == SubSeq(V, k + 1, n)
  <1>1. n \in Nat
    BY LenProperties
  <1>2. CASE k = n
    <2>1. k + 1 \in Int /\ n \in Int /\ n < k + 1 /\ ~(k < n)
      BY <1>1, <1>2
    <2>2. s = <<>>
      BY <2>1, SubSeqEmpty
    <2>3. QED
      BY <1>2, <2>1, <2>2 DEF Left
  <1>3. CASE k < n
    <2>1. k + 1 \in 1..n /\ n \in (k + 1)..n /\ (k + 1) + 1 = k + 2 /\ k # n /\ n - (k + 1) + 1 # 0
      BY <1>1, <1>3
    <2>2. Head(s) = V[k + 1] /\ Tail(s) = SubSeq(V, k + 2, n)
      BY <2>1, HeadTailOfSubSeq
    <2>3. s \in Seq(Visited) /\ Len(s) = n - (k + 1) + 1
      <3>1. k + 1 \in Nat \ {0} /\ n \in Nat /\ n <= Len(V) /\ k + 1 <= n + 1
        BY <1>1, <1>3
      <3>2. QED
        BY <3>1, PartIs
    <2>4. s # <<>>
      BY <2>1, <2>3, EmptySeq
    <2>5. QED
      BY <2>1, <2>2, <2>4 DEF Left
  <1>4. QED
    BY <1>1, <1>2, <1>3

(* An item, and its bytes.                                                 *)
Item(f) ==
    /\ f \in Visited /\ f.kind \in {"varint", "body", "fixed", "uuid"}
    /\ f.n \in Int32 /\ f.n \in Int /\ Bytes(f) \in Seq(Byte) /\ Len(Bytes(f)) \in Nat
    /\ f.kind # "varint" => /\ f.n \in Nat /\ Len(Bytes(f)) = f.n
                            /\ Bytes(f) = Content(f.n)
    /\ f.kind = "varint" /\ f.n >= 0 => /\ f.n \in Nat /\ f.n < Word /\ f.n % Word = f.n
                                        /\ Bytes(f) = VarIntBytes(f.n)

LEMMA ItemIs ==
  ASSUME NEW p \in Packet, NEW i \in 1..Count(p)
  PROVE  Item(Items(p)[i]) /\ (Items(p)[i].kind = "body" => i > 1)
  <1> DEFINE f == Items(p)[i]
             v == f.n
             w == Word
             h == w \div 2
  <1>1. /\ f \in Visited /\ f.kind # "end" /\ v \in Int32
        /\ f.kind # "varint" => v \in Nat
        /\ f.kind = "body" => i > 1
    BY ItemsAre, PacketIs DEF Serializable, Regular, Count
  <1>2. f.kind \in {"varint", "body", "fixed", "uuid"} /\ v \in Int
    BY <1>1 DEF Visited
  <1>3. Bytes(f) \in Seq(Byte) /\ (f.kind # "varint" => Len(Bytes(f)) = v)
    BY <1>1, BytesAre
  <1>4. Len(Bytes(f)) \in Nat
    BY <1>3, LenProperties
  <1>5. f.kind # "varint" => Bytes(f) = Content(v)
    BY DEF Bytes
  <1>6. ASSUME v >= 0 PROVE v \in Nat /\ v < w /\ v % w = v
    <2>1. w \in Nat /\ h \in Nat /\ 2 * h <= w
      BY WordIs
    <2>2. v \in -h .. h - 1
      BY <1>1 DEF Int32
    <2> HIDE DEF h, w, v
    <2>3. v \in Nat /\ v < w
      BY <1>2, <1>6, <2>1, <2>2
    <2>4. v % w = v
      <3>1. v = w * 0 + v /\ v \in 0..(w - 1) /\ w \in Nat \ {0}
        BY <2>1, <2>3
      <3>2. QED
        BY <2>3, <3>1, DivisionUnique
    <2>5. QED
      BY <2>3, <2>4
  <1>7. f.kind = "varint" /\ v >= 0 => Bytes(f) = VarIntBytes(v)
    BY <1>6 DEF Bytes
  <1>8. QED
    BY <1>1, <1>2, <1>3, <1>4, <1>5, <1>6, <1>7 DEF Item

(* A visit that every visitor gets through, and that all are.              *)
Passes(f) == IF f.kind = "varint" THEN f.n >= 0 ELSE ~TooLong(f)
AllPass(p, k) == \A i \in 1..Count(p) : i <= k => Passes(Items(p)[i])

(* If every visit gets through there was nothing that is too long.         *)
LEMMA NoneTooLong ==
  ASSUME NEW p \in Packet, AllPass(p, Count(p))
  PROVE  /\ \A i \in 1..Count(p) : ~TooLong(Items(p)[i])
         /\ \A i \in DOMAIN p.fields : ~TooLong(p.fields[i])
  <1>1. ASSUME NEW i \in 1..Count(p), TooLong(Items(p)[i]) PROVE FALSE
    <2> DEFINE f == Items(p)[i]
               g == Items(p)[i + 1]
    <2>1. Count(p) \in Nat /\ Passes(f)
      BY ItemsAre DEF AllPass
    <2>2. f.kind = "varint" /\ f.n > f.max
      BY <1>1, <2>1 DEF Passes, TooLong
    <2>3. i < Count(p) /\ IsLength(f, g)
      BY <2>2, PacketIs DEF Serializable, Regular, Count
    <2>4. i + 1 \in 1..Count(p)
      BY <2>1, <2>3
    <2>5. Passes(g)
      BY <2>1, <2>4 DEF AllPass
    <2>6. QED
      BY <2>2, <2>3, <2>5 DEF IsLength, Passes, TooLong
  <1>2. ASSUME NEW i \in DOMAIN p.fields PROVE ~TooLong(p.fields[i])
    <2>1. i \in 1..(Count(p) - 1) /\ Items(p)[i + 1] = p.fields[i] /\ Count(p) \in Nat
      BY ItemsAre
    <2>2. i + 1 \in 1..Count(p)
      BY <2>1
    <2>3. QED
      BY <1>1, <2>1, <2>2
  <1>3. QED
    BY <1>1, <1>2

(***************************************************************************)
(* The inductive invariant.                                                *)
(***************************************************************************)

(* What is written of the first k of the prefixed visits.                  *)
Stream(p, k) == IF k = 0 THEN <<>> ELSE VarIntBytes(Payload(p)) \o Flat(p)[k - 1]

(* What the reader makes of a visit, and of the first k.                   *)
Meaning(f) == IF f.kind = "varint" THEN f.n ELSE Content(f.n)
Read(p, k) == [i \in 1..k |-> Meaning(Prefixed(p, Payload(p))[i])]

(* The size is that of all items and of the VarInt of their size.          *)
Sized ==
    /\ AllPass(packet, Count(packet)) /\ lengthSize = Segs(Payload(packet))
    /\ size = Payload(packet) + lengthSize

(* The size calculation after k visits: either a string was too long, or   *)
(* the size is that of these items.  Inside a VarInt's loop count segments *)
(* are done, and the loop of a negative integer stays negative.            *)
Counting(v) ==
    IF v < 0 THEN rest \in Int32 /\ rest < 0
    ELSE v \in Nat /\ v < Word /\ count \in Nat /\ count < Segs(v) /\ rest = v \div Power(Base, count)

Sought(k) == IF k = Count(packet) THEN size ELSE Items(packet)[k + 1].n

SizeAt(k) ==
    /\ visits = SubSeq(Counted(packet), k + 1, Count(packet) + 1)
    /\ success => AllPass(packet, k)
    /\ ~success => lengthSize = 0 /\ \E i \in DOMAIN packet.fields : TooLong(packet.fields[i])
    /\ success /\ k <= Count(packet) => lengthSize = 0 /\ size = Len(Flat(packet)[k])
    /\ success /\ k > Count(packet) => Sized
    /\ rest # Idle =>
         /\ success /\ k <= Count(packet) /\ Counted(packet)[k + 1].kind \in {"varint", "end"}
         /\ Counting(Sought(k))

SizeInv ==
    pass = "size" =>
        /\ data = <<>> /\ at = 0 /\ got = <<>> /\ packetSize = 0
        /\ \E k \in 0..(Count(packet) + 1) : SizeAt(k)

(* The writer after k visits: what they say was written, and inside a      *)
(* VarInt's loop the segments that are done.                               *)
WriteAt(k) ==
    /\ visits = SubSeq(Prefixed(packet, packetSize), k + 1, Count(packet) + 1)
    /\ success /\ rest = Idle => data = Stream(packet, k)
    /\ success /\ rest # Idle =>
         LET f == Prefixed(packet, packetSize)[k + 1]
         IN /\ k <= Count(packet) /\ f.kind = "varint"
            /\ \E j \in Nat :
                 /\ j < Segs(f.n) /\ rest = f.n \div Power(Base, j)
                 /\ data = Stream(packet, k) \o SubSeq(VarIntBytes(f.n), 1, j)

WriteInv ==
    pass = "write" =>
        /\ at = 0 /\ got = <<>> /\ rest >= 0
        /\ success => Sized /\ packetSize = Payload(packet)
        /\ \E k \in 0..(Count(packet) + 1) : WriteAt(k)

(* The reader after k visits: it has their values, and inside a VarInt's   *)
(* loop what the segments that are done hold.                              *)
ReadAt(k) ==
    /\ visits = SubSeq(Prefixed(packet, 0), k + 1, Count(packet) + 1)
    /\ got = Read(packet, k)
    /\ rest = Idle => at = Len(Stream(packet, k))
    /\ rest # Idle =>
         LET f == Prefixed(packet, Payload(packet))[k + 1]
         IN /\ k <= Count(packet) /\ f.kind = "varint" /\ count < Segs(f.n)
            /\ rest = f.n % Power(Base, count) /\ at = Len(Stream(packet, k)) + count

ReadInv ==
    pass = "read" =>
        /\ success /\ Sized /\ packetSize = Payload(packet)
        /\ data = Stream(packet, Count(packet) + 1)
        /\ \E k \in 0..(Count(packet) + 1) : ReadAt(k)

DoneInv ==
    pass = "done" /\ success =>
        /\ Sized /\ packetSize = Payload(packet)
        /\ data = Stream(packet, Count(packet) + 1) /\ got = Read(packet, Count(packet) + 1)

CodecInv ==
    /\ TypeOK /\ packet \in Packet
    /\ SizeInv /\ WriteInv /\ ReadInv /\ DoneInv /\ FailsIfTooLong

LEMMA CodecInit == Init => CodecInv
  <1> SUFFICES ASSUME Init PROVE CodecInv
    OBVIOUS
  <1> DEFINE n == Count(packet)
             V == Counted(packet)
  <1>1. packet \in Packet
    BY DEF Init
  <1>2. n \in Nat /\ V \in Seq(Visited) /\ Len(V) = n + 1 /\ SizeVisits = V
    BY <1>1, ItemsAre, CountedIs, VisitsAre
  <1>3. Word \in Nat /\ 16 < Word \div 2 /\ Segments \in Nat /\ Base \in Nat
    BY WordIs, WidthAssumption
  <1>4. TypeOK
    <2>1. rest \in Int32 \cup 0..Word
      BY <1>3 DEF Init, Idle
    <2>2. count \in 0..(Word - 1)
      BY <1>3, WordIs DEF Init
    <2>3. size \in Nat /\ lengthSize \in 0..Segments /\ success \in BOOLEAN /\ packetSize \in 0..size
      BY <1>3 DEF Init
    <2>4. data \in Seq(0..(2 * Base - 1)) /\ at \in 0..Len(data)
      BY DEF Init
    <2>5. QED
      BY <2>1, <2>2, <2>3, <2>4 DEF Init, TypeOK
  <1>5. SizeAt(0)
    <2>1. visits = SubSeq(V, 0 + 1, n + 1)
      <3> HIDE DEF V, n
      <3>1. visits = V
        BY <1>2 DEF Init
      <3>2. SubSeq(V, 1, n + 1) = V
        BY <1>2, SubSeqFull
      <3>3. 0 + 1 = 1
        OBVIOUS
      <3>4. QED
        BY <3>1, <3>2, <3>3
    <2>2. AllPass(packet, 0)
      BY DEF AllPass
    <2>3. lengthSize = 0 /\ size = Len(Flat(packet)[0])
      BY <1>1, FlatIs, EmptySeq DEF Init
    <2>4. ~(0 > n)
      BY <1>2
    <2>5. QED
      BY <2>1, <2>2, <2>3, <2>4 DEF SizeAt, Init
  <1>6. QED
    BY <1>1, <1>2, <1>4, <1>5
    DEF CodecInv, SizeInv, WriteInv, ReadInv, DoneInv, FailsIfTooLong, Init

(***************************************************************************)
(* CPacketSizeCalc.                                                        *)
(***************************************************************************)

(* What a step within the size calculation has to keep.                    *)
LEMMA StillSizing ==
  ASSUME CodecInv, pass = "size", packet' = packet, pass' = pass,
         UNCHANGED <<packetSize, data, at, got>>,
         rest' \in Int32 \cup 0..Word, count' \in 0..(Word - 1), size' \in Nat,
         lengthSize' \in 0..Segments, success' \in BOOLEAN,
         NEW k \in 0..(Count(packet) + 1), SizeAt(k)'
  PROVE  CodecInv'
  <1>1. packetSize = 0 /\ data = <<>> /\ at = 0 /\ got = <<>>
    BY DEF CodecInv, SizeInv
  <1>2. TypeOK'
    BY <1>1 DEF CodecInv, TypeOK
  <1>3. SizeInv'
    BY <1>1 DEF SizeInv
  <1>4. QED
    BY <1>2, <1>3 DEF CodecInv, WriteInv, ReadInv, DoneInv, FailsIfTooLong

(* Where the size calculation is, and what it visits next.                 *)
SizeNext(k) ==
    LET V == Counted(packet)
        n == Count(packet)
    IN /\ n \in Nat \ {0} /\ packet \in Packet
       /\ visits = <<>> => k = n + 1
       /\ visits # <<>> =>
            /\ k <= n /\ k + 1 \in 0..(n + 1) /\ Head(visits) = V[k + 1]
            /\ Tail(visits) = SubSeq(V, (k + 1) + 1, n + 1)
            /\ k = n => V[k + 1] = Visit("end", 0, 0)
            /\ k < n =>
                 /\ k + 1 \in 1..n /\ V[k + 1] = Items(packet)[k + 1] /\ Item(V[k + 1])
                 /\ V[k + 1].kind = "body" => k > 0

LEMMA SizeVisit ==
  ASSUME CodecInv, pass = "size", NEW k \in 0..(Count(packet) + 1), SizeAt(k)
  PROVE  SizeNext(k)
  <1> DEFINE V == Counted(packet)
             n == Count(packet)
  <1>1. n \in Nat \ {0} /\ packet \in Packet
    BY ItemsAre DEF CodecInv
  <1>2. /\ V \in Seq(Visited) /\ Len(V) = n + 1 /\ V[n + 1] = Visit("end", 0, 0)
        /\ \A i \in 1..n : V[i] = Items(packet)[i]
    BY <1>1, CountedIs
  <1>3. visits = SubSeq(V, k + 1, Len(V))
    BY <1>2 DEF SizeAt
  <1>4. \A i \in 1..n : Item(Items(packet)[i]) /\ (Items(packet)[i].kind = "body" => i > 1)
    BY <1>1, ItemIs
  <1> HIDE DEF V, n
  <1>5. Left(V, k, visits)
    <2>1. k \in Nat /\ k <= Len(V)
      BY <1>1, <1>2 DEF n
    <2>2. QED
      BY <1>2, <1>3, <2>1, LeftIs
  <1>6. k \in 0..(n + 1)
    BY DEF n
  <1>7. visits = <<>> => k = n + 1
    BY <1>2, <1>5 DEF Left
  <1>8. ASSUME visits # <<>>
        PROVE  /\ k <= n /\ k + 1 \in 0..(n + 1) /\ Head(visits) = V[k + 1]
               /\ Tail(visits) = SubSeq(V, (k + 1) + 1, n + 1)
    <2>1. k # n + 1 /\ k + 2 = (k + 1) + 1
      BY <1>2, <1>5, <1>6, <1>8 DEF Left
    <2>2. k <= n /\ k + 1 \in 0..(n + 1) /\ k < Len(V)
      BY <1>1, <1>2, <1>6, <2>1
    <2>3. QED
      BY <1>2, <1>5, <2>1, <2>2 DEF Left
  <1>9. k = n => V[k + 1] = Visit("end", 0, 0)
    BY <1>2
  <1>10. ASSUME k < n
         PROVE  /\ k + 1 \in 1..n /\ V[k + 1] = Items(packet)[k + 1] /\ Item(V[k + 1])
                /\ V[k + 1].kind = "body" => k > 0
    <2>1. k + 1 \in 1..n /\ (k + 1 > 1 => k > 0)
      BY <1>1, <1>6, <1>10
    <2>2. QED
      BY <1>2, <1>4, <2>1
  <1>11. QED
    BY <1>1, <1>7, <1>8, <1>9, <1>10 DEF V, n, SizeNext

(* A visit was skipped: a string had been too long.                        *)
LEMMA SizeSkipKeeps == CodecInv /\ SizeSkip => CodecInv'
  <1> SUFFICES ASSUME CodecInv, SizeSkip PROVE CodecInv'
    OBVIOUS
  <1>1. /\ pass = "size" /\ visits # <<>> /\ ~success /\ visits' = Tail(visits)
        /\ packet' = packet /\ pass' = pass /\ rest' = rest /\ count' = count
        /\ UNCHANGED sizeVars /\ UNCHANGED <<data, at, got>>
    BY DEF SizeSkip, Visiting, Done
  <1>2. PICK k \in 0..(Count(packet) + 1) : SizeAt(k)
    BY <1>1 DEF CodecInv, SizeInv
  <1>3. /\ k + 1 \in 0..(Count(packet) + 1)
        /\ visits' = SubSeq(Counted(packet), (k + 1) + 1, Count(packet) + 1)
    <2>1. SizeNext(k)
      BY <1>1, <1>2, SizeVisit
    <2>2. QED
      BY <1>1, <2>1 DEF SizeNext
  <1>4. SizeAt(k + 1)'
    BY <1>1, <1>2, <1>3 DEF SizeAt, sizeVars
  <1>5. QED
    BY <1>1, <1>3, <1>4, StillSizing DEF CodecInv, TypeOK, sizeVars

(* The integer whose VarInt is counted is an int, or the size.             *)
LEMMA SoughtIs ==
  ASSUME CodecInv, pass = "size", NEW k \in 0..(Count(packet) + 1), SizeAt(k), success,
         visits # <<>>, Head(visits).kind \in {"varint", "end"}
  PROVE  /\ Head(visits).kind = "end" <=> k = Count(packet)
         /\ Sought(k) = (IF Head(visits).kind = "end" THEN size ELSE Head(visits).n)
         /\ Sought(k) \in Int32 /\ Sought(k) \in Int
         /\ Sought(k) >= 0 => Sought(k) \in Nat /\ Sought(k) < Word
  <1> DEFINE n == Count(packet)
             f == Head(visits)
             h == Word \div 2
  <1>1. SizeNext(k)
    BY SizeVisit
  <1>2. /\ n \in Nat \ {0} /\ packet \in Packet /\ k <= n
        /\ k = n => f = Visit("end", 0, 0)
        /\ k < n => f = Items(packet)[k + 1] /\ Item(f)
    BY <1>1 DEF SizeNext
  <1>3. h \in Nat /\ Word \in Nat /\ 2 * h <= Word
    BY WordIs
  <1>4. CASE k = n
    <2>1. f.kind = "end" /\ Sought(k) = size
      BY <1>2, <1>4 DEF Visit, Sought
    <2>2. size = Payload(packet)
      BY <1>2, <1>4 DEF SizeAt, Payload
    <2>3. size \in Nat /\ size < h
      BY <1>2, <2>2, FlatIs
    <2> HIDE DEF h
    <2>4. size \in -h .. h - 1 /\ size < Word
      BY <1>3, <2>3
    <2>5. size \in Int32
      BY <2>4 DEF Int32, h
    <2>6. QED
      BY <1>4, <2>1, <2>3, <2>4, <2>5
  <1>5. CASE k < n
    <2>1. f.kind # "end" /\ Sought(k) = f.n /\ k # n
      BY <1>2, <1>5 DEF Sought, Item
    <2>2. f.kind = "varint"
      BY <2>1
    <2>3. f.n \in Int32 /\ f.n \in Int /\ (f.n >= 0 => f.n \in Nat /\ f.n < Word)
      BY <1>2, <1>5, <2>2 DEF Item
    <2>4. QED
      BY <2>1, <2>3
  <1>6. QED
    BY <1>2, <1>4, <1>5

LEMMA SizeBeginKeeps == CodecInv /\ SizeBegin => CodecInv'
  <1> SUFFICES ASSUME CodecInv, SizeBegin PROVE CodecInv'
    OBVIOUS
  <1>1. /\ pass = "size" /\ visits # <<>> /\ success /\ rest = Idle
        /\ Head(visits).kind \in {"varint", "end"}
        /\ rest' = IF Head(visits).kind = "end" THEN size ELSE Head(visits).n
        /\ count' = 0 /\ visits' = visits
        /\ packet' = packet /\ pass' = pass
        /\ UNCHANGED sizeVars /\ UNCHANGED <<data, at, got>>
    BY DEF SizeBegin, Visiting
  <1>2. PICK k \in 0..(Count(packet) + 1) : SizeAt(k)
    BY <1>1 DEF CodecInv, SizeInv
  <1> DEFINE v == Sought(k)
  <1>3. /\ Head(visits).kind = "end" <=> k = Count(packet)
        /\ rest' = v /\ v \in Int32 /\ v \in Int /\ (v >= 0 => v \in Nat /\ v < Word)
    BY <1>1, <1>2, SoughtIs
  <1>4. k <= Count(packet) /\ Counted(packet)[k + 1] = Head(visits)
    <2>1. SizeNext(k)
      BY <1>1, <1>2, SizeVisit
    <2>2. QED
      BY <1>1, <2>1 DEF SizeNext
  <1>5. Counting(v)'
    <2>1. v' = v
      BY <1>1 DEF Sought, sizeVars
    <2>2. v >= 0 => 0 < Segs(v) /\ v \div Power(Base, 0) = v /\ 0 \in Nat
      <3> SUFFICES ASSUME v >= 0 PROVE 0 < Segs(v) /\ v \div Power(Base, 0) = v
        OBVIOUS
      <3>1. v \in Nat /\ v < Word
        BY <1>3
      <3> HIDE DEF v
      <3>2. Segs(v) \in 1..Segments /\ Segments \in Nat
        BY <3>1, SegsIs, WidthAssumption
      <3>3. Power(Base, 0) = 1
        BY BaseIs, PowerIs
      <3>4. QED
        BY <3>1, <3>2, <3>3
    <2> HIDE DEF v
    <2>3. QED
      BY <1>1, <1>3, <2>1, <2>2 DEF Counting
  <1>6. SizeAt(k)'
    BY <1>1, <1>2, <1>4, <1>5 DEF SizeAt, sizeVars, Sized
  <1>7. 0 \in 0..(Word - 1)
    BY WordIs
  <1>8. QED
    BY <1>1, <1>2, <1>3, <1>6, <1>7, StillSizing DEF CodecInv, TypeOK, sizeVars

(* What is negative stays so however often it is divided.                  *)
LEMMA NegativeStays ==
  ASSUME NEW a \in Int32, a < 0
  PROVE  a \div Base \in Int32 /\ a \div Base < 0
  <1> DEFINE h == Word \div 2
             b == Base
             q == a \div b
             r == a % b
             p == b * q
  <1>1. h \in Nat /\ b \in Nat \ {0}
    BY WordIs, BaseIs
  <1>2. a \in -h .. h - 1
    BY DEF Int32
  <1> HIDE DEF h, b
  <1>3. a \in Int /\ q \in Int /\ r \in 0..(b - 1) /\ a = p + r
    BY <1>1, <1>2
  <1> HIDE DEF q, r
  <1>4. q < 0
    <2> SUFFICES ASSUME q >= 0 PROVE FALSE
      BY <1>3
    <2>1. p >= 0 /\ p \in Int
      BY <1>1, <1>3
    <2> HIDE DEF p
    <2>2. QED
      BY <1>1, <1>3, <2>1
  <1>5. q >= a
    <2> DEFINE c == q + 1
               d == b * c
    <2>1. c <= 0 /\ c \in Int
      BY <1>3, <1>4
    <2>2. d \in Int /\ d <= c
      <3> HIDE DEF c
      <3>1. QED
        BY <1>1, <2>1
    <2>3. d = p + b /\ p \in Int
      BY <1>1, <1>3
    <2> HIDE DEF p, d
    <2>4. QED
      BY <1>1, <1>3, <2>2, <2>3
  <1>6. q \in -h .. h - 1
    BY <1>1, <1>2, <1>3, <1>4, <1>5
  <1>7. QED
    BY <1>4, <1>6 DEF Int32, h, q, b

LEMMA SizeVarIntKeeps == CodecInv /\ SizeVarInt => CodecInv'
  <1> SUFFICES ASSUME CodecInv, SizeVarInt PROVE CodecInv'
    OBVIOUS
  <1> DEFINE last == rest \in 0..(Base - 1)
  <1>1. /\ pass = "size" /\ visits # <<>> /\ rest # Idle
        /\ Head(visits).kind \in {"varint", "end"}
        /\ UNCHANGED <<packetSize, success, data, at, got>>
        /\ packet' = packet /\ pass' = pass
    BY DEF SizeVarInt, SizeLoop, Visiting, Done
  <1>2. last => /\ size' = size + count + 1 /\ rest' = Idle /\ count' = 0
                /\ lengthSize' = IF Head(visits).kind = "end" THEN count + 1 ELSE lengthSize
                /\ visits' = Tail(visits)
    BY DEF SizeVarInt, SizeLoop, Done
  <1>3. ~last => /\ rest' = rest \div Base /\ count' = (count + 1) % Word
                 /\ UNCHANGED <<visits, size, lengthSize>>
    BY DEF SizeVarInt, SizeLoop
  <1>4. PICK k \in 0..(Count(packet) + 1) : SizeAt(k)
    BY <1>1 DEF CodecInv, SizeInv
  <1> DEFINE v == Sought(k)
             n == Count(packet)
  <1>5. success /\ k <= n /\ Counting(v) /\ Counted(packet)[k + 1].kind \in {"varint", "end"}
    BY <1>1, <1>4 DEF SizeAt
  <1>6. /\ Head(visits).kind = "end" <=> k = n
        /\ v = IF Head(visits).kind = "end" THEN size ELSE Head(visits).n
        /\ v \in Int32 /\ v \in Int /\ (v >= 0 => v \in Nat /\ v < Word)
    BY <1>1, <1>4, <1>5, SoughtIs
  <1>7. /\ k + 1 \in 0..(n + 1) /\ Tail(visits) = SubSeq(Counted(packet), (k + 1) + 1, n + 1)
        /\ k < n => Head(visits) = Items(packet)[k + 1] /\ Item(Head(visits)) /\ k + 1 \in 1..n
        /\ n \in Nat /\ packet \in Packet /\ k \in Nat
    <2>1. SizeNext(k)
      BY <1>1, <1>4, SizeVisit
    <2>2. QED
      BY <1>1, <2>1 DEF SizeNext
  <1>8. /\ rest \in Int32 \cup 0..Word /\ count \in 0..(Word - 1) /\ size \in Nat
        /\ lengthSize \in 0..Segments /\ success \in BOOLEAN
    BY DEF CodecInv, TypeOK
  <1>9. Word \in Nat /\ Word > 0 /\ Base \in Nat \ {0} /\ Segments \in Nat /\ Segments < Word - 1
    <2> DEFINE h == Word \div 2
    <2>1. /\ h \in Nat /\ Word \in Nat /\ 2 * h <= Word /\ 4 * Segments + 2 * MaxLen + 16 < h
          /\ Segments \in Nat /\ MaxLen \in Nat
      BY WordIs, WidthAssumption, LengthAssumption
    <2> HIDE DEF h
    <2>2. QED
      BY <2>1, BaseIs
  <1>10. CASE ~(v >= 0)
    <2>1. rest \in Int32 /\ rest < 0 /\ ~last
      BY <1>5, <1>6, <1>10 DEF Counting
    <2>2. rest' \in Int32 /\ rest' < 0
      BY <1>3, <2>1, NegativeStays
    <2>3. v' = v
      BY <1>1, <1>3, <2>1 DEF Sought
    <2>4. Counting(v)'
      BY <1>6, <1>10, <2>2, <2>3 DEF Counting
    <2>5. SizeAt(k)'
      BY <1>1, <1>3, <1>4, <1>5, <2>1, <2>4 DEF SizeAt, Sized
    <2>6. count' \in 0..(Word - 1)
      BY <1>3, <1>8, <1>9, <2>1
    <2>7. QED
      BY <1>1, <1>3, <1>8, <2>1, <2>2, <2>5, <2>6, StillSizing
  <1>11. CASE v >= 0
    <2>1. v \in Nat /\ v < Word /\ count \in Nat /\ count < Segs(v) /\ rest = v \div Power(Base, count)
      BY <1>5, <1>6, <1>11 DEF Counting
    <2>2. Segs(v) \in 1..Segments /\ Round(v, count)
      BY <2>1, SegsIs, RoundIs
    <2> HIDE DEF v
    <2>3. rest \in Nat /\ (last <=> count + 1 = Segs(v))
      BY <1>9, <2>1, <2>2 DEF Round
    <2> HIDE DEF last
    <2>4. CASE count + 1 = Segs(v)
      <3>1. /\ size' = size + Segs(v) /\ rest' = Idle /\ count' = 0 /\ visits' = Tail(visits)
            /\ lengthSize' = IF k = n THEN Segs(v) ELSE lengthSize
        BY <1>2, <1>6, <1>8, <2>1, <2>3, <2>4
      <3>2. Segs(v) \in Nat /\ Segs(v) \in 0..Segments
        BY <2>2, <1>9
      <3>3. SizeAt(k + 1)'
        <4>1. CASE k = n
          <5>1. v = size /\ size = Payload(packet) /\ AllPass(packet, n)
            BY <1>4, <1>5, <1>6, <4>1 DEF SizeAt, Payload
          <5>2. AllPass(packet, k + 1) /\ ~(k + 1 <= n) /\ k + 1 > n
            BY <1>7, <4>1, <5>1 DEF AllPass
          <5>3. Sized'
            BY <1>1, <3>1, <4>1, <5>1 DEF Sized
          <5>4. QED
            BY <1>1, <1>5, <1>7, <3>1, <5>2, <5>3 DEF SizeAt
        <4>2. CASE k < n
          <5>1. /\ Head(visits).kind = "varint" /\ k # n /\ v = Items(packet)[k + 1].n
                /\ Items(packet)[k + 1].kind = "varint"
            BY <1>1, <1>6, <1>7, <4>2 DEF v, Sought
          <5>2. Bytes(Items(packet)[k + 1]) = VarIntBytes(v)
            BY <1>7, <1>11, <4>2, <5>1 DEF Item
          <5>3. Passes(Items(packet)[k + 1])
            BY <1>11, <5>1 DEF Passes
          <5>4. AllPass(packet, k + 1)
            <6>1. \A i \in 1..n : i <= k + 1 => i <= k \/ i = k + 1
              BY <1>7
            <6>2. AllPass(packet, k)
              BY <1>4, <1>5 DEF SizeAt
            <6>3. QED
              BY <5>3, <6>1, <6>2 DEF AllPass
          <5>5. lengthSize = 0 /\ size = Len(Flat(packet)[k])
            BY <1>4, <1>5 DEF SizeAt
          <5>6. Len(Flat(packet)[k + 1]) = size + Segs(v)
            <6> DEFINE a == Flat(packet)[k]
                       b == VarIntBytes(v)
            <6>1. (k + 1) - 1 = k /\ k + 1 \in 1..n /\ k \in 0..n
              BY <1>7, <4>2
            <6>2. Flat(packet)[k + 1] = a \o b /\ a \in Seq(Byte) /\ b \in Seq(Byte)
              BY <1>7, <5>2, <6>1, FlatIs
            <6>3. Len(b) = Segs(v)
              BY <2>1, VarIntBytesAre
            <6>4. Len(a \o b) = Len(a) + Len(b)
              BY <6>2, ConcatProperties
            <6>5. QED
              BY <5>5, <6>2, <6>3, <6>4
          <5>7. k + 1 <= n /\ ~(k + 1 > n)
            BY <1>7, <4>2
          <5>8. QED
            BY <1>1, <1>5, <1>7, <3>1, <5>1, <5>4, <5>5, <5>6, <5>7 DEF SizeAt
        <4>3. QED
          BY <1>5, <1>7, <4>1, <4>2
      <3>4. size' \in Nat /\ lengthSize' \in 0..Segments /\ rest' \in Int32 \cup 0..Word /\ count' \in 0..(Word - 1)
        BY <1>8, <1>9, <3>1, <3>2 DEF Idle
      <3>5. QED
        BY <1>1, <1>7, <1>8, <3>3, <3>4, StillSizing
    <2>5. CASE count + 1 # Segs(v)
      <3>1. rest' = rest \div Base /\ count' = (count + 1) % Word /\ UNCHANGED <<visits, size, lengthSize>>
        BY <1>3, <2>3, <2>5
      <3>2. count + 1 \in Nat /\ count + 1 < Segs(v) /\ count + 1 < Word
        BY <1>9, <2>1, <2>2, <2>5
      <3>3. count' = count + 1
        <4> DEFINE c == count + 1
                   w == Word
        <4>1. c = w * 0 + c /\ c \in 0..(w - 1) /\ w \in Nat \ {0} /\ c \in Nat
          BY <1>9, <3>2
        <4> HIDE DEF c, w
        <4>2. c % w = c
          BY <4>1, DivisionUnique
        <4>3. QED
          BY <3>1, <4>2 DEF c, w
      <3>4. rest' = v \div Power(Base, count')
        BY <2>1, <2>2, <3>1, <3>3 DEF Round
      <3>5. v' = v
        BY <1>1, <3>1 DEF v, Sought
      <3>6. Counting(v)'
        BY <1>11, <2>1, <3>2, <3>3, <3>4, <3>5 DEF Counting
      <3>7. SizeAt(k)'
        BY <1>1, <1>4, <1>5, <3>1, <3>6 DEF SizeAt, Sized, v
      <3>8. rest' \in 0..Word
        <4>1. Round(v, count)
          BY <2>2
        <4>2. rest \div Base \in Nat /\ rest <= v
          BY <2>1, <4>1 DEF Round
        <4>3. Round(v, count + 1)
          BY <2>1, <3>2, RoundIs
        <4>4. v \div Power(Base, count + 1) \in Nat /\ v \div Power(Base, count + 1) <= v
          BY <4>3 DEF Round
        <4>5. QED
          BY <1>9, <2>1, <3>3, <3>4, <4>4
      <3>9. count' \in 0..(Word - 1)
        BY <1>9, <3>2, <3>3
      <3>10. QED
        BY <1>1, <1>8, <3>1, <3>7, <3>8, <3>9, StillSizing
    <2>6. QED
      BY <2>4, <2>5
  <1>12. QED
    BY <1>10, <1>11

(* The size after one more item that every visitor gets through.           *)
LEMMA ItemCounted ==
  ASSUME NEW p \in Packet, NEW k \in Nat, k < Count(p), AllPass(p, k),
         Passes(Items(p)[k + 1]), Items(p)[k + 1].kind # "varint"
  PROVE  AllPass(p, k + 1) /\ Len(Flat(p)[k + 1]) = Len(Flat(p)[k]) + Items(p)[k + 1].n
  <1> DEFINE n == Count(p)
             f == Items(p)[k + 1]
             a == Flat(p)[k]
             b == Bytes(f)
  <1>1. (k + 1) - 1 = k /\ k + 1 \in 1..n /\ k \in 0..n /\ n \in Nat
    BY ItemsAre
  <1>2. AllPass(p, k + 1)
    <2>1. \A i \in 1..n : i <= k + 1 => i <= k \/ i = k + 1
      BY <1>1
    <2>2. QED
      BY <2>1 DEF AllPass
  <1>3. Flat(p)[k + 1] = a \o b /\ a \in Seq(Byte) /\ b \in Seq(Byte)
    BY <1>1, FlatIs
  <1>4. Len(b) = f.n
    BY <1>1, ItemIs DEF Item
  <1> HIDE DEF a, b
  <1>5. Len(a \o b) = Len(a) + Len(b)
    BY <1>3, ConcatProperties
  <1>6. QED
    BY <1>2, <1>3, <1>4, <1>5 DEF a

LEMMA SizeBodyKeeps == CodecInv /\ SizeBody => CodecInv'
  <1> SUFFICES ASSUME CodecInv, SizeBody PROVE CodecInv'
    OBVIOUS
  <1> DEFINE f == Head(visits)
             n == Count(packet)
  <1>1. /\ pass = "size" /\ visits # <<>> /\ f.kind = "body" /\ success
        /\ packet' = packet /\ pass' = pass /\ visits' = Tail(visits)
        /\ UNCHANGED <<rest, count, lengthSize, packetSize, data, at, got>>
    BY DEF SizeBody, SizeLimit, Visiting, Done
  <1>2. IF f.n > f.max THEN success' = FALSE /\ size' = size
        ELSE size' = size + f.n /\ success' = success
    BY DEF SizeBody, SizeLimit
  <1>3. PICK k \in 0..(n + 1) : SizeAt(k)
    BY <1>1 DEF CodecInv, SizeInv
  <1>4. SizeNext(k)
    BY <1>1, <1>3, SizeVisit
  <1>5. /\ k + 1 \in 0..(n + 1) /\ visits' = SubSeq(Counted(packet), (k + 1) + 1, n + 1)
        /\ n \in Nat /\ packet \in Packet /\ f = Counted(packet)[k + 1] /\ k \in Nat
    BY <1>1, <1>4 DEF SizeNext
  <1>6. k < n /\ k + 1 \in 1..n /\ f = Items(packet)[k + 1] /\ Item(f) /\ k > 0
    <2>1. k # n
      BY <1>1, <1>4 DEF SizeNext, Visit
    <2>2. QED
      BY <1>1, <1>4, <2>1 DEF SizeNext
  <1>7. lengthSize = 0 /\ size = Len(Flat(packet)[k]) /\ AllPass(packet, k) /\ rest = Idle
    <2>1. k # 0 /\ k <= n
      BY <1>5, <1>6
    <2>2. lengthSize = 0 /\ size = Len(Flat(packet)[k]) /\ AllPass(packet, k)
      BY <1>1, <1>3, <2>1 DEF SizeAt
    <2>3. ~(Counted(packet)[k + 1].kind \in {"varint", "end"})
      BY <1>1, <1>5
    <2>4. rest = Idle
      BY <1>3, <2>3, Zenon DEF SizeAt
    <2>5. QED
      BY <2>2, <2>4
  <1>8. f.n \in Nat /\ size \in Nat /\ k + 1 <= n /\ ~(k + 1 > n)
    <2>1. f.n \in Nat
      BY <1>1, <1>6 DEF Item
    <2>2. size \in Nat
      BY <1>1 DEF CodecInv, TypeOK
    <2>3. k + 1 <= n /\ ~(k + 1 > n)
      BY <1>5, <1>6
    <2>4. QED
      BY <2>1, <2>2, <2>3
  <1>9. SizeAt(k + 1)'
    <2>1. CASE TooLong(f)
      <3>1. size' = size /\ ~success'
        BY <1>2, <2>1 DEF TooLong
      <3>2. \E i \in DOMAIN packet.fields : TooLong(packet.fields[i])
        <4>1. k \in 1..(n - 1)
          BY <1>5, <1>6
        <4>2. k \in DOMAIN packet.fields /\ packet.fields[k] = f
          BY <1>5, <1>6, <4>1, ItemsAre
        <4>3. QED
          BY <2>1, <4>2
      <3>3. QED
        BY <1>1, <1>5, <1>7, <3>1, <3>2 DEF SizeAt
    <2>2. CASE ~TooLong(f)
      <3>1. size' = size + f.n /\ success'
        BY <1>1, <1>2, <2>2 DEF TooLong
      <3>2. Passes(f)
        BY <1>1, <2>2 DEF Passes
      <3>3. AllPass(packet, k + 1) /\ Len(Flat(packet)[k + 1]) = size + f.n
        BY <1>1, <1>5, <1>6, <1>7, <3>2, ItemCounted
      <3>4. QED
        BY <1>1, <1>5, <1>7, <1>8, <3>1, <3>3 DEF SizeAt
    <2>3. QED
      BY <2>1, <2>2
  <1>10. size' \in Nat /\ success' \in BOOLEAN
    <2>1. CASE f.n > f.max
      BY <1>2, <1>8, <2>1
    <2>2. CASE ~(f.n > f.max)
      <3>1. success' = success /\ size' = size + f.n
        BY <1>2, <2>2
      <3>2. success \in BOOLEAN
        BY DEF CodecInv, TypeOK
      <3>3. QED
        BY <1>8, <3>1, <3>2
    <2>3. QED
      BY <2>1, <2>2
  <1>11. QED
    BY <1>1, <1>5, <1>9, <1>10, StillSizing DEF CodecInv, TypeOK

LEMMA SizeFixedKeeps == CodecInv /\ SizeFixed => CodecInv'
  <1> SUFFICES ASSUME CodecInv, SizeFixed PROVE CodecInv'
    OBVIOUS
  <1> DEFINE f == Head(visits)
             n == Count(packet)
  <1>1. /\ pass = "size" /\ visits # <<>> /\ f.kind \in {"fixed", "uuid"}
        /\ packet' = packet /\ pass' = pass /\ visits' = Tail(visits) /\ size' = size + f.n
        /\ UNCHANGED <<rest, count, lengthSize, success, packetSize, data, at, got>>
    BY DEF SizeFixed, Visiting, Done
  <1>2. PICK k \in 0..(n + 1) : SizeAt(k)
    BY <1>1 DEF CodecInv, SizeInv
  <1>3. SizeNext(k)
    BY <1>1, <1>2, SizeVisit
  <1>4. /\ k + 1 \in 0..(n + 1) /\ visits' = SubSeq(Counted(packet), (k + 1) + 1, n + 1)
        /\ n \in Nat /\ packet \in Packet /\ f = Counted(packet)[k + 1] /\ k \in Nat
    BY <1>1, <1>3 DEF SizeNext
  <1>5. k < n /\ k + 1 \in 1..n /\ f = Items(packet)[k + 1] /\ Item(f)
    <2>1. k # n
      BY <1>1, <1>3 DEF SizeNext, Visit
    <2>2. k <= n /\ k < n
      BY <1>1, <1>3, <1>4, <2>1 DEF SizeNext
    <2>3. QED
      BY <1>1, <1>3, <1>4, <2>2 DEF SizeNext
  <1>6. /\ rest = Idle /\ f.n \in Nat /\ size \in Nat /\ k + 1 <= n /\ ~(k + 1 > n)
        /\ f.kind # "varint" /\ f.kind # "body"
    <2>1. f.kind # "varint" /\ f.kind # "body" /\ f.kind # "end"
      BY <1>1
    <2>2. rest = Idle
      BY <1>2, <1>4, <2>1 DEF SizeAt
    <2>3. f.n \in Nat
      BY <1>5, <2>1 DEF Item
    <2>4. size \in Nat
      BY DEF CodecInv, TypeOK
    <2>5. QED
      BY <1>4, <1>5, <2>1, <2>2, <2>3, <2>4
  <1>7. Passes(f)
    <2>1. f.n <= f.max /\ f.max \in Nat
      BY <1>1, <1>4, <1>5, PacketIs DEF Serializable, Regular, Count, Item, Visited
    <2>2. QED
      BY <1>6, <2>1 DEF Passes, TooLong
  <1>8. SizeAt(k + 1)'
    <2>1. CASE success
      <3>1. lengthSize = 0 /\ size = Len(Flat(packet)[k]) /\ AllPass(packet, k)
        <4>1. k <= n
          BY <1>4, <1>5
        <4>2. QED
          BY <1>2, <2>1, <4>1 DEF SizeAt
      <3>2. AllPass(packet, k + 1) /\ Len(Flat(packet)[k + 1]) = size + f.n
        BY <1>4, <1>5, <1>6, <1>7, <3>1, ItemCounted
      <3>3. QED
        BY <1>1, <1>4, <1>6, <2>1, <3>1, <3>2 DEF SizeAt
    <2>2. CASE ~success
      BY <1>1, <1>2, <1>4, <1>6, <2>2 DEF SizeAt
    <2>3. QED
      BY <2>1, <2>2
  <1>9. size' \in Nat
    BY <1>1, <1>6
  <1>10. QED
    BY <1>1, <1>4, <1>8, <1>9, StillSizing DEF CodecInv, TypeOK

(* With all visits counted the calculation has succeeded exactly if there  *)
(* was no string that is too long, and the packet's size is its payload's. *)
LEMMA EndSizingKeeps == CodecInv /\ EndSizing => CodecInv'
  <1> SUFFICES ASSUME CodecInv, EndSizing PROVE CodecInv'
    OBVIOUS
  <1> DEFINE n == Count(packet)
             m == size - lengthSize
             V == Prefixed(packet, m)
  <1>1. /\ pass = "size" /\ visits = <<>> /\ pass' = "write" /\ packetSize' = m
        /\ visits' = PrefixedVisits(m)
        /\ UNCHANGED <<packet, rest, count, size, lengthSize, success, data, at, got>>
    BY DEF EndSizing, EndSize
  <1>2. data = <<>> /\ at = 0 /\ got = <<>>
    BY <1>1 DEF CodecInv, SizeInv
  <1>3. PICK k \in 0..(n + 1) : SizeAt(k)
    BY <1>1 DEF CodecInv, SizeInv
  <1>4. k = n + 1 /\ n \in Nat /\ packet \in Packet
    <2>1. SizeNext(k)
      BY <1>1, <1>3, SizeVisit
    <2>2. QED
      BY <1>1, <2>1 DEF SizeNext
  <1>5. ~(k <= n) /\ k > n
    BY <1>4
  <1>6. rest = Idle /\ (success => Sized)
    BY <1>3, <1>5 DEF SizeAt
  <1>7. ~success => lengthSize = 0 /\ \E i \in DOMAIN packet.fields : TooLong(packet.fields[i])
    BY <1>3 DEF SizeAt
  <1>8. size \in Nat /\ lengthSize \in Nat /\ m \in 0..size /\ (success => m = Payload(packet))
    <2>1. size \in Nat /\ lengthSize \in 0..Segments /\ Segments \in Nat /\ Payload(packet) \in Nat
      BY <1>4, FlatIs, WidthAssumption DEF CodecInv, TypeOK
    <2>2. CASE success
      <3>1. size = Payload(packet) + lengthSize
        BY <1>6, <2>2 DEF Sized
      <3>2. QED
        BY <2>1, <3>1
    <2>3. CASE ~success
      BY <1>7, <2>1, <2>3
    <2>4. QED
      BY <2>2, <2>3
  <1>9. /\ visits' = V /\ V \in Seq(Visited) /\ Len(V) = n + 1
    <2>1. m \in Int
      BY <1>8
    <2>2. QED
      BY <1>1, <1>4, <2>1, VisitsAre, PrefixedIs
  <1>10. WriteAt(0)'
    <2>1. visits' = SubSeq(V, 0 + 1, n + 1)
      <3> HIDE DEF V, n
      <3>1. SubSeq(V, 1, n + 1) = V
        BY <1>9, SubSeqFull
      <3>2. 0 + 1 = 1
        OBVIOUS
      <3>3. QED
        BY <1>9, <3>1, <3>2
    <2>2. data' = Stream(packet', 0)
      BY <1>1, <1>2 DEF Stream
    <2>3. rest' = Idle
      BY <1>1, <1>6
    <2>4. QED
      BY <1>1, <2>1, <2>2, <2>3 DEF WriteAt
  <1>11. WriteInv'
    <2>1. rest' >= 0
      BY <1>1, <1>6, WordIs DEF Idle
    <2>2. success' => Sized' /\ packetSize' = Payload(packet')
      BY <1>1, <1>6, <1>8 DEF Sized
    <2>3. 0 \in 0..(n + 1)
      BY <1>4
    <2>4. QED
      BY <1>1, <1>2, <1>10, <2>1, <2>2, <2>3 DEF WriteInv
  <1>12. FailsIfTooLong'
    <2>1. success => \A i \in DOMAIN packet.fields : ~TooLong(packet.fields[i])
      BY <1>4, <1>6, NoneTooLong DEF Sized
    <2>2. QED
      BY <1>1, <1>7, <2>1 DEF FailsIfTooLong
  <1>13. TypeOK'
    BY <1>1, <1>8 DEF CodecInv, TypeOK
  <1>14. QED
    BY <1>1, <1>4, <1>11, <1>12, <1>13 DEF CodecInv, SizeInv, ReadInv, DoneInv

(***************************************************************************)
(* The stream that is written and read.                                    *)
(***************************************************************************)

(* The packet's size is visited like any item.                             *)
LEMMA SizeItem ==
  ASSUME NEW p \in Packet
  PROVE  /\ Item(VarInt(Payload(p))) /\ Passes(VarInt(Payload(p))) /\ ~TooLong(VarInt(Payload(p)))
         /\ Bytes(VarInt(Payload(p))) = VarIntBytes(Payload(p))
  <1> DEFINE m == Payload(p)
             f == VarInt(m)
             w == Word
             h == w \div 2
  <1>1. m \in Nat /\ m < h
    BY FlatIs
  <1>2. w \in Nat /\ h \in Nat /\ 2 * h <= w
    BY WordIs
  <1>3. f.kind = "varint" /\ f.n = m /\ f.max = w
    BY DEF VarInt, Visit
  <1>4. f \in Visited
    BY <1>1, <1>2 DEF VarInt, Visit, Visited
  <1>5. Bytes(f) = VarIntBytes(m % w)
    BY <1>3 DEF Bytes
  <1>6. Bytes(f) \in Seq(Byte)
    BY <1>3, <1>4, BytesAre
  <1>7. Len(Bytes(f)) \in Nat
    BY <1>6, LenProperties
  <1>8. m \in Int32
    <2> HIDE DEF h, m
    <2>1. m \in -h .. h - 1
      BY <1>1, <1>2
    <2>2. QED
      BY <2>1 DEF Int32, h
  <1> HIDE DEF m, f, h
  <1>9. m < w /\ m % w = m /\ m >= 0 /\ ~(m > w)
    <2> HIDE DEF w
    <2>1. m < w /\ m = w * 0 + m /\ m \in 0..(w - 1) /\ w \in Nat \ {0} /\ m >= 0 /\ ~(m > w)
      BY <1>1, <1>2
    <2>2. m % w = m
      BY <1>1, <2>1, DivisionUnique
    <2>3. QED
      BY <2>1, <2>2
  <1>10. Item(f)
    BY <1>1, <1>3, <1>4, <1>5, <1>6, <1>7, <1>8, <1>9 DEF Item
  <1>11. Passes(f) /\ ~TooLong(f)
    BY <1>3, <1>9 DEF Passes, TooLong
  <1>12. QED
    BY <1>5, <1>9, <1>10, <1>11 DEF m, f

(* If every item gets through so does every visit.                         *)
LEMMA PrefixedItem ==
  ASSUME NEW p \in Packet, AllPass(p, Count(p)), NEW k \in 0..Count(p)
  PROVE  LET f == Prefixed(p, Payload(p))[k + 1]
         IN Item(f) /\ Passes(f) /\ ~TooLong(f)
  <1> DEFINE V == Prefixed(p, Payload(p))
             n == Count(p)
  <1>1. /\ n \in Nat /\ V[1] = VarInt(Payload(p))
        /\ \A i \in 1..n : V[i + 1] = Items(p)[i]
    <2>1. Payload(p) \in Nat
      BY FlatIs
    <2>2. QED
      BY <2>1, PrefixedIs, ItemsAre
  <1>2. CASE k = 0
    BY <1>1, <1>2, SizeItem
  <1>3. CASE k # 0
    <2>1. k \in 1..n /\ k <= n
      BY <1>1, <1>3
    <2>2. V[k + 1] = Items(p)[k]
      BY <1>1, <2>1
    <2>3. Item(Items(p)[k]) /\ ~TooLong(Items(p)[k])
      BY <2>1, ItemIs, NoneTooLong
    <2>4. Passes(Items(p)[k])
      BY <2>1 DEF AllPass
    <2>5. QED
      BY <2>2, <2>3, <2>4
  <1>4. QED
    BY <1>2, <1>3

(* With each visit the stream grows by its bytes.                          *)
Grows(p, k) ==
    LET b == Bytes(Prefixed(p, Payload(p))[k + 1])
    IN /\ Stream(p, k) \in Seq(Byte) /\ b \in Seq(Byte) /\ Stream(p, k + 1) \in Seq(Byte)
       /\ Stream(p, k + 1) = Stream(p, k) \o b
       /\ Len(Stream(p, k)) \in Nat /\ Len(b) \in Nat
       /\ Len(Stream(p, k + 1)) = Len(Stream(p, k)) + Len(b)

LEMMA StreamGrows ==
  ASSUME NEW p \in Packet, NEW k \in 0..Count(p)
  PROVE  Grows(p, k)
  <1> DEFINE n == Count(p)
             V == Prefixed(p, Payload(p))
             b == Bytes(V[k + 1])
             c == VarIntBytes(Payload(p))
             s == Stream(p, k)
             t == Stream(p, k + 1)
  <1>1. /\ n \in Nat /\ V[1] = VarInt(Payload(p)) /\ Payload(p) \in Nat
        /\ \A i \in 1..n : V[i + 1] = Items(p)[i]
    <2>1. Payload(p) \in Nat
      BY FlatIs
    <2>2. QED
      BY <2>1, PrefixedIs, ItemsAre
  <1>2. c \in Seq(Byte)
    BY SizeItem DEF Item
  <1>3. s \in Seq(Byte) /\ b \in Seq(Byte) /\ t = s \o b
    <2>1. CASE k = 0
      <3>1. s = <<>> /\ b = c
        BY <1>1, <2>1, SizeItem DEF Stream
      <3>2. t = c \o Flat(p)[0] /\ Flat(p)[0] = <<>>
        <4>1. k + 1 # 0 /\ (k + 1) - 1 = 0
          BY <2>1
        <4>2. t = c \o Flat(p)[0]
          BY <4>1 DEF Stream
        <4>3. QED
          BY <4>2, FlatIs
      <3> HIDE DEF s, b, c, t
      <3>3. c \o <<>> = c /\ <<>> \o c = c
        BY <1>2, ConcatEmptySeq
      <3>4. QED
        BY <1>2, <3>1, <3>2, <3>3, EmptySeq
    <2>2. CASE k # 0
      <3>1. k \in 1..n /\ k - 1 \in 0..n /\ k + 1 # 0 /\ (k + 1) - 1 = k
        BY <1>1, <2>2
      <3> DEFINE a == Flat(p)[k - 1]
      <3>2. /\ a \in Seq(Byte) /\ b \in Seq(Byte) /\ Flat(p)[k] = a \o b
        BY <1>1, <3>1, FlatIs
      <3>3. s = c \o a /\ t = c \o Flat(p)[k]
        BY <2>2, <3>1 DEF Stream
      <3> HIDE DEF a, b, c, s, t
      <3>4. (c \o a) \o b = c \o (a \o b)
        <4>1. c \in Seq(Byte) /\ a \in Seq(Byte) /\ b \in Seq(Byte)
          BY <1>2, <3>2
        <4>2. QED
          BY <4>1, ConcatAssociative
      <3>5. c \o a \in Seq(Byte)
        BY <1>2, <3>2, ConcatProperties
      <3>6. t = c \o (a \o b) /\ s \o b = (c \o a) \o b
        BY <3>2, <3>3, Zenon
      <3>7. QED
        BY <3>2, <3>3, <3>4, <3>5, <3>6, Zenon
    <2>3. QED
      BY <2>1, <2>2
  <1> HIDE DEF s, t, b
  <1>4. s \o b \in Seq(Byte) /\ Len(s \o b) = Len(s) + Len(b)
    BY <1>3, ConcatProperties
  <1>5. Len(s) \in Nat /\ Len(b) \in Nat
    BY <1>3, LenProperties
  <1>6. QED
    BY <1>3, <1>4, <1>5 DEF Grows, s, t, b

(* All of it is as long as was computed, and no part is longer.            *)
LEMMA StreamLength ==
  ASSUME NEW p \in Packet
  PROVE  /\ Len(Stream(p, Count(p) + 1)) = Segs(Payload(p)) + Payload(p)
         /\ \A k \in 0..(Count(p) + 1) :
              Len(Stream(p, k)) \in Nat /\ Len(Stream(p, k)) <= Len(Stream(p, Count(p) + 1))
  <1> DEFINE n == Count(p)
             m == Payload(p)
             b == VarIntBytes(m)
             c == Flat(p)[n]
             L(k) == Len(Stream(p, k))
  <1>1. n \in Nat /\ \A k \in 0..n : Grows(p, k)
    BY ItemsAre, StreamGrows
  <1>2. L(n + 1) = Segs(m) + m
    <2>1. n + 1 # 0 /\ (n + 1) - 1 = n /\ n \in 0..n
      BY <1>1
    <2>2. m \in Nat /\ m < Word
      <3>1. m \in Nat /\ m < Word \div 2
        BY FlatIs
      <3>2. Word \in Nat /\ Word \div 2 \in Nat /\ 2 * (Word \div 2) <= Word
        BY WordIs
      <3> HIDE DEF m
      <3>3. QED
        BY <3>1, <3>2
    <2>3. b \in Seq(Byte) /\ Len(b) = Segs(m)
      BY <2>2, VarIntBytesAre DEF Byte
    <2>4. c \in Seq(Byte) /\ Len(c) = m
      BY <2>1, FlatIs DEF Payload
    <2>5. Stream(p, n + 1) = b \o c
      BY <2>1 DEF Stream
    <2> HIDE DEF b, c, m
    <2>6. Len(b \o c) = Len(b) + Len(c)
      BY <2>3, <2>4, ConcatProperties
    <2>7. QED
      BY <2>3, <2>4, <2>5, <2>6
  <1>3. \A k \in 0..n : L(k) \in Nat /\ L(k + 1) \in Nat /\ L(k) <= L(k + 1)
    <2> SUFFICES ASSUME NEW k \in 0..n PROVE L(k) \in Nat /\ L(k + 1) \in Nat /\ L(k) <= L(k + 1)
      OBVIOUS
    <2> DEFINE d == Len(Bytes(Prefixed(p, Payload(p))[k + 1]))
    <2>1. L(k) \in Nat /\ d \in Nat /\ L(k + 1) = L(k) + d
      BY <1>1 DEF Grows
    <2> HIDE DEF d, L
    <2>2. QED
      BY <2>1
  <1> HIDE DEF L, n
  <1> DEFINE S == {d \in Nat : \A k \in 0..(n + 1) : k + d = n + 1 => L(k) <= L(n + 1)}
  <1>4. L(n + 1) \in Nat
    BY <1>1, <1>3
  <1>5. 0 \in S
    <2>1. \A k \in 0..(n + 1) : k + 0 = n + 1 => L(k) <= L(n + 1)
      BY <1>1, <1>4
    <2>2. QED
      BY <2>1
  <1>6. ASSUME NEW d \in Nat, d \in S PROVE d + 1 \in S
    <2> SUFFICES ASSUME NEW k \in 0..(n + 1), k + (d + 1) = n + 1 PROVE L(k) <= L(n + 1)
      OBVIOUS
    <2>1. k \in 0..n /\ k + 1 \in 0..(n + 1) /\ (k + 1) + d = n + 1
      BY <1>1
    <2>2. L(k + 1) <= L(n + 1)
      BY <1>6, <2>1
    <2>3. QED
      BY <1>3, <1>4, <2>1, <2>2
  <1>7. \A d \in Nat : d \in S
    <2> HIDE DEF S
    <2>1. QED
      BY <1>5, <1>6, SetInduction
  <1>8. ASSUME NEW k \in 0..(n + 1) PROVE L(k) \in Nat /\ L(k) <= L(n + 1)
    <2>1. (n + 1) - k \in Nat /\ k + ((n + 1) - k) = n + 1
      BY <1>1
    <2>2. L(k) <= L(n + 1)
      BY <1>7, <2>1
    <2>3. L(k) \in Nat
      BY <1>1, <1>3, <1>4
    <2>4. QED
      BY <2>2, <2>3
  <1>9. QED
    BY <1>2, <1>8 DEF L, n

(***************************************************************************)
(* CPacketWriter.                                                          *)
(***************************************************************************)

(* What a step within the writer has to keep.                              *)
LEMMA StillWriting ==
  ASSUME CodecInv, pass = "write", packet' = packet, pass' = pass,
         UNCHANGED sizeVars, UNCHANGED <<count, at, got>>,
         rest' \in 0..Word, data' \in Seq(Byte),
         NEW k \in 0..(Count(packet) + 1), WriteAt(k)'
  PROVE  CodecInv'
  <1>1. at = 0 /\ got = <<>>
    BY DEF CodecInv, WriteInv
  <1>2. TypeOK'
    <2>1. at' \in 0..Len(data')
      BY <1>1, LenProperties
    <2>2. QED
      BY <2>1 DEF CodecInv, TypeOK, sizeVars, Byte
  <1>3. rest' >= 0
    BY WordIs
  <1>4. success' => Sized' /\ packetSize' = Payload(packet')
    BY DEF CodecInv, WriteInv, Sized, sizeVars
  <1>5. WriteInv'
    BY <1>1, <1>3, <1>4 DEF WriteInv
  <1>6. FailsIfTooLong'
    BY DEF CodecInv, FailsIfTooLong, sizeVars
  <1>7. QED
    BY <1>2, <1>5, <1>6 DEF CodecInv, SizeInv, ReadInv, DoneInv

(* Where the writer is, and what it visits next.                           *)
WriteNext(k) ==
    LET V == Prefixed(packet, packetSize)
        n == Count(packet)
    IN /\ n \in Nat \ {0} /\ packet \in Packet
       /\ visits = <<>> => k = n + 1
       /\ visits # <<>> =>
            /\ k <= n /\ k + 1 \in 0..(n + 1) /\ Head(visits) = V[k + 1]
            /\ Tail(visits) = SubSeq(V, (k + 1) + 1, n + 1)
            /\ k = 0 => V[k + 1] = VarInt(packetSize)
            /\ k > 0 => k \in 1..n /\ V[k + 1] = Items(packet)[k] /\ Item(V[k + 1])

LEMMA WriteVisit ==
  ASSUME CodecInv, pass = "write", NEW k \in 0..(Count(packet) + 1), WriteAt(k)
  PROVE  WriteNext(k)
  <1> DEFINE V == Prefixed(packet, packetSize)
             n == Count(packet)
  <1>1. n \in Nat \ {0} /\ packet \in Packet
    BY ItemsAre DEF CodecInv
  <1>2. packetSize \in Int
    BY DEF CodecInv, TypeOK
  <1>3. /\ V \in Seq(Visited) /\ Len(V) = n + 1 /\ V[1] = VarInt(packetSize)
        /\ \A i \in 1..n : V[i + 1] = Items(packet)[i]
    BY <1>1, <1>2, PrefixedIs
  <1>4. visits = SubSeq(V, k + 1, Len(V))
    BY <1>3 DEF WriteAt
  <1>5. \A i \in 1..n : Item(Items(packet)[i])
    BY <1>1, ItemIs
  <1>6. k \in 0..(n + 1)
    OBVIOUS
  <1> HIDE DEF V, n
  <1>7. Left(V, k, visits)
    <2>1. k \in Nat /\ k <= Len(V)
      BY <1>1, <1>3, <1>6
    <2>2. QED
      BY <1>3, <1>4, <2>1, LeftIs
  <1>8. visits = <<>> => k = n + 1
    BY <1>3, <1>7 DEF Left
  <1>9. ASSUME visits # <<>>
        PROVE  /\ k <= n /\ k + 1 \in 0..(n + 1) /\ Head(visits) = V[k + 1]
               /\ Tail(visits) = SubSeq(V, (k + 1) + 1, n + 1)
    <2>1. k # n + 1 /\ k + 2 = (k + 1) + 1
      BY <1>3, <1>6, <1>7, <1>9 DEF Left
    <2>2. k <= n /\ k + 1 \in 0..(n + 1) /\ k < Len(V)
      BY <1>1, <1>3, <1>6, <2>1
    <2>3. QED
      BY <1>3, <1>7, <2>1, <2>2 DEF Left
  <1>10. k = 0 => V[k + 1] = VarInt(packetSize)
    BY <1>3
  <1>11. ASSUME k > 0, k <= n
         PROVE  k \in 1..n /\ V[k + 1] = Items(packet)[k] /\ Item(V[k + 1])
    BY <1>1, <1>3, <1>5, <1>6, <1>11
  <1>12. QED
    BY <1>1, <1>8, <1>9, <1>10, <1>11 DEF V, n, WriteNext

(* Unless a string was too long every visit gets through the writer.       *)
WriteItem(k) ==
    LET f == Head(visits)
    IN /\ Sized /\ packetSize = Payload(packet) /\ k \in 0..Count(packet)
       /\ f = Prefixed(packet, Payload(packet))[k + 1]
       /\ Item(f) /\ Passes(f) /\ ~TooLong(f) /\ Grows(packet, k)
       /\ Stream(packet, k + 1) = Stream(packet, k) \o Bytes(f)

LEMMA WriteItemIs ==
  ASSUME CodecInv, pass = "write", success, visits # <<>>,
         NEW k \in 0..(Count(packet) + 1), WriteAt(k)
  PROVE  WriteItem(k)
  <1>1. Sized /\ packetSize = Payload(packet)
    BY DEF CodecInv, WriteInv
  <1>2. WriteNext(k)
    BY WriteVisit
  <1>3. /\ Count(packet) \in Nat /\ k <= Count(packet) /\ packet \in Packet
        /\ Head(visits) = Prefixed(packet, Payload(packet))[k + 1]
    BY <1>1, <1>2 DEF WriteNext
  <1>4. k \in 0..Count(packet)
    BY <1>3
  <1>5. Item(Head(visits)) /\ Passes(Head(visits)) /\ ~TooLong(Head(visits))
    BY <1>1, <1>3, <1>4, PrefixedItem DEF Sized
  <1>6. Grows(packet, k)
    BY <1>3, <1>4, StreamGrows
  <1>7. Stream(packet, k + 1) = Stream(packet, k) \o Bytes(Head(visits))
    BY <1>3, <1>6 DEF Grows
  <1>8. QED
    BY <1>1, <1>3, <1>4, <1>5, <1>6, <1>7 DEF WriteItem

(* What is visited is an integer or a number of bytes in any case.         *)
LEMMA WriteVisited ==
  ASSUME CodecInv, pass = "write", visits # <<>>,
         NEW k \in 0..(Count(packet) + 1), WriteAt(k)
  PROVE  /\ Head(visits).n \in Int
         /\ Head(visits).kind # "varint" =>
              Head(visits).n \in Nat /\ Content(Head(visits).n) \in Seq(Byte)
  <1>1. WriteNext(k)
    BY WriteVisit
  <1>2. CASE k = 0
    <2>1. Head(visits) = VarInt(packetSize)
      BY <1>1, <1>2 DEF WriteNext
    <2>2. packetSize \in Int
      BY DEF CodecInv, TypeOK
    <2>3. QED
      BY <2>1, <2>2 DEF VarInt, Visit
  <1>3. CASE k # 0
    <2>1. k > 0
      BY <1>1, <1>3 DEF WriteNext
    <2>2. Item(Head(visits))
      BY <1>1, <2>1 DEF WriteNext
    <2>3. QED
      BY <2>2 DEF Item
  <1>4. QED
    BY <1>2, <1>3

(* In the writer the integer of a loop is unsigned.                        *)
LEMMA WriteTyped ==
  ASSUME CodecInv, pass = "write"
  PROVE  rest \in 0..Word /\ rest \in Nat /\ data \in Seq(Byte)
  <1> DEFINE h == Word \div 2
  <1>1. Word \in Nat /\ h \in Nat /\ 2 * h <= Word
    BY WordIs
  <1>2. rest \in -h .. h - 1 \/ rest \in 0..Word
    BY DEF CodecInv, TypeOK, Int32
  <1>3. rest >= 0
    BY DEF CodecInv, WriteInv
  <1> HIDE DEF h
  <1>4. rest \in 0..Word /\ rest \in Nat
    BY <1>1, <1>2, <1>3
  <1>5. data \in Seq(Byte)
    BY DEF CodecInv, TypeOK, Byte
  <1>6. QED
    BY <1>4, <1>5

LEMMA WriteSkipKeeps == CodecInv /\ WriteSkip => CodecInv'
  <1> SUFFICES ASSUME CodecInv, WriteSkip PROVE CodecInv'
    OBVIOUS
  <1>1. /\ pass = "write" /\ visits # <<>> /\ TooLong(Head(visits)) /\ visits' = Tail(visits)
        /\ packet' = packet /\ pass' = pass /\ rest' = rest /\ data' = data
        /\ UNCHANGED sizeVars /\ UNCHANGED <<count, at, got>>
    BY DEF WriteSkip, Visiting, Done
  <1>2. PICK k \in 0..(Count(packet) + 1) : WriteAt(k)
    BY <1>1 DEF CodecInv, WriteInv
  <1>3. ~success
    BY <1>1, <1>2, WriteItemIs DEF WriteItem
  <1>4. /\ k + 1 \in 0..(Count(packet) + 1)
        /\ visits' = SubSeq(Prefixed(packet, packetSize), (k + 1) + 1, Count(packet) + 1)
    <2>1. WriteNext(k)
      BY <1>1, <1>2, WriteVisit
    <2>2. QED
      BY <1>1, <2>1 DEF WriteNext
  <1>5. WriteAt(k + 1)'
    BY <1>1, <1>3, <1>4 DEF WriteAt, sizeVars
  <1>6. rest \in 0..Word /\ data \in Seq(Byte)
    BY <1>1, WriteTyped
  <1>7. QED
    BY <1>1, <1>4, <1>5, <1>6, StillWriting

LEMMA WriteBeginKeeps == CodecInv /\ WriteBegin => CodecInv'
  <1> SUFFICES ASSUME CodecInv, WriteBegin PROVE CodecInv'
    OBVIOUS
  <1> DEFINE f == Head(visits)
             v == f.n
  <1>1. /\ pass = "write" /\ visits # <<>> /\ f.kind = "varint" /\ rest = Idle
        /\ rest' = v % Word /\ visits' = visits
        /\ packet' = packet /\ pass' = pass /\ data' = data
        /\ UNCHANGED sizeVars /\ UNCHANGED <<count, at, got>>
    BY DEF WriteBegin, Visiting
  <1>2. PICK k \in 0..(Count(packet) + 1) : WriteAt(k)
    BY <1>1 DEF CodecInv, WriteInv
  <1>3. rest' \in 0..Word /\ data' \in Seq(Byte)
    <2> DEFINE w == Word
    <2>1. w \in Nat \ {0} /\ v \in Int
      BY <1>1, <1>2, WordIs, WriteVisited
    <2> HIDE DEF w, v
    <2>2. v % w \in 0..w
      BY <2>1
    <2>3. QED
      BY <1>1, <2>2, WriteTyped DEF w
  <1>4. ASSUME success
        PROVE  /\ data = Stream(packet, k) /\ k <= Count(packet)
               /\ f = Prefixed(packet, packetSize)[k + 1]
               /\ 0 < Segs(v) /\ rest' = v \div Power(Base, 0)
               /\ data = Stream(packet, k) \o SubSeq(VarIntBytes(v), 1, 0)
    <2>1. WriteItem(k)
      BY <1>1, <1>2, <1>4, WriteItemIs
    <2>2. /\ Item(f) /\ Passes(f) /\ Grows(packet, k) /\ k \in 0..Count(packet)
          /\ f = Prefixed(packet, packetSize)[k + 1]
      BY <2>1 DEF WriteItem
    <2>3. v \in Nat /\ v < Word /\ v % Word = v
      BY <1>1, <2>2 DEF Item, Passes
    <2>4. Segs(v) \in 1..Segments /\ Segments \in Nat
      BY <2>3, SegsIs, WidthAssumption
    <2>5. v \div Power(Base, 0) = v
      <3> HIDE DEF v
      <3>1. Power(Base, 0) = 1
        BY BaseIs, PowerIs
      <3>2. QED
        BY <2>3, <3>1
    <2>6. data = Stream(packet, k)
      BY <1>1, <1>2, <1>4 DEF WriteAt
    <2>7. Stream(packet, k) \in Seq(Byte)
      BY <2>2 DEF Grows
    <2>8. SubSeq(VarIntBytes(v), 1, 0) = <<>>
      <3>1. 1 \in Int /\ 0 \in Int /\ 0 < 1
        OBVIOUS
      <3>2. QED
        BY <3>1, SubSeqEmpty
    <2>9. Stream(packet, k) \o <<>> = Stream(packet, k)
      BY <2>7, ConcatEmptySeq
    <2>10. k <= Count(packet) /\ 0 < Segs(v)
      BY <1>2, <2>2, <2>4
    <2>11. QED
      BY <1>1, <2>2, <2>3, <2>5, <2>6, <2>8, <2>9, <2>10
  <1>5. WriteAt(k)'
    <2>1. CASE success
      <3>1. packetSize' = packetSize /\ 0 \in Nat
        BY <1>1 DEF sizeVars
      <3>2. visits' = SubSeq(Prefixed(packet, packetSize), k + 1, Count(packet) + 1)
        BY <1>1, <1>2 DEF WriteAt
      <3>3. \E j \in Nat : /\ j < Segs(v) /\ rest' = v \div Power(Base, j)
                           /\ data = Stream(packet, k) \o SubSeq(VarIntBytes(v), 1, j)
        BY <1>4, <2>1, <3>1
      <3>4. /\ data = Stream(packet, k) /\ k <= Count(packet)
            /\ f = Prefixed(packet, packetSize)[k + 1]
        BY <1>4, <2>1
      <3>5. QED
        BY <1>1, <3>1, <3>2, <3>3, <3>4 DEF WriteAt
    <2>2. CASE ~success
      BY <1>1, <1>2, <2>2 DEF WriteAt, sizeVars
    <2>3. QED
      BY <2>1, <2>2
  <1>6. QED
    BY <1>1, <1>2, <1>3, <1>5, StillWriting

(* One more byte of a sequence.                                            *)
LEMMA OneMore ==
  ASSUME NEW a \in Seq(Byte), NEW b \in Seq(Byte), NEW j \in Nat, j < Len(b)
  PROVE  /\ Append(a \o SubSeq(b, 1, j), b[j + 1]) = a \o SubSeq(b, 1, j + 1)
         /\ SubSeq(b, 1, Len(b)) = b /\ b[j + 1] \in Byte
         /\ Len(a \o SubSeq(b, 1, j)) = Len(a) + j
  <1> DEFINE c == SubSeq(b, 1, j)
             d == SubSeq(b, 1, j + 1)
             e == b[j + 1]
  <1>1. Len(b) \in Nat /\ j + 1 \in 1..Len(b) /\ 1 \in 1..Len(b) /\ (j + 1) - 1 = j
    BY LenProperties
  <1>2. e \in Byte
    BY <1>1, ElementOfSeq
  <1>3. c \in Seq(Byte) /\ Len(c) = j
    <2>1. 1 \in Nat \ {0} /\ j <= Len(b) /\ 1 <= j + 1 /\ j - 1 + 1 = j
      BY <1>1
    <2>2. QED
      BY <2>1, PartIs
  <1>4. d = c \o <<e>>
    <2>1. j + 1 \in 1..Len(b) /\ 1 \in 1..Len(b) /\ j + 1 \in 1..Len(b)
      BY <1>1
    <2>2. SubSeq(b, 1, j + 1) = SubSeq(b, 1, (j + 1) - 1) \o <<b[j + 1]>>
      BY <2>1, SubSeqRecursiveSecond
    <2>3. QED
      BY <1>1, <2>2
  <1> HIDE DEF c, d, e
  <1>5. a \o c \in Seq(Byte) /\ Len(a \o c) = Len(a) + Len(c)
    BY <1>3, ConcatProperties
  <1>6. Append(a \o c, e) = (a \o c) \o <<e>>
    BY <1>2, <1>5, AppendIsConcat
  <1>7. (a \o c) \o <<e>> = a \o (c \o <<e>>)
    <2>1. <<e>> \in Seq(Byte)
      BY <1>2
    <2>2. QED
      BY <1>3, <2>1, ConcatAssociative
  <1>8. SubSeq(b, 1, Len(b)) = b
    BY SubSeqFull
  <1>9. QED
    BY <1>2, <1>3, <1>4, <1>5, <1>6, <1>7, <1>8 DEF c, d, e

LEMMA WriteVarIntKeeps == CodecInv /\ WriteVarInt => CodecInv'
  <1> SUFFICES ASSUME CodecInv, WriteVarInt PROVE CodecInv'
    OBVIOUS
  <1> DEFINE f == Head(visits)
             v == f.n
             n == Count(packet)
             last == rest < Base
             byte == IF last THEN rest ELSE (rest % Base) + Base
             b == VarIntBytes(v)
  <1>1. /\ pass = "write" /\ visits # <<>> /\ f.kind = "varint" /\ rest # Idle
        /\ data' = Append(data, byte)
        /\ IF last THEN rest' = Idle /\ visits' = Tail(visits)
           ELSE rest' = rest \div Base /\ visits' = visits
        /\ packet' = packet /\ pass' = pass
        /\ UNCHANGED sizeVars /\ UNCHANGED <<count, at, got>>
    BY DEF WriteVarInt, WriteLoop, Visiting, Done
  <1>2. PICK k \in 0..(n + 1) : WriteAt(k)
    BY <1>1 DEF CodecInv, WriteInv
  <1>3. /\ n \in Nat /\ packet \in Packet /\ k + 1 \in 0..(n + 1)
        /\ Tail(visits) = SubSeq(Prefixed(packet, packetSize), (k + 1) + 1, n + 1)
    <2>1. WriteNext(k)
      BY <1>1, <1>2, WriteVisit
    <2>2. QED
      BY <1>1, <2>1 DEF WriteNext
  <1>4. rest \in 0..Word /\ rest \in Nat /\ data \in Seq(Byte) /\ Base \in Nat \ {0} /\ Word \in Nat
    BY <1>1, WriteTyped, BaseIs, WordIs
  <1>5. rest \div Base \in 0..Word /\ rest % Base \in 0..(Base - 1)
    <2> DEFINE r == rest
               c == Base
               q == r \div c
               p == c * q
    <2>1. q \in Nat /\ r % c \in 0..(c - 1) /\ r = p + (r % c) /\ c \in Nat \ {0} /\ r \in 0..Word
      BY <1>4, Division
    <2>2. p >= q /\ p \in Nat
      <3> HIDE DEF q, c
      <3>1. QED
        BY <2>1
    <2> HIDE DEF p, q, c, r
    <2>3. q \in 0..Word
      BY <1>4, <2>1, <2>2
    <2>4. QED
      BY <2>1, <2>3 DEF q, c, r
  <1>6. byte \in Byte /\ rest' \in 0..Word
    <2>1. CASE last
      <3>1. byte = rest /\ rest' = Word
        BY <1>1, <2>1 DEF Idle
      <3> HIDE DEF byte
      <3>2. byte \in Byte
        BY <1>4, <2>1, <3>1 DEF Byte
      <3>3. QED
        BY <1>4, <3>1, <3>2
    <2>2. CASE ~last
      <3>1. byte = (rest % Base) + Base /\ rest' = rest \div Base
        BY <1>1, <2>2
      <3> HIDE DEF byte
      <3>2. byte \in Byte
        BY <1>4, <1>5, <3>1 DEF Byte
      <3>3. QED
        BY <1>5, <3>1, <3>2
    <2>3. QED
      BY <2>1, <2>2
  <1>7. data' \in Seq(Byte)
    <2> HIDE DEF byte
    <2>1. QED
      BY <1>1, <1>4, <1>6, AppendProperties
  <1>8. CASE ~success
    <2>1. CASE last
      <3>1. WriteAt(k + 1)'
        BY <1>1, <1>3, <1>8, <2>1 DEF WriteAt, sizeVars
      <3>2. QED
        BY <1>1, <1>3, <1>6, <1>7, <3>1, StillWriting
    <2>2. CASE ~last
      <3>1. WriteAt(k)'
        BY <1>1, <1>2, <1>8, <2>2 DEF WriteAt, sizeVars
      <3>2. QED
        BY <1>1, <1>2, <1>6, <1>7, <3>1, StillWriting
    <2>3. QED
      BY <2>1, <2>2
  <1>9. CASE success
    <2>1. WriteItem(k)
      BY <1>1, <1>2, <1>9, WriteItemIs
    <2>2. /\ Item(f) /\ Passes(f) /\ Grows(packet, k) /\ k \in 0..n
          /\ Stream(packet, k + 1) = Stream(packet, k) \o Bytes(f)
          /\ f = Prefixed(packet, packetSize)[k + 1]
      BY <2>1 DEF WriteItem
    <2>3. v \in Nat /\ v < Word /\ Bytes(f) = b
      BY <1>1, <2>2 DEF Item, Passes
    <2>4. Stream(packet, k) \in Seq(Byte)
      BY <2>2 DEF Grows
    <2>5. PICK j \in Nat :
                 /\ j < Segs(v) /\ rest = v \div Power(Base, j)
                 /\ data = Stream(packet, k) \o SubSeq(b, 1, j)
      BY <1>1, <1>2, <1>9, <2>2 DEF WriteAt
    <2>6. /\ b \in Seq(Byte) /\ Len(b) = Segs(v) /\ Segs(v) \in Nat
          /\ b[j + 1] = LET r == v \div Power(Base, j) IN
                       IF r < Base THEN r ELSE (r % Base) + Base
      BY <2>3, <2>5, VarIntBytesAre, SegsIs, WidthAssumption DEF Byte
    <2>7. b[j + 1] = byte
      BY <2>5, <2>6
    <2>8. Round(v, j)
      BY <2>3, <2>5, RoundIs
    <2>9. (last <=> j + 1 = Segs(v)) /\ rest \div Base = v \div Power(Base, j + 1)
      BY <2>5, <2>8 DEF Round
    <2> HIDE DEF b, byte, last
    <2>10. /\ data' = Stream(packet, k) \o SubSeq(b, 1, j + 1)
           /\ SubSeq(b, 1, Len(b)) = b
      <3>1. j < Len(b)
        BY <2>5, <2>6
      <3>2. Append(Stream(packet, k) \o SubSeq(b, 1, j), b[j + 1]) = Stream(packet, k) \o SubSeq(b, 1, j + 1)
        BY <2>4, <2>6, <3>1, OneMore
      <3>3. SubSeq(b, 1, Len(b)) = b
        BY <2>6, SubSeqFull
      <3>4. QED
        BY <1>1, <2>5, <2>7, <3>2, <3>3
    <2>11. CASE j + 1 = Segs(v)
      <3>1. rest' = Idle /\ visits' = Tail(visits)
        BY <1>1, <2>9, <2>11
      <3>2. data' = Stream(packet, k + 1)
        BY <2>2, <2>3, <2>6, <2>10, <2>11
      <3>3. WriteAt(k + 1)'
        BY <1>1, <1>3, <3>1, <3>2 DEF WriteAt, sizeVars
      <3>4. QED
        BY <1>1, <1>3, <1>6, <1>7, <3>3, StillWriting
    <2>12. CASE j + 1 # Segs(v)
      <3>1. rest' = v \div Power(Base, j + 1) /\ visits' = visits
        BY <1>1, <2>9, <2>12
      <3>2. j + 1 \in Nat /\ j + 1 < Segs(v)
        BY <2>5, <2>6, <2>12
      <3>3. rest' # Idle
        <4>1. Round(v, j + 1)
          BY <2>3, <3>2, RoundIs
        <4>2. rest' \in Nat /\ rest' <= v
          BY <3>1, <4>1 DEF Round
        <4>3. QED
          BY <1>4, <2>3, <4>2 DEF Idle
      <3>4. \E i \in Nat : /\ i < Segs(v) /\ rest' = v \div Power(Base, i)
                           /\ data' = Stream(packet, k) \o SubSeq(VarIntBytes(v), 1, i)
        BY <2>10, <3>1, <3>2 DEF b
      <3>5. packetSize' = packetSize /\ k <= n
        BY <1>1, <1>3, <2>2 DEF sizeVars
      <3>6. visits' = SubSeq(Prefixed(packet, packetSize), k + 1, n + 1)
        BY <1>2, <3>1 DEF WriteAt
      <3>7. WriteAt(k)'
        BY <1>1, <2>2, <3>3, <3>4, <3>5, <3>6 DEF WriteAt
      <3>8. QED
        BY <1>1, <1>2, <1>6, <1>7, <3>7, StillWriting
    <2>13. QED
      BY <2>11, <2>12
  <1>10. QED
    BY <1>8, <1>9

LEMMA WriteBytesKeeps == CodecInv /\ WriteBytes => CodecInv'
  <1> SUFFICES ASSUME CodecInv, WriteBytes PROVE CodecInv'
    OBVIOUS
  <1> DEFINE f == Head(visits)
             c == Content(f.n)
             n == Count(packet)
  <1>1. /\ pass = "write" /\ visits # <<>> /\ f.kind \in {"body", "fixed", "uuid"}
        /\ data' = data \o c /\ rest' = rest /\ visits' = Tail(visits)
        /\ packet' = packet /\ pass' = pass
        /\ UNCHANGED sizeVars /\ UNCHANGED <<count, at, got>>
    BY DEF WriteBytes, Visiting, Done
  <1>2. PICK k \in 0..(n + 1) : WriteAt(k)
    BY <1>1 DEF CodecInv, WriteInv
  <1>3. k + 1 \in 0..(n + 1) /\ visits' = SubSeq(Prefixed(packet, packetSize), (k + 1) + 1, n + 1)
    <2>1. WriteNext(k)
      BY <1>1, <1>2, WriteVisit
    <2>2. QED
      BY <1>1, <2>1 DEF WriteNext
  <1>4. f.kind # "varint"
    BY <1>1
  <1>5. rest \in 0..Word /\ data \in Seq(Byte) /\ c \in Seq(Byte)
    BY <1>1, <1>2, <1>4, WriteTyped, WriteVisited
  <1>6. data' \in Seq(Byte)
    <2> HIDE DEF c
    <2>1. QED
      BY <1>1, <1>5, ConcatProperties
  <1>7. WriteAt(k + 1)'
    <2>1. CASE success
      <3>1. WriteItem(k)
        BY <1>1, <1>2, <2>1, WriteItemIs
      <3>2. /\ Stream(packet, k + 1) = Stream(packet, k) \o Bytes(f) /\ Bytes(f) = c
            /\ f = Prefixed(packet, packetSize)[k + 1]
        BY <1>4, <3>1 DEF WriteItem, Item
      <3>3. rest = Idle
        BY <1>2, <1>4, <2>1, <3>2 DEF WriteAt
      <3>4. data' = Stream(packet, k + 1)
        BY <1>1, <1>2, <2>1, <3>2, <3>3 DEF WriteAt
      <3>5. QED
        BY <1>1, <1>3, <3>3, <3>4 DEF WriteAt, sizeVars
    <2>2. CASE ~success
      BY <1>1, <1>3, <2>2 DEF WriteAt, sizeVars
    <2>3. QED
      BY <2>1, <2>2
  <1>8. QED
    BY <1>1, <1>3, <1>5, <1>6, <1>7, StillWriting

(* What was written within its buffer goes to the reader.                  *)
LEMMA EndWritingKeeps == CodecInv /\ EndWriting => CodecInv'
  <1> SUFFICES ASSUME CodecInv, EndWriting PROVE CodecInv'
    OBVIOUS
  <1> DEFINE n == Count(packet)
             V == Prefixed(packet, 0)
  <1>1. /\ pass = "write" /\ visits = <<>>
        /\ IF success THEN pass' = "read" /\ visits' = PrefixedVisits(0)
           ELSE pass' = "done" /\ visits' = visits
        /\ UNCHANGED <<packet, rest, count, data, at, got>> /\ UNCHANGED sizeVars
    BY DEF EndWriting
  <1>2. PICK k \in 0..(n + 1) : WriteAt(k)
    BY <1>1 DEF CodecInv, WriteInv
  <1>3. k = n + 1 /\ n \in Nat /\ packet \in Packet
    <2>1. WriteNext(k)
      BY <1>1, <1>2, WriteVisit
    <2>2. QED
      BY <1>1, <2>1 DEF WriteNext
  <1>4. at = 0 /\ got = <<>> /\ (success => Sized /\ packetSize = Payload(packet))
    BY <1>1 DEF CodecInv, WriteInv
  <1>5. TypeOK'
    BY <1>1 DEF CodecInv, TypeOK, sizeVars
  <1>6. FailsIfTooLong'
    BY <1>1 DEF CodecInv, FailsIfTooLong, sizeVars
  <1>7. CASE ~success
    BY <1>1, <1>3, <1>5, <1>6, <1>7 DEF CodecInv, SizeInv, WriteInv, ReadInv, DoneInv, sizeVars
  <1>8. CASE success
    <2>1. pass' = "read" /\ visits' = PrefixedVisits(0)
      BY <1>1, <1>8
    <2>2. visits' = V /\ V \in Seq(Visited) /\ Len(V) = n + 1
      BY <1>3, <2>1, VisitsAre, PrefixedIs
    <2>3. visits' = SubSeq(V, 0 + 1, n + 1)
      <3> HIDE DEF V, n
      <3>1. SubSeq(V, 1, n + 1) = V
        BY <2>2, SubSeqFull
      <3>2. 0 + 1 = 1
        OBVIOUS
      <3>3. QED
        BY <2>2, <3>1, <3>2
    <2>4. rest = Idle /\ data = Stream(packet, n + 1)
      <3>1. ~(k <= n)
        BY <1>3
      <3>2. QED
        BY <1>2, <1>3, <1>8, <3>1 DEF WriteAt
    <2>5. Read(packet, 0) = <<>>
      <3> DEFINE r == Read(packet, 0)
      <3>1. r = [i \in 1..0 |-> Meaning(Prefixed(packet, Payload(packet))[i])]
        BY DEF Read
      <3>2. 1..0 = {}
        OBVIOUS
      <3>3. r \in Seq({}) /\ Len(r) = 0
        <4>1. r \in [1..0 -> {}]
          BY <3>1, <3>2
        <4> HIDE DEF r
        <4>2. r \in Seq({})
          BY <4>1, SeqDef
        <4>3. QED
          BY <4>1, <4>2, LenProperties
      <3>4. QED
        BY <3>3, EmptySeq
    <2>6. Len(Stream(packet, 0)) = 0
      BY EmptySeq DEF Stream
    <2>7. ReadAt(0)'
      BY <1>1, <1>4, <2>3, <2>4, <2>5, <2>6 DEF ReadAt
    <2>8. ReadInv'
      <3>1. 0 \in 0..(n + 1)
        BY <1>3
      <3>2. Sized' /\ packetSize' = Payload(packet') /\ success'
        BY <1>1, <1>4, <1>8 DEF Sized, sizeVars
      <3>3. QED
        BY <1>1, <2>4, <2>7, <3>1, <3>2 DEF ReadInv
    <2>9. QED
      BY <1>1, <1>3, <1>5, <1>6, <2>1, <2>8 DEF CodecInv, SizeInv, WriteInv, DoneInv
  <1>9. QED
    BY <1>7, <1>8

(***************************************************************************)
(* CPacketReader.                                                          *)
(***************************************************************************)

(* What was written of the first visits is what is read first.             *)
StartsWith(p, k) ==
    \E t \in Seq(Byte) : Stream(p, Count(p) + 1) = Stream(p, k) \o t

LEMMA StreamStarts ==
  ASSUME NEW p \in Packet, NEW k \in 0..(Count(p) + 1)
  PROVE  StartsWith(p, k) /\ Stream(p, k) \in Seq(Byte)
  <1> DEFINE n == Count(p)
             S == {d \in Nat : \A i \in 0..(n + 1) : i + d = n + 1 => StartsWith(p, i)}
  <1>1. n \in Nat /\ \A i \in 0..n : Grows(p, i)
    BY ItemsAre, StreamGrows
  <1> HIDE DEF n
  <1>2. \A i \in 0..(n + 1) : Stream(p, i) \in Seq(Byte)
    <2>1. \A i \in 0..n : Stream(p, i) \in Seq(Byte) /\ Stream(p, i + 1) \in Seq(Byte)
      BY <1>1 DEF Grows
    <2>2. n \in 0..n /\ \A i \in 0..(n + 1) : i \in 0..n \/ i = n + 1
      BY <1>1
    <2>3. QED
      BY <2>1, <2>2
  <1>3. 0 \in S
    <2>1. StartsWith(p, n + 1)
      <3>1. Stream(p, n + 1) \in Seq(Byte)
        BY <1>1, <1>2
      <3>2. Stream(p, n + 1) \o <<>> = Stream(p, n + 1) /\ <<>> \in Seq(Byte)
        BY <3>1, ConcatEmptySeq
      <3>3. QED
        BY <3>2 DEF StartsWith, n
    <2>2. \A i \in 0..(n + 1) : i + 0 = n + 1 => i = n + 1
      BY <1>1
    <2>3. QED
      BY <2>1, <2>2
  <1>4. ASSUME NEW d \in Nat, d \in S PROVE d + 1 \in S
    <2> SUFFICES ASSUME NEW i \in 0..(n + 1), i + (d + 1) = n + 1 PROVE StartsWith(p, i)
      OBVIOUS
    <2>1. i \in 0..n /\ i + 1 \in 0..(n + 1) /\ (i + 1) + d = n + 1
      BY <1>1
    <2>2. StartsWith(p, i + 1)
      BY <1>4, <2>1
    <2>3. PICK t \in Seq(Byte) : Stream(p, n + 1) = Stream(p, i + 1) \o t
      BY <2>2 DEF StartsWith, n
    <2> DEFINE a == Stream(p, i)
               b == Bytes(Prefixed(p, Payload(p))[i + 1])
    <2>4. a \in Seq(Byte) /\ b \in Seq(Byte) /\ Stream(p, i + 1) = a \o b
      BY <1>1, <2>1 DEF Grows
    <2> HIDE DEF a, b
    <2>5. (a \o b) \o t = a \o (b \o t) /\ b \o t \in Seq(Byte)
      <3>1. a \in Seq(Byte) /\ b \in Seq(Byte) /\ t \in Seq(Byte)
        BY <2>4
      <3>2. (a \o b) \o t = a \o (b \o t)
        BY <3>1, ConcatAssociative
      <3>3. b \o t \in Seq(Byte)
        BY <3>1, ConcatProperties
      <3>4. QED
        BY <3>2, <3>3
    <2>6. QED
      BY <2>3, <2>4, <2>5 DEF StartsWith, n, a
  <1>5. \A d \in Nat : d \in S
    <2> HIDE DEF S
    <2>1. QED
      BY <1>3, <1>4, SetInduction
  <1>6. (n + 1) - k \in Nat /\ k + ((n + 1) - k) = n + 1 /\ k \in 0..(n + 1)
    BY <1>1 DEF n
  <1>7. QED
    BY <1>2, <1>5, <1>6

(* The bytes of a visit are where the reader looks for them.               *)
Found(p, k) ==
    LET b == Bytes(Prefixed(p, Payload(p))[k + 1])
        d == Stream(p, Count(p) + 1)
        l == Len(Stream(p, k))
    IN /\ l \in Nat /\ l + Len(b) = Len(Stream(p, k + 1)) /\ l + Len(b) <= Len(d)
       /\ \A j \in Nat : j < Len(b) => d[l + j + 1] = b[j + 1]
       /\ SubSeq(d, l + 1, l + Len(b)) = b

LEMMA BytesFound ==
  ASSUME NEW p \in Packet, NEW k \in 0..Count(p)
  PROVE  Found(p, k)
  <1> DEFINE n == Count(p)
             a == Stream(p, k)
             b == Bytes(Prefixed(p, Payload(p))[k + 1])
             c == Stream(p, k + 1)
             d == Stream(p, n + 1)
             l == Len(a)
             m == Len(b)
  <1>1. n \in Nat /\ k + 1 \in 0..(n + 1)
    BY ItemsAre
  <1>2. /\ a \in Seq(Byte) /\ b \in Seq(Byte) /\ c \in Seq(Byte) /\ c = a \o b
        /\ l \in Nat /\ m \in Nat /\ Len(c) = l + m
    BY StreamGrows DEF Grows
  <1>3. PICK t \in Seq(Byte) : d = c \o t
    BY <1>1, StreamStarts DEF StartsWith
  <1> HIDE DEF n, a, b, c, d
  <1>4. /\ Len(d) = l + m + Len(t) /\ Len(t) \in Nat
        /\ \A i \in 1..(l + m + Len(t)) : i <= l + m => d[i] = c[i]
    BY <1>2, <1>3, ConcatProperties, LenProperties
  <1>5. \A i \in 1..(l + m) : i > l => c[i] = b[i - l]
    BY <1>2, ConcatProperties
  <1>6. ASSUME NEW j \in Nat, j < m PROVE d[l + j + 1] = b[j + 1]
    <2>1. /\ l + j + 1 \in 1..(l + m + Len(t)) /\ l + j + 1 <= l + m /\ l + j + 1 \in 1..(l + m)
          /\ l + j + 1 > l /\ (l + j + 1) - l = j + 1
      BY <1>2, <1>4, <1>6
    <2>2. d[l + j + 1] = c[l + j + 1] /\ c[l + j + 1] = b[(l + j + 1) - l]
      BY <1>4, <1>5, <2>1
    <2>3. QED
      BY <2>1, <2>2
  <1>7. SubSeq(d, l + 1, l + m) = b
    <2>1. SubSeq(c \o t, l + 1, l + m) = SubSeq(c, l + 1, l + m)
      <3>1. l + 1 \in Nat \ {0} /\ l + m \in Nat /\ l + m <= Len(c) /\ l + 1 <= (l + m) + 1
        BY <1>2
      <3>2. c \in Seq(Byte) /\ t \in Seq(Byte)
        BY <1>2
      <3>3. QED
        BY <3>1, <3>2, PartOfPrefix
    <2>2. SubSeq(a \o b, Len(a) + 1, Len(a) + m) = SubSeq(b, 1, m)
      <3>1. m \in Nat /\ m <= Len(b)
        BY <1>2
      <3>2. QED
        BY <1>2, <3>1, PartOfSuffix
    <2>3. SubSeq(b, 1, Len(b)) = b
      BY <1>2, SubSeqFull
    <2>4. QED
      BY <1>2, <1>3, <2>1, <2>2, <2>3
  <1>8. l + m <= Len(d)
    BY <1>2, <1>4
  <1>9. QED
    BY <1>2, <1>6, <1>7, <1>8 DEF Found, a, b, c, d, n

(* One value more is read.                                                 *)
LEMMA ReadMore ==
  ASSUME NEW p \in Packet, NEW k \in 0..Count(p), NEW x,
         x = Meaning(Prefixed(p, Payload(p))[k + 1])
  PROVE  /\ Append(Read(p, k), x) = Read(p, k + 1) /\ Len(Read(p, k)) = k
         /\ \A i \in 1..k : Read(p, k)[i] = Meaning(Prefixed(p, Payload(p))[i])
  <1> DEFINE M(i) == Meaning(Prefixed(p, Payload(p))[i])
             T == {M(i) : i \in 1..(k + 1)}
             r == Read(p, k)
             s == Read(p, k + 1)
  <1>1. k \in Nat
    BY ItemsAre
  <1>2. r = [i \in 1..k |-> M(i)] /\ s = [i \in 1..(k + 1) |-> M(i)]
    BY DEF Read
  <1>3. r \in [1..k -> T] /\ s \in [1..(k + 1) -> T] /\ x \in T /\ x = M(k + 1)
    <2>1. \A i \in 1..k : i \in 1..(k + 1)
      BY <1>1
    <2>2. k + 1 \in 1..(k + 1)
      BY <1>1
    <2> HIDE DEF r, s, M
    <2>3. r \in [1..k -> T]
      BY <1>2, <2>1
    <2>4. s \in [1..(k + 1) -> T]
      BY <1>2
    <2>5. x = M(k + 1)
      BY DEF M
    <2>6. QED
      BY <2>2, <2>3, <2>4, <2>5
  <1> HIDE DEF T, r, s, M
  <1>4. k + 1 \in Nat
    BY <1>1
  <1>5. r \in Seq(T) /\ Len(r) = k /\ s \in Seq(T) /\ Len(s) = k + 1
    <2>1. r \in Seq(T) /\ s \in Seq(T)
      BY <1>1, <1>3, <1>4, SeqDef
    <2>2. QED
      BY <1>1, <1>3, <1>4, <2>1, LenProperties
  <1>6. /\ Append(r, x) \in Seq(T) /\ Len(Append(r, x)) = k + 1
        /\ \A i \in 1..k : Append(r, x)[i] = r[i]
        /\ Append(r, x)[k + 1] = x
    BY <1>3, <1>5, AppendProperties
  <1>7. \A i \in 1..(k + 1) : Append(r, x)[i] = s[i]
    <2>1. \A i \in 1..(k + 1) : i \in 1..k \/ i = k + 1
      BY <1>1
    <2>2. QED
      BY <1>2, <1>3, <1>6, <2>1
  <1>8. Append(r, x) = s
    BY <1>5, <1>6, <1>7, SeqEqual
  <1>9. QED
    BY <1>2, <1>5, <1>8 DEF r, s, M

(* What a step within the reader has to keep.                              *)
LEMMA StillReading ==
  ASSUME CodecInv, pass = "read", packet' = packet, pass' = pass,
         UNCHANGED sizeVars, UNCHANGED data,
         rest' \in Int32 \cup 0..Word, count' \in 0..(Word - 1), at' \in 0..Len(data),
         NEW k \in 0..(Count(packet) + 1), ReadAt(k)'
  PROVE  CodecInv'
  <1>1. TypeOK'
    BY DEF CodecInv, TypeOK, sizeVars
  <1>2. Sized' /\ packetSize' = Payload(packet') /\ success'
    BY DEF CodecInv, ReadInv, Sized, sizeVars
  <1>3. data' = Stream(packet', Count(packet') + 1)
    BY DEF CodecInv, ReadInv
  <1>4. ReadInv'
    BY <1>2, <1>3 DEF ReadInv
  <1>5. FailsIfTooLong'
    BY DEF CodecInv, FailsIfTooLong, sizeVars
  <1>6. QED
    BY <1>1, <1>4, <1>5 DEF CodecInv, SizeInv, WriteInv, DoneInv

(* Where the reader is, and what was written of what it visits next: only  *)
(* that the packet's own size it visits as 0.                              *)
ReadNext(k) ==
    LET f == Prefixed(packet, Payload(packet))[k + 1]
        n == Count(packet)
    IN /\ n \in Nat /\ packet \in Packet /\ packetSize = Payload(packet)
       /\ data = Stream(packet, n + 1)
       /\ visits = <<>> => k = n + 1
       /\ visits # <<>> =>
            /\ k \in 0..n /\ k + 1 \in 0..(n + 1)
            /\ Tail(visits) = SubSeq(Prefixed(packet, 0), (k + 1) + 1, n + 1)
            /\ Item(f) /\ Passes(f) /\ Found(packet, k)
            /\ Head(visits).kind = f.kind /\ (f.kind # "varint" => Head(visits) = f)
            /\ f.kind = "body" =>
                 k > 0 /\ IsLength(Prefixed(packet, Payload(packet))[k], f)

LEMMA ReadVisit ==
  ASSUME CodecInv, pass = "read", NEW k \in 0..(Count(packet) + 1), ReadAt(k)
  PROVE  ReadNext(k)
  <1> DEFINE V == Prefixed(packet, 0)
             W == Prefixed(packet, Payload(packet))
             n == Count(packet)
             f == W[k + 1]
  <1>1. n \in Nat \ {0} /\ packet \in Packet
    BY ItemsAre DEF CodecInv
  <1>2. /\ packetSize = Payload(packet) /\ data = Stream(packet, n + 1) /\ Sized
        /\ AllPass(packet, n)
    BY DEF CodecInv, ReadInv, Sized
  <1>3. /\ V \in Seq(Visited) /\ Len(V) = n + 1 /\ V[1] = VarInt(0)
        /\ \A i \in 1..n : V[i + 1] = Items(packet)[i]
    BY <1>1, PrefixedIs
  <1>4. /\ W[1] = VarInt(Payload(packet))
        /\ \A i \in 1..n : W[i + 1] = Items(packet)[i]
    <2>1. Payload(packet) \in Nat
      BY <1>1, FlatIs
    <2>2. QED
      BY <1>1, <2>1, PrefixedIs
  <1>5. visits = SubSeq(V, k + 1, Len(V)) /\ k \in 0..(n + 1)
    BY <1>3 DEF ReadAt
  <1>6. \A i \in 0..n : LET g == W[i + 1] IN Item(g) /\ Passes(g)
    BY <1>1, <1>2, PrefixedItem
  <1>7. \A i \in 0..n : Found(packet, i)
    BY <1>1, BytesFound
  <1>8. \A i \in 1..n : Items(packet)[i].kind = "body" =>
                          i > 1 /\ IsLength(Items(packet)[i - 1], Items(packet)[i])
    BY <1>1, PacketIs DEF Serializable, Regular, Count
  <1> HIDE DEF V, W, n
  <1>9. Left(V, k, visits)
    <2>1. k \in Nat /\ k <= Len(V)
      BY <1>1, <1>3, <1>5
    <2>2. QED
      BY <1>3, <1>5, <2>1, LeftIs
  <1>10. visits = <<>> => k = n + 1
    BY <1>3, <1>9 DEF Left
  <1>11. ASSUME visits # <<>>
         PROVE  /\ k \in 0..n /\ k + 1 \in 0..(n + 1)
                /\ Tail(visits) = SubSeq(V, (k + 1) + 1, n + 1)
                /\ Item(f) /\ Passes(f) /\ Found(packet, k)
                /\ Head(visits).kind = f.kind /\ (f.kind # "varint" => Head(visits) = f)
                /\ f.kind = "body" => k > 0 /\ IsLength(W[k], f)
    <2>1. k # n + 1 /\ k + 2 = (k + 1) + 1
      BY <1>3, <1>5, <1>9, <1>11 DEF Left
    <2>2. k \in 0..n /\ k + 1 \in 0..(n + 1) /\ k < Len(V)
      BY <1>1, <1>3, <1>5, <2>1
    <2>3. Head(visits) = V[k + 1] /\ Tail(visits) = SubSeq(V, (k + 1) + 1, n + 1)
      BY <1>3, <1>9, <2>1, <2>2 DEF Left
    <2>4. Item(f) /\ Passes(f) /\ Found(packet, k)
      BY <1>6, <1>7, <2>2
    <2>5. CASE k = 0
      <3>1. f = VarInt(Payload(packet)) /\ Head(visits) = VarInt(0)
        BY <1>3, <1>4, <2>3, <2>5
      <3>2. f.kind = "varint" /\ Head(visits).kind = "varint"
        BY <3>1 DEF VarInt, Visit
      <3>3. QED
        BY <2>2, <2>3, <2>4, <3>2
    <2>6. CASE k # 0
      <3>1. k \in 1..n /\ k > 0
        BY <2>2, <2>6
      <3>2. f = Items(packet)[k] /\ Head(visits) = f
        BY <1>3, <1>4, <2>3, <3>1
      <3>3. ASSUME f.kind = "body" PROVE IsLength(W[k], f)
        <4>1. k > 1 /\ IsLength(Items(packet)[k - 1], f)
          BY <1>8, <3>1, <3>2, <3>3
        <4>2. k - 1 \in 1..n /\ (k - 1) + 1 = k
          BY <1>1, <3>1, <4>1
        <4>3. W[k] = Items(packet)[k - 1]
          BY <1>4, <4>2
        <4>4. QED
          BY <4>1, <4>3
      <3>4. QED
        BY <2>2, <2>3, <2>4, <3>1, <3>2, <3>3
    <2>7. QED
      BY <2>5, <2>6
  <1>12. QED
    BY <1>1, <1>2, <1>10, <1>11 DEF V, W, n, ReadNext

LEMMA ReadBeginKeeps == CodecInv /\ ReadBegin => CodecInv'
  <1> SUFFICES ASSUME CodecInv, ReadBegin PROVE CodecInv'
    OBVIOUS
  <1>1. /\ pass = "read" /\ visits # <<>> /\ Head(visits).kind = "varint" /\ rest = Idle
        /\ rest' = 0 /\ count' = 0 /\ visits' = visits
        /\ packet' = packet /\ pass' = pass /\ data' = data /\ at' = at /\ got' = got
        /\ UNCHANGED sizeVars
    BY DEF ReadBegin, Visiting
  <1>2. PICK k \in 0..(Count(packet) + 1) : ReadAt(k)
    BY <1>1 DEF CodecInv, ReadInv
  <1> DEFINE f == Prefixed(packet, Payload(packet))[k + 1]
             v == f.n
  <1>3. ReadNext(k)
    BY <1>1, <1>2, ReadVisit
  <1>4. /\ packetSize = Payload(packet) /\ Count(packet) \in Nat /\ k \in 0..Count(packet)
        /\ Item(f) /\ Passes(f) /\ f.kind = "varint"
    BY <1>1, <1>3 DEF ReadNext
  <1>5. v \in Nat /\ v < Word
    BY <1>4 DEF Item, Passes
  <1>6. 0 < Segs(v) /\ v % Power(Base, 0) = 0
    <2> HIDE DEF v
    <2>1. Segs(v) \in 1..Segments /\ Segments \in Nat
      BY <1>5, SegsIs, WidthAssumption
    <2>2. Power(Base, 0) = 1
      BY BaseIs, PowerIs
    <2>3. QED
      BY <1>5, <2>1, <2>2
  <1>7. at = Len(Stream(packet, k)) /\ at \in Nat
    BY <1>1, <1>2 DEF ReadAt, CodecInv, TypeOK
  <1>8. /\ k <= Count(packet) /\ count' < Segs(v) /\ rest' = v % Power(Base, count')
        /\ at' = Len(Stream(packet, k)) + count'
    <2>1. at + 0 = at /\ k <= Count(packet)
      BY <1>4, <1>7
    <2>2. QED
      BY <1>1, <1>6, <1>7, <2>1
  <1>9. rest' # Idle /\ rest' \in 0..Word /\ count' \in 0..(Word - 1)
    BY <1>1, WordIs DEF Idle
  <1> HIDE DEF v
  <1>10. ReadAt(k)'
    BY <1>1, <1>2, <1>4, <1>8, <1>9 DEF ReadAt, v
  <1>11. at' \in 0..Len(data)
    BY <1>1 DEF CodecInv, TypeOK
  <1>12. QED
    BY <1>1, <1>2, <1>9, <1>10, <1>11, StillReading

(* The segment of a byte, and whether it is the last.                      *)
LEMMA SegmentOf ==
  ASSUME NEW b \in Nat \ {0}, NEW r \in Nat, NEW x, x = IF r < b THEN r ELSE (r % b) + b
  PROVE  (x < b <=> r < b) /\ x % b = r % b
  <1>1. CASE r < b
    BY <1>1
  <1>2. CASE ~(r < b)
    <2> DEFINE m == r % b
    <2>1. m \in 0..(b - 1) /\ x = m + b
      BY <1>2, Division
    <2> HIDE DEF m
    <2>2. x \in Nat /\ ~(x < b) /\ x = b * 1 + m
      BY <2>1
    <2>3. x % b = m
      BY <2>1, <2>2, DivisionUnique
    <2>4. QED
      BY <1>2, <2>2, <2>3 DEF m
  <1>3. QED
    BY <1>1, <1>2

LEMMA ReadVarIntKeeps == CodecInv /\ ReadVarInt => CodecInv'
  <1> SUFFICES ASSUME CodecInv, ReadVarInt PROVE CodecInv'
    OBVIOUS
  <1> DEFINE byte == data[at + 1]
             value == Signed(rest + (byte % Base) * Power(Base, count))
             last == byte < Base \/ count + 1 = Segments
             n == Count(packet)
  <1>1. /\ pass = "read" /\ visits # <<>> /\ Head(visits).kind = "varint" /\ rest # Idle
        /\ at' = at + 1 /\ data' = data /\ packet' = packet /\ pass' = pass
        /\ UNCHANGED sizeVars
    BY DEF ReadVarInt, ReadLoop, Visiting, Done
  <1>2. last => /\ got' = Append(got, IF byte < Base THEN value ELSE 0)
                /\ rest' = Idle /\ count' = 0 /\ visits' = Tail(visits)
    BY DEF ReadVarInt, ReadLoop, Done
  <1>3. ~last => rest' = value /\ count' = count + 1 /\ visits' = visits /\ got' = got
    BY DEF ReadVarInt, ReadLoop
  <1>4. PICK k \in 0..(n + 1) : ReadAt(k)
    BY <1>1 DEF CodecInv, ReadInv
  <1> DEFINE f == Prefixed(packet, Payload(packet))[k + 1]
             v == f.n
             s == Segs(v)
             r == v \div Power(Base, count)
             w == Word
             h == w \div 2
  <1>5. ReadNext(k)
    BY <1>1, <1>4, ReadVisit
  <1>6. /\ n \in Nat /\ packet \in Packet /\ packetSize = Payload(packet)
        /\ data = Stream(packet, n + 1) /\ k \in 0..n /\ k + 1 \in 0..(n + 1)
        /\ Tail(visits) = SubSeq(Prefixed(packet, 0), (k + 1) + 1, n + 1)
        /\ Item(f) /\ Passes(f) /\ Found(packet, k) /\ f.kind = "varint"
    BY <1>1, <1>5 DEF ReadNext
  <1>7. v \in Nat /\ v < Word /\ v \in Int32 /\ Bytes(f) = VarIntBytes(v)
    BY <1>6 DEF Item, Passes
  <1>8. s \in 1..Segments /\ Segments \in Nat /\ w \in Nat /\ h \in Nat /\ 2 * h <= w /\ Segments < w - 1
    <2>1. s \in 1..Segments /\ Segments \in Nat
      BY <1>7, SegsIs, WidthAssumption
    <2>2. w \in Nat /\ h \in Nat /\ 2 * h <= w /\ 4 * Segments + 2 * MaxLen + 16 < h /\ MaxLen \in Nat
      BY WordIs, LengthAssumption
    <2> HIDE DEF w, h, s
    <2>3. QED
      BY <2>1, <2>2
  <1>9. /\ k <= n /\ count < s /\ rest = v % Power(Base, count)
        /\ at = Len(Stream(packet, k)) + count /\ got = Read(packet, k) /\ count \in Nat
    <2>1. count \in Nat
      BY <1>8 DEF CodecInv, TypeOK
    <2>2. QED
      BY <1>1, <1>4, <2>1 DEF ReadAt
  <1>10. /\ VarIntBytes(v)[count + 1] = IF r < Base THEN r ELSE (r % Base) + Base
         /\ Len(VarIntBytes(v)) = s
    BY <1>7, <1>9, VarIntBytesAre
  <1>11. /\ byte = IF r < Base THEN r ELSE (r % Base) + Base
         /\ Len(Stream(packet, k)) \in Nat /\ Len(Stream(packet, k + 1)) = Len(Stream(packet, k)) + s
         /\ Len(Stream(packet, k + 1)) <= Len(data)
    <2> DEFINE l == Len(Stream(packet, k))
               b == Bytes(f)
    <2>1. /\ l \in Nat /\ l + Len(b) = Len(Stream(packet, k + 1)) /\ l + Len(b) <= Len(data)
          /\ \A j \in Nat : j < Len(b) => data[l + j + 1] = b[j + 1]
      BY <1>6 DEF Found
    <2>2. Len(b) = s /\ b[count + 1] = IF r < Base THEN r ELSE (r % Base) + Base
      BY <1>7, <1>10
    <2> HIDE DEF l, b
    <2>3. data[l + count + 1] = b[count + 1]
      BY <1>9, <2>1, <2>2
    <2>4. at + 1 = l + count + 1
      BY <1>9, <2>1 DEF l
    <2>5. QED
      BY <2>1, <2>2, <2>3, <2>4 DEF l
  <1>12. Round(v, count)
    BY <1>7, <1>9, RoundIs
  <1>13. /\ r \in Nat /\ (r < Base <=> count + 1 = s)
         /\ (v % Power(Base, count)) + (r % Base) * Power(Base, count) = v % Power(Base, count + 1)
         /\ v % Power(Base, count + 1) \in Nat /\ v % Power(Base, count + 1) <= v
         /\ count + 1 = s => v % Power(Base, count + 1) = v
    BY <1>12 DEF Round
  <1>14. (byte < Base <=> r < Base) /\ byte % Base = r % Base
    <2> HIDE DEF r, byte
    <2>1. QED
      BY <1>11, <1>13, BaseIs, SegmentOf
  <1>15. value = v % Power(Base, count + 1)
    <2> DEFINE x == v % Power(Base, count + 1)
    <2>1. value = Signed(x)
      BY <1>9, <1>13, <1>14
    <2>2. x \in Nat /\ x <= v
      BY <1>13
    <2> HIDE DEF x, v, value
    <2>3. v \in -h .. h - 1
      BY <1>7 DEF Int32
    <2> HIDE DEF h
    <2>4. x < h /\ x < w
      BY <1>7, <1>8, <2>2, <2>3
    <2> HIDE DEF w
    <2>5. x % w = x
      <3>1. x = w * 0 + x /\ x \in 0..(w - 1) /\ w \in Nat \ {0}
        BY <1>8, <2>2, <2>4
      <3>2. QED
        BY <2>2, <3>1, DivisionUnique
    <2>6. Signed(x) = x
      BY <2>4, <2>5 DEF Signed, w, h
    <2>7. QED
      BY <2>1, <2>6 DEF x, value
  <1> HIDE DEF byte, value, r, v, s, w, h
  <1>16. at' \in 0..Len(data)
    BY <1>1, <1>8, <1>9, <1>11
  <1>17. CASE count + 1 = s
    <2>1. byte < Base /\ value = v
      BY <1>13, <1>14, <1>15, <1>17
    <2>2. got' = Append(got, v) /\ rest' = Idle /\ count' = 0 /\ visits' = Tail(visits)
      BY <1>2, <2>1
    <2>3. v = Meaning(f)
      BY <1>6 DEF Meaning, v
    <2>4. got' = Read(packet, k + 1)
      BY <1>6, <1>9, <2>2, <2>3, ReadMore
    <2>5. at' = Len(Stream(packet, k + 1))
      BY <1>1, <1>8, <1>9, <1>11, <1>17
    <2>6. ReadAt(k + 1)'
      BY <1>1, <1>6, <2>2, <2>4, <2>5 DEF ReadAt
    <2>7. rest' \in 0..Word /\ count' \in 0..(Word - 1)
      BY <1>8, <2>2 DEF Idle, w
    <2>8. QED
      BY <1>1, <1>6, <1>16, <2>6, <2>7, StillReading
  <1>18. CASE count + 1 # s
    <2>1. ~last
      BY <1>8, <1>9, <1>13, <1>14, <1>18
    <2>2. rest' = value /\ count' = count + 1 /\ visits' = visits /\ got' = got
      BY <1>3, <2>1
    <2>3. rest' = v % Power(Base, count') /\ count' < s
      BY <1>8, <1>9, <1>15, <1>18, <2>2
    <2>4. rest' \in 0..Word /\ rest' # Idle
      BY <1>7, <1>8, <1>13, <1>15, <2>2 DEF Idle, w
    <2>5. at' = Len(Stream(packet, k)) + count'
      BY <1>1, <1>9, <1>11, <2>2
    <2>6. ReadAt(k)'
      BY <1>1, <1>4, <1>6, <1>9, <2>2, <2>3, <2>4, <2>5 DEF ReadAt, v, s
    <2>7. count' \in 0..(Word - 1)
      BY <1>8, <1>9, <2>2 DEF w
    <2>8. QED
      BY <1>1, <1>4, <1>16, <2>4, <2>6, <2>7, StillReading
  <1>19. QED
    BY <1>17, <1>18

LEMMA ReadBytesKeeps == CodecInv /\ ReadBytes => CodecInv'
  <1> SUFFICES ASSUME CodecInv, ReadBytes PROVE CodecInv'
    OBVIOUS
  <1> DEFINE m == IF Head(visits).kind = "body" THEN got[Len(got)] ELSE Head(visits).n
             n == Count(packet)
  <1>1. /\ pass = "read" /\ visits # <<>> /\ Head(visits).kind \in {"body", "fixed", "uuid"}
        /\ at + m <= Len(data) /\ at' = at + m
        /\ got' = Append(got, SubSeq(data, at + 1, at + m)) /\ visits' = Tail(visits)
        /\ data' = data /\ packet' = packet /\ pass' = pass /\ rest' = rest /\ count' = count
        /\ UNCHANGED sizeVars
    BY DEF ReadBytes, Visiting, Done
  <1>2. PICK k \in 0..(n + 1) : ReadAt(k)
    BY <1>1 DEF CodecInv, ReadInv
  <1> DEFINE f == Prefixed(packet, Payload(packet))[k + 1]
             l == Len(Stream(packet, k))
  <1>3. ReadNext(k)
    BY <1>1, <1>2, ReadVisit
  <1>4. Head(visits).kind # "varint"
    BY <1>1
  <1>5. /\ n \in Nat /\ packet \in Packet /\ packetSize = Payload(packet)
        /\ data = Stream(packet, n + 1) /\ k \in 0..n /\ k + 1 \in 0..(n + 1)
        /\ visits' = SubSeq(Prefixed(packet, 0), (k + 1) + 1, n + 1)
        /\ Item(f) /\ Found(packet, k) /\ Head(visits) = f /\ f.kind # "varint"
        /\ f.kind = "body" => k > 0 /\ IsLength(Prefixed(packet, Payload(packet))[k], f)
    BY <1>1, <1>3, <1>4 DEF ReadNext
  <1>6. rest = Idle /\ got = Read(packet, k) /\ at = l
    BY <1>2, <1>5 DEF ReadAt
  <1>7. f.n \in Nat /\ Bytes(f) = Content(f.n) /\ Len(Bytes(f)) = f.n /\ Meaning(f) = Content(f.n)
    BY <1>5 DEF Item, Meaning
  <1>8. m = f.n
    <2>1. CASE f.kind = "body"
      <3> DEFINE g == Prefixed(packet, Payload(packet))[k]
      <3>1. k > 0 /\ g.kind = "varint" /\ g.n = f.n
        BY <1>5, <2>1 DEF IsLength
      <3>2. k \in 1..k
        BY <1>5, <3>1
      <3>3. Len(got) = k /\ got[k] = Meaning(g)
        BY <1>5, <1>6, <1>7, <3>2, ReadMore
      <3>4. m = got[Len(got)]
        BY <1>5, <2>1
      <3>5. QED
        BY <3>1, <3>3, <3>4 DEF Meaning
    <2>2. CASE f.kind # "body"
      BY <1>5, <2>2
    <2>3. QED
      BY <2>1, <2>2
  <1>9. /\ l \in Nat /\ l + f.n = Len(Stream(packet, k + 1))
        /\ SubSeq(data, l + 1, l + f.n) = Content(f.n)
    BY <1>5, <1>7 DEF Found
  <1> HIDE DEF m, l
  <1>10. got' = Read(packet, k + 1)
    <2>1. got' = Append(Read(packet, k), Meaning(f))
      BY <1>1, <1>6, <1>7, <1>8, <1>9
    <2>2. QED
      BY <1>5, <2>1, ReadMore
  <1>11. at' = Len(Stream(packet, k + 1))
    BY <1>1, <1>6, <1>8, <1>9
  <1>12. ReadAt(k + 1)'
    BY <1>1, <1>5, <1>6, <1>10, <1>11 DEF ReadAt
  <1>13. at' \in 0..Len(data)
    <2>1. Len(data) \in Nat
      BY LenProperties DEF CodecInv, TypeOK
    <2>2. QED
      BY <1>1, <1>6, <1>7, <1>8, <1>9, <2>1
  <1>14. rest' \in Int32 \cup 0..Word /\ count' \in 0..(Word - 1)
    BY <1>1 DEF CodecInv, TypeOK
  <1>15. QED
    BY <1>1, <1>5, <1>12, <1>13, <1>14, StillReading

LEMMA EndReadingKeeps == CodecInv /\ EndReading => CodecInv'
  <1> SUFFICES ASSUME CodecInv, EndReading PROVE CodecInv'
    OBVIOUS
  <1>1. /\ pass = "read" /\ visits = <<>> /\ pass' = "done"
        /\ UNCHANGED <<packet, visits, rest, count, sizeVars, data, at, got>>
    BY DEF EndReading
  <1>2. PICK k \in 0..(Count(packet) + 1) : ReadAt(k)
    BY <1>1 DEF CodecInv, ReadInv
  <1>3. ReadNext(k)
    BY <1>1, <1>2, ReadVisit
  <1>4. k = Count(packet) + 1 /\ packetSize = Payload(packet) /\ data = Stream(packet, Count(packet) + 1)
    BY <1>1, <1>3 DEF ReadNext
  <1>5. Sized /\ got = Read(packet, Count(packet) + 1)
    BY <1>1, <1>2, <1>4 DEF ReadAt, CodecInv, ReadInv
  <1>6. DoneInv'
    BY <1>1, <1>4, <1>5 DEF DoneInv, Sized, sizeVars
  <1>7. TypeOK'
    BY <1>1 DEF CodecInv, TypeOK, sizeVars
  <1>8. FailsIfTooLong'
    BY <1>1 DEF CodecInv, FailsIfTooLong, sizeVars
  <1>9. QED
    BY <1>1, <1>6, <1>7, <1>8 DEF CodecInv, SizeInv, WriteInv, ReadInv

LEMMA CodecStutters == CodecInv /\ UNCHANGED vars => CodecInv'
  <1> SUFFICES ASSUME CodecInv, UNCHANGED vars PROVE CodecInv'
    OBVIOUS
  <1>1. UNCHANGED <<packet, pass, visits, rest, count, size, lengthSize, success, packetSize, data, at, got>>
    BY DEF vars, sizeVars
  <1>2. TypeOK' /\ FailsIfTooLong' /\ packet' \in Packet
    BY <1>1 DEF CodecInv, TypeOK, FailsIfTooLong
  <1>3. Sized <=> Sized'
    BY <1>1 DEF Sized
  <1>4. SizeInv'
    <2> SUFFICES ASSUME pass = "size" PROVE SizeInv'
      BY <1>1 DEF SizeInv
    <2>1. PICK k \in 0..(Count(packet) + 1) : SizeAt(k)
      BY DEF CodecInv, SizeInv
    <2>2. SizeAt(k)'
      BY <1>1, <1>3, <2>1 DEF SizeAt, Sought, Counting
    <2>3. QED
      BY <1>1, <2>2 DEF CodecInv, SizeInv
  <1>5. WriteInv'
    <2> SUFFICES ASSUME pass = "write" PROVE WriteInv'
      BY <1>1 DEF WriteInv
    <2>1. PICK k \in 0..(Count(packet) + 1) : WriteAt(k)
      BY DEF CodecInv, WriteInv
    <2>2. WriteAt(k)'
      BY <1>1, <2>1 DEF WriteAt
    <2>3. QED
      BY <1>1, <1>3, <2>2 DEF CodecInv, WriteInv
  <1>6. ReadInv'
    <2> SUFFICES ASSUME pass = "read" PROVE ReadInv'
      BY <1>1 DEF ReadInv
    <2>1. PICK k \in 0..(Count(packet) + 1) : ReadAt(k)
      BY DEF CodecInv, ReadInv
    <2>2. ReadAt(k)'
      BY <1>1, <2>1 DEF ReadAt
    <2>3. QED
      BY <1>1, <1>3, <2>2 DEF CodecInv, ReadInv
  <1>7. DoneInv'
    BY <1>1, <1>3 DEF CodecInv, DoneInv
  <1>8. QED
    BY <1>2, <1>4, <1>5, <1>6, <1>7 DEF CodecInv

LEMMA CodecInductive == CodecInv /\ [Next]_vars => CodecInv'
  <1> SUFFICES ASSUME CodecInv, [Next]_vars PROVE CodecInv'
    OBVIOUS
  <1>1. SizeSkip \/ SizeBegin \/ SizeVarInt \/ SizeBody \/ SizeFixed \/ EndSizing => CodecInv'
    BY SizeSkipKeeps, SizeBeginKeeps, SizeVarIntKeeps, SizeBodyKeeps, SizeFixedKeeps, EndSizingKeeps
  <1>2. WriteSkip \/ WriteBegin \/ WriteVarInt \/ WriteBytes \/ EndWriting => CodecInv'
    BY WriteSkipKeeps, WriteBeginKeeps, WriteVarIntKeeps, WriteBytesKeeps, EndWritingKeeps
  <1>3. ReadBegin \/ ReadVarInt \/ ReadBytes \/ EndReading => CodecInv'
    BY ReadBeginKeeps, ReadVarIntKeeps, ReadBytesKeeps, EndReadingKeeps
  <1>4. Finished \/ UNCHANGED vars => CodecInv'
    BY CodecStutters DEF Finished
  <1>5. QED
    BY <1>1, <1>2, <1>3, <1>4 DEF Next

LEMMA CodecInvHolds == Spec => []CodecInv
  BY CodecInit, CodecInductive, PTL DEF Spec

(***************************************************************************)
(* The theorems.                                                           *)
(***************************************************************************)

(* Every variable has its type; in particular every byte is one.           *)
THEOREM CodecTyped == Spec => []TypeOK
  <1>1. CodecInv => TypeOK
    BY DEF CodecInv
  <1>2. QED
    BY <1>1, CodecInvHolds, PTL

(* CPacketSizeCalc fails exactly for a string longer than its limit.       *)
THEOREM FailsForLength == Spec => []FailsIfTooLong
  <1>1. CodecInv => FailsIfTooLong
    BY DEF CodecInv
  <1>2. QED
    BY <1>1, CodecInvHolds, PTL

(* The size calculation never ends for a negative integer, so that no      *)
(* packet with one is written, unless a string was too long before it.     *)
OnlyNaturalsAreWritten == pass # "size" /\ success => Natural

(* The converse of Completes (PacketSizeCalc.cpp:24), for every width.     *)
THEOREM NegativesAreNotWritten == Spec => []OnlyNaturalsAreWritten
  <1>1. ASSUME CodecInv, pass # "size", success PROVE Natural
    <2> DEFINE n == Count(packet)
    <2>1. packet \in Packet /\ Sized
      BY <1>1 DEF CodecInv, WriteInv, ReadInv, DoneInv, TypeOK
    <2>2. \A i \in 1..n : Passes(Items(packet)[i])
      <3>1. n \in Nat
        BY <2>1, ItemsAre
      <3>2. QED
        BY <2>1, <3>1 DEF Sized, AllPass
    <2> SUFFICES ASSUME NEW i \in DOMAIN packet.fields, packet.fields[i].kind = "varint"
                 PROVE  packet.fields[i].n >= 0
      BY DEF Natural
    <2>3. i \in 1..(n - 1) /\ Items(packet)[i + 1] = packet.fields[i] /\ i + 1 \in 1..n
      BY <2>1, ItemsAre
    <2>4. Passes(packet.fields[i])
      BY <2>2, <2>3
    <2>5. QED
      BY <2>4 DEF Passes
  <1>2. CodecInv => OnlyNaturalsAreWritten
    BY <1>1 DEF OnlyNaturalsAreWritten
  <1>3. QED
    BY <1>2, CodecInvHolds, PTL

(* Nothing is written behind the end of the buffer, and nothing in it is   *)
(* left unwritten, unless a string was too long.                           *)
THEOREM BufferIsFilled == Spec => []SizeIsExact
  <1>1. ASSUME CodecInv, success, pass = "write" PROVE Len(data) <= size
    <2> DEFINE n == Count(packet)
    <2>1. n \in Nat /\ packet \in Packet /\ Sized
      BY <1>1, ItemsAre DEF CodecInv, WriteInv
    <2>2. /\ Len(Stream(packet, n + 1)) = Segs(Payload(packet)) + Payload(packet)
          /\ \A i \in 0..(n + 1) : Len(Stream(packet, i)) \in Nat
                                   /\ Len(Stream(packet, i)) <= Len(Stream(packet, n + 1))
      BY <2>1, StreamLength
    <2>3. Len(Stream(packet, n + 1)) = size
      <3>1. Payload(packet) \in Nat /\ lengthSize \in 0..Segments /\ Segments \in Nat
        BY <1>1, <2>1, FlatIs, WidthAssumption DEF CodecInv, TypeOK
      <3>2. size = Payload(packet) + lengthSize /\ lengthSize = Segs(Payload(packet))
        BY <2>1 DEF Sized
      <3>3. QED
        BY <2>2, <3>1, <3>2
    <2>4. PICK k \in 0..(n + 1) : WriteAt(k)
      BY <1>1 DEF CodecInv, WriteInv
    <2>5. CASE rest = Idle
      <3>1. data = Stream(packet, k)
        BY <1>1, <2>4, <2>5 DEF WriteAt
      <3>2. QED
        BY <2>2, <2>3, <3>1
    <2>6. CASE rest # Idle
      <3> DEFINE f == Prefixed(packet, packetSize)[k + 1]
                 b == VarIntBytes(f.n)
                 a == Stream(packet, k)
      <3>1. k <= n /\ f.kind = "varint"
        BY <1>1, <2>4, <2>6 DEF WriteAt
      <3>2. PICK j \in Nat : j < Segs(f.n) /\ data = a \o SubSeq(b, 1, j)
        BY <1>1, <2>4, <2>6 DEF WriteAt
      <3>3. visits # <<>>
        <4>1. WriteNext(k)
          BY <1>1, <2>4, WriteVisit
        <4>2. k # n + 1
          BY <2>1, <3>1
        <4>3. QED
          BY <4>1, <4>2 DEF WriteNext
      <3>4. WriteItem(k)
        BY <1>1, <2>4, <3>3, WriteItemIs
      <3>5. /\ Item(f) /\ Passes(f) /\ Grows(packet, k) /\ k \in 0..n
            /\ f = Prefixed(packet, Payload(packet))[k + 1]
        BY <3>4 DEF WriteItem
      <3>6. f.n \in Nat /\ f.n < Word /\ Bytes(f) = b
        BY <3>1, <3>5 DEF Item, Passes
      <3>7. Len(b) = Segs(f.n) /\ b \in Seq(Byte)
        BY <3>6, VarIntBytesAre DEF Byte
      <3>8. a \in Seq(Byte) /\ Len(a) \in Nat /\ Len(Stream(packet, k + 1)) = Len(a) + Len(b)
        BY <3>5, <3>6 DEF Grows
      <3>9. Len(Stream(packet, k + 1)) <= size
        <4>1. k + 1 \in 0..(n + 1)
          BY <2>1, <3>5
        <4>2. QED
          BY <2>2, <2>3, <4>1
      <3> HIDE DEF a, b
      <3>10. j < Len(b)
        BY <3>2, <3>7
      <3>11. Len(data) = Len(a) + j
        BY <3>2, <3>7, <3>8, <3>10, OneMore
      <3>12. Len(b) \in Nat /\ size \in Nat
        BY <1>1, <3>7, LenProperties DEF CodecInv, TypeOK
      <3>13. QED
        BY <3>8, <3>9, <3>10, <3>11, <3>12
    <2>7. QED
      BY <2>5, <2>6
  <1>2. ASSUME CodecInv, success, pass \in {"read", "done"} PROVE Len(data) = size
    <2>1. packet \in Packet /\ Sized /\ data = Stream(packet, Count(packet) + 1)
      BY <1>2 DEF CodecInv, ReadInv, DoneInv
    <2>2. Len(data) = Segs(Payload(packet)) + Payload(packet)
      BY <2>1, StreamLength
    <2>3. Payload(packet) \in Nat /\ lengthSize \in 0..Segments /\ Segments \in Nat
      BY <1>2, <2>1, FlatIs, WidthAssumption DEF CodecInv, TypeOK
    <2>4. size = Payload(packet) + lengthSize /\ lengthSize = Segs(Payload(packet))
      BY <2>1 DEF Sized
    <2>5. QED
      BY <2>2, <2>3, <2>4
  <1>3. CodecInv => SizeIsExact
    <2> SUFFICES ASSUME CodecInv, success PROVE /\ Len(data) <= size \/ pass = "size"
                                                /\ pass \in {"read", "done"} => Len(data) = size
      BY DEF SizeIsExact
    <2>1. pass \in {"size", "write", "read", "done"} /\ size \in Nat
      BY DEF CodecInv, TypeOK
    <2>2. pass \in {"read", "done"} => Len(data) = size
      BY <1>2
    <2>3. pass = "write" => Len(data) <= size
      BY <1>1
    <2>4. QED
      BY <2>1, <2>2, <2>3
  <1>4. QED
    BY <1>3, CodecInvHolds, PTL

(* The reader of a packet's size knows where the next packet begins.       *)
THEOREM PacketsAreFramed == Spec => []FramesThePacket
  <1>1. ASSUME CodecInv, pass = "read", Len(got) = 1, rest = Idle
        PROVE  got[1] + at = Len(data)
    <2> DEFINE n == Count(packet)
               m == Payload(packet)
    <2>1. PICK k \in 0..(n + 1) : ReadAt(k)
      BY <1>1 DEF CodecInv, ReadInv
    <2>2. n \in Nat \ {0} /\ packet \in Packet /\ m \in Nat
      BY <1>1, ItemsAre, FlatIs DEF CodecInv
    <2>3. data = Stream(packet, n + 1) /\ Len(data) = Segs(m) + m
      BY <1>1, <2>2, StreamLength DEF CodecInv, ReadInv
    <2>4. got = Read(packet, k) /\ at = Len(Stream(packet, k))
      BY <1>1, <2>1 DEF ReadAt
    <2>5. k = 1
      <3>1. got \in [1..k -> {Meaning(Prefixed(packet, m)[i]) : i \in 1..k}]
        BY <2>4 DEF Read
      <3> DEFINE T == {Meaning(Prefixed(packet, m)[i]) : i \in 1..k}
      <3> HIDE DEF T
      <3>2. k \in Nat /\ got \in [1..k -> T]
        BY <2>2, <3>1 DEF T
      <3>3. got \in Seq(T)
        BY <3>2, SeqDef
      <3>4. Len(got) = k
        BY <3>2, <3>3, LenProperties
      <3>5. QED
        BY <1>1, <3>4
    <2>6. got[1] = m
      <3>1. 1 \in 1..1 /\ got[1] = Meaning(Prefixed(packet, m)[1])
        BY <2>4, <2>5 DEF Read
      <3>2. Prefixed(packet, m)[1] = VarInt(m)
        BY <2>2, PrefixedIs
      <3>3. QED
        BY <3>1, <3>2 DEF Meaning, VarInt, Visit
    <2>7. at = Segs(m)
      <3>1. Grows(packet, 0) /\ 0 + 1 = 1
        BY <2>2, StreamGrows
      <3>2. /\ Len(Stream(packet, 0)) \in Nat
            /\ Len(Stream(packet, 1)) = Len(Stream(packet, 0)) + Len(Bytes(Prefixed(packet, m)[1]))
        BY <3>1 DEF Grows
      <3>3. Len(Stream(packet, 0)) = 0
        BY EmptySeq DEF Stream
      <3>4. Bytes(Prefixed(packet, m)[1]) = VarIntBytes(m)
        <4>1. Prefixed(packet, m)[1] = VarInt(m)
          BY <2>2, PrefixedIs
        <4>2. QED
          BY <2>2, <4>1, SizeItem
      <3>5. m < Word
        <4>1. Item(VarInt(m)) /\ Passes(VarInt(m))
          BY <2>2, SizeItem
        <4>2. VarInt(m).kind = "varint" /\ VarInt(m).n = m
          BY DEF VarInt, Visit
        <4>3. QED
          BY <4>1, <4>2 DEF Item, Passes
      <3>6. Len(VarIntBytes(m)) = Segs(m) /\ Segs(m) \in 1..Segments /\ Segments \in Nat
        BY <2>2, <3>5, VarIntBytesAre, SegsIs, WidthAssumption
      <3>7. QED
        BY <2>4, <2>5, <3>2, <3>3, <3>4, <3>6
    <2>8. at \in Nat
      BY <1>1 DEF CodecInv, TypeOK
    <2>9. QED
      BY <2>2, <2>3, <2>6, <2>7, <2>8
  <1>2. CodecInv => FramesThePacket
    BY <1>1 DEF FramesThePacket
  <1>3. QED
    BY <1>2, CodecInvHolds, PTL

(* What is read is what was serialized, whatever the packet.               *)
THEOREM PacketsAreKept == Spec => []RoundTrip
  <1>1. ASSUME CodecInv, pass = "done", success
        PROVE  got = <<packetSize, packet.id>>
                     \o [i \in DOMAIN packet.fields |->
                           LET f == packet.fields[i] IN
                           IF f.kind = "varint" THEN f.n ELSE Content(f.n)]
    <2> DEFINE n == Count(packet)
               m == Payload(packet)
               V == Prefixed(packet, m)
               T == Int \cup Seq(Byte)
               a == <<packetSize, packet.id>>
               g == [i \in DOMAIN packet.fields |-> Meaning(packet.fields[i])]
    <2>1. packet \in Packet /\ packetSize = m /\ got = Read(packet, n + 1)
      BY <1>1 DEF CodecInv, DoneInv
    <2>2. /\ n \in Nat \ {0} /\ DOMAIN packet.fields = 1..(n - 1) /\ Items(packet)[1] = VarInt(packet.id)
          /\ \A i \in 1..(n - 1) : Items(packet)[i + 1] = packet.fields[i]
      BY <2>1, ItemsAre
    <2>3. m \in Nat /\ packet.id \in Int
      <3>1. m \in Nat
        BY <2>1, FlatIs
      <3>2. packet.id \in 0..2
        BY <2>1, PacketIs DEF Serializable
      <3>3. QED
        BY <3>1, <3>2
    <2>4. V[1] = VarInt(m) /\ \A i \in 1..n : V[i + 1] = Items(packet)[i]
      BY <2>1, <2>3, PrefixedIs
    <2>5. \A i \in 1..n : Item(Items(packet)[i])
      BY <2>1, ItemIs
    <2>6. \A f : Item(f) => Meaning(f) \in T
      BY DEF Item, Meaning
    <2>7. \A v : Meaning(VarInt(v)) = v
      BY DEF Meaning, VarInt, Visit
    <2> HIDE DEF n, m, V, T
    <2>8. a \in Seq(T) /\ Len(a) = 2 /\ a[1] = m /\ a[2] = packet.id
      BY <2>1, <2>3 DEF T
    <2>9. g \in Seq(T) /\ Len(g) = n - 1 /\ \A i \in 1..(n - 1) : g[i] = Meaning(packet.fields[i])
      <3>1. \A i \in 1..(n - 1) : Meaning(packet.fields[i]) \in T
        <4> SUFFICES ASSUME NEW i \in 1..(n - 1) PROVE Meaning(packet.fields[i]) \in T
          OBVIOUS
        <4>1. i + 1 \in 1..n /\ Items(packet)[i + 1] = packet.fields[i]
          BY <2>2
        <4>2. Item(packet.fields[i])
          BY <2>5, <4>1
        <4>3. QED
          BY <2>6, <4>2
      <3>2. g \in [1..(n - 1) -> T] /\ \A i \in 1..(n - 1) : g[i] = Meaning(packet.fields[i])
        BY <2>2, <3>1
      <3> HIDE DEF g
      <3>3. n - 1 \in Nat
        BY <2>2
      <3>4. g \in Seq(T)
        BY <3>2, <3>3, SeqDef
      <3>5. QED
        BY <3>2, <3>3, <3>4, LenProperties
    <2>10. got \in Seq(T) /\ Len(got) = n + 1 /\ \A i \in 1..(n + 1) : got[i] = Meaning(V[i])
      <3>1. got = [i \in 1..(n + 1) |-> Meaning(V[i])]
        BY <2>1 DEF Read, V, m
      <3>2. \A i \in 1..(n + 1) : Meaning(V[i]) \in T
        <4> SUFFICES ASSUME NEW i \in 1..(n + 1) PROVE Meaning(V[i]) \in T
          OBVIOUS
        <4>1. CASE i = 1
          BY <2>3, <2>4, <2>7, <4>1 DEF T
        <4>2. CASE i # 1
          <5>1. i - 1 \in 1..n /\ (i - 1) + 1 = i
            BY <2>2, <4>2
          <5>2. V[i] = Items(packet)[i - 1] /\ Item(Items(packet)[i - 1])
            BY <2>4, <2>5, <5>1
          <5>3. QED
            BY <2>6, <5>2
        <4>3. QED
          BY <4>1, <4>2
      <3>3. n + 1 \in Nat /\ got \in [1..(n + 1) -> T]
        BY <2>2, <3>1, <3>2
      <3>4. got \in Seq(T)
        BY <3>3, SeqDef
      <3>5. QED
        BY <3>1, <3>3, <3>4, LenProperties
    <2> HIDE DEF a, g
    <2>11. /\ a \o g \in Seq(T) /\ Len(a \o g) = n + 1
           /\ \A i \in 1..(n + 1) : (a \o g)[i] = IF i <= 2 THEN a[i] ELSE g[i - 2]
      <3>1. 2 + (n - 1) = n + 1
        BY <2>2
      <3>2. /\ a \o g \in Seq(T) /\ Len(a \o g) = Len(a) + Len(g)
            /\ \A i \in 1..(Len(a) + Len(g)) :
                 (a \o g)[i] = IF i <= Len(a) THEN a[i] ELSE g[i - Len(a)]
        BY <2>8, <2>9, ConcatProperties
      <3>3. QED
        BY <2>8, <2>9, <3>1, <3>2
    <2>12. ASSUME NEW i \in 1..(n + 1) PROVE got[i] = (a \o g)[i]
      <3>1. CASE i = 1
        <4>1. got[1] = Meaning(V[1]) /\ (a \o g)[1] = a[1]
          BY <2>10, <2>11, <3>1
        <4>2. QED
          BY <2>4, <2>7, <2>8, <3>1, <4>1
      <3>2. CASE i = 2
        <4>1. 1 \in 1..n /\ 1 + 1 = 2
          BY <2>2
        <4>2. V[2] = VarInt(packet.id)
          BY <2>2, <2>4, <4>1
        <4>3. QED
          <5>1. got[2] = Meaning(V[2]) /\ (a \o g)[2] = a[2]
            BY <2>10, <2>11, <3>2
          <5>2. QED
            BY <2>7, <2>8, <3>2, <4>2, <5>1
      <3>3. CASE i > 2
        <4> DEFINE j == i - 2
        <4>1. /\ j \in 1..(n - 1) /\ j + 1 \in 1..n /\ (j + 1) + 1 = i /\ ~(i <= 2)
          BY <2>2, <3>3
        <4>2. V[i] = packet.fields[j]
          BY <2>2, <2>4, <4>1
        <4>3. (a \o g)[i] = g[j]
          BY <2>11, <4>1
        <4>4. got[i] = Meaning(V[i])
          BY <2>10
        <4> HIDE DEF j
        <4>5. g[j] = Meaning(packet.fields[j])
          BY <2>9, <4>1
        <4>6. QED
          BY <4>2, <4>3, <4>4, <4>5
      <3>4. i = 1 \/ i = 2 \/ i > 2
        BY <2>2
      <3>5. QED
        BY <3>1, <3>2, <3>3, <3>4
    <2>13. got = a \o g
      BY <2>10, <2>11, <2>12, SeqEqual
    <2>14. QED
      BY <2>13 DEF a, g, Meaning
  <1>2. CodecInv => RoundTrip
    BY <1>1 DEF RoundTrip
  <1>3. QED
    BY <1>2, CodecInvHolds, PTL
=============================================================================
