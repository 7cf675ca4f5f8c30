----------------------------- MODULE DataProofs -----------------------------
(***************************************************************************)
(* Induction and recursion over the naturals, stated with sets and         *)
(* functions where the library has operators: what the loops of the code   *)
(* compute, for data of every length, is proved with these.  Then what the *)
(* parts of a sequence are, and what numerals denote.                      *)
(***************************************************************************)
EXTENDS Numerals, SequenceTheorems, WellFoundedInduction, TLAPS

(* Every set of naturals has a least element.                              *)
LEMMA LeastNatural ==
  ASSUME NEW T \in SUBSET Nat, T # {}
  PROVE  \E x \in T : \A y \in T : ~ (y < x)
  <1> DEFINE R == OpToRel(<, Nat)
  <1>1. IsWellFoundedOn(R, Nat)
    BY NatLessThanWellFounded
  <1> HIDE DEF R
  <1>2. PICK x \in T : \A y \in T : ~(<<y, x>> \in R)
    BY <1>1, WFMin
  <1>3. \A y \in T : <<y, x>> \in R <=> y < x
    BY DEF OpToRel, R
  <1>4. QED
    BY <1>2, <1>3

(* A set with 0 that has with every number the next has all of them.       *)
LEMMA SetInduction ==
  ASSUME NEW S, 0 \in S, \A n \in Nat : n \in S => n + 1 \in S
  PROVE  \A n \in Nat : n \in S
  <1> DEFINE T == Nat \ S
  <1> SUFFICES ASSUME T # {} PROVE FALSE
    OBVIOUS
  <1>1. PICK x \in T : \A y \in T : ~(y < x)
    BY LeastNatural
  <1>2. x # 0 /\ x \in Nat
    BY <1>1
  <1>3. x - 1 \in Nat /\ x - 1 < x
    BY <1>2
  <1>4. x - 1 \in S
    BY <1>1, <1>3
  <1>5. (x - 1) + 1 \in S
    BY <1>3, <1>4
  <1>6. QED
    BY <1>1, <1>2, <1>5

(* What f[i] is after i rounds of a loop, n in all.                        *)
HasLoop(X, x, n, G) ==
    \E f \in [0..n -> X] : f[0] = x /\ \A i \in 1..n : f[i] = G[i][f[i - 1]]

(* A loop of n rounds that starts with x and takes with G from each round  *)
(* to the next computes something, round by round.                         *)
LEMMA LoopExists ==
  ASSUME NEW X, NEW x \in X, NEW n \in Nat, NEW G \in [1..n -> [X -> X]]
  PROVE  HasLoop(X, x, n, G)
  <1> DEFINE Loop(f, m) ==
               f[0] = x /\ \A i \in 1..m : f[i] = G[i][f[i - 1]]
             S == {m \in Nat : m <= n => \E f \in [0..m -> X] : Loop(f, m)}
  <1>1. 0 \in S
    <2> DEFINE f == [i \in 0..0 |-> x]
    <2>1. f \in [0..0 -> X] /\ Loop(f, 0)
      OBVIOUS
    <2>2. QED
      BY <2>1
  <1>2. ASSUME NEW m \in Nat, m \in S PROVE m + 1 \in S
    <2> SUFFICES ASSUME m + 1 <= n
                 PROVE  \E f \in [0..(m + 1) -> X] : Loop(f, m + 1)
      OBVIOUS
    <2>1. PICK g \in [0..m -> X] : Loop(g, m)
      BY <1>2
    <2> DEFINE f == [i \in 0..(m + 1) |-> IF i <= m THEN g[i] ELSE G[m + 1][g[m]]]
    <2>2. G[m + 1][g[m]] \in X
      OBVIOUS
    <2>3. f \in [0..(m + 1) -> X]
      BY <2>2
    <2>4. f[0] = x
      BY <2>1
    <2>5. ASSUME NEW i \in 1..(m + 1) PROVE f[i] = G[i][f[i - 1]]
      <3>1. CASE i <= m
        BY <2>1, <3>1
      <3>2. CASE i = m + 1
        BY <3>2
      <3>3. QED
        BY <3>1, <3>2
    <2>6. QED
      BY <2>3, <2>4, <2>5
  <1> HIDE DEF S
  <1>3. n \in S
    BY <1>1, <1>2, SetInduction
  <1>4. QED
    BY <1>3 DEF S, HasLoop

(* Two loops that start alike and go on alike are alike.                   *)
Alike(n, f, g) == \A i \in 0..n : f[i] = g[i]

LEMMA LoopUnique ==
  ASSUME NEW n \in Nat, NEW f, NEW g, f[0] = g[0],
         \A i \in 1..n : f[i - 1] = g[i - 1] => f[i] = g[i]
  PROVE  Alike(n, f, g)
  <1> DEFINE S == {m \in Nat : m <= n => f[m] = g[m]}
  <1>1. 0 \in S
    OBVIOUS
  <1>2. ASSUME NEW m \in Nat, m \in S PROVE m + 1 \in S
    <2> DEFINE i == m + 1
    <2>1. i <= n => f[i] = g[i]
      <3>1. i \in Nat /\ i - 1 = m /\ (i <= n => i \in 1..n /\ f[m] = g[m])
        BY <1>2
      <3> HIDE DEF i
      <3>2. QED
        BY <3>1
    <2>2. QED
      BY <2>1
  <1> HIDE DEF S
  <1>3. \A m \in Nat : m \in S
    BY <1>1, <1>2, SetInduction
  <1>4. QED
    BY <1>3 DEF S, Alike

(***************************************************************************)
(* Parts of sequences.                                                     *)
(***************************************************************************)

(* The elements of a part of a sequence.                                   *)
LEMMA PartIs ==
  ASSUME NEW S, NEW a \in Seq(S), NEW m \in Nat \ {0}, NEW n \in Nat,
         n <= Len(a), m <= n + 1
  PROVE  /\ SubSeq(a, m, n) \in Seq(S) /\ Len(SubSeq(a, m, n)) = n - m + 1
         /\ \A i \in 1..(n - m + 1) : SubSeq(a, m, n)[i] = a[m + i - 1]
  <1>1. Len(a) \in Nat
    OBVIOUS
  <1>2. \A i \in m..n : a[i] \in S
    <2> SUFFICES ASSUME NEW i \in m..n PROVE a[i] \in S
      OBVIOUS
    <2>1. i \in 1..Len(a)
      BY <1>1
    <2>2. QED
      BY <2>1, ElementOfSeq
  <1>3. /\ SubSeq(a, m, n) \in Seq(S)
        /\ Len(SubSeq(a, m, n)) = IF m <= n THEN n - m + 1 ELSE 0
        /\ \A i \in 1..(n - m + 1) : SubSeq(a, m, n)[i] = a[m + i - 1]
    <2>1. m \in Int /\ n \in Int
      OBVIOUS
    <2>2. QED
      BY <1>2, <2>1, SubSeqProperties
  <1>4. QED
    BY <1>3

(* A part of a sequence is that part of a longer one.                      *)
LEMMA PartOfPrefix ==
  ASSUME NEW S, NEW a \in Seq(S), NEW b \in Seq(S), NEW m \in Nat \ {0},
         NEW n \in Nat, n <= Len(a), m <= n + 1
  PROVE  SubSeq(a \o b, m, n) = SubSeq(a, m, n)
  <1>1. /\ a \o b \in Seq(S) /\ Len(a \o b) = Len(a) + Len(b)
        /\ \A i \in 1..(Len(a) + Len(b)) :
             (a \o b)[i] = IF i <= Len(a) THEN a[i] ELSE b[i - Len(a)]
        /\ Len(a) \in Nat /\ Len(b) \in Nat
    BY ConcatProperties
  <1> DEFINE l == n - m + 1
  <1>2. /\ SubSeq(a, m, n) \in Seq(S) /\ Len(SubSeq(a, m, n)) = l
        /\ \A i \in 1..l : SubSeq(a, m, n)[i] = a[m + i - 1]
    BY PartIs
  <1>3. /\ SubSeq(a \o b, m, n) \in Seq(S) /\ Len(SubSeq(a \o b, m, n)) = l
        /\ \A i \in 1..l : SubSeq(a \o b, m, n)[i] = (a \o b)[m + i - 1]
    <2>1. n <= Len(a \o b)
      BY <1>1
    <2>2. QED
      BY <1>1, <2>1, PartIs
  <1>4. ASSUME NEW i \in 1..l PROVE (a \o b)[m + i - 1] = a[m + i - 1]
    <2>1. m + i - 1 \in 1..(Len(a) + Len(b)) /\ m + i - 1 <= Len(a)
      BY <1>1
    <2>2. QED
      BY <1>1, <2>1
  <1> HIDE DEF l
  <1>5. QED
    BY <1>2, <1>3, <1>4, SeqEqual

(* A part of what was appended is a part of the longer sequence.           *)
LEMMA PartOfSuffix ==
  ASSUME NEW S, NEW a \in Seq(S), NEW b \in Seq(S), NEW n \in Nat, n <= Len(b)
  PROVE  SubSeq(a \o b, Len(a) + 1, Len(a) + n) = SubSeq(b, 1, n)
  <1>1. /\ a \o b \in Seq(S) /\ Len(a \o b) = Len(a) + Len(b)
        /\ \A i \in 1..(Len(a) + Len(b)) :
             (a \o b)[i] = IF i <= Len(a) THEN a[i] ELSE b[i - Len(a)]
        /\ Len(a) \in Nat /\ Len(b) \in Nat
    BY ConcatProperties
  <1> DEFINE m == Len(a) + 1
             h == Len(a) + n
  <1>2. /\ SubSeq(b, 1, n) \in Seq(S) /\ Len(SubSeq(b, 1, n)) = n
        /\ \A i \in 1..n : SubSeq(b, 1, n)[i] = b[i]
    <2>1. /\ SubSeq(b, 1, n) \in Seq(S) /\ Len(SubSeq(b, 1, n)) = n - 1 + 1
          /\ \A i \in 1..(n - 1 + 1) : SubSeq(b, 1, n)[i] = b[1 + i - 1]
      BY PartIs
    <2>2. n - 1 + 1 = n /\ \A i \in 1..n : 1 + i - 1 = i
      OBVIOUS
    <2>3. QED
      BY <2>1, <2>2
  <1>3. /\ SubSeq(a \o b, m, h) \in Seq(S) /\ Len(SubSeq(a \o b, m, h)) = n
        /\ \A i \in 1..n : SubSeq(a \o b, m, h)[i] = (a \o b)[m + i - 1]
    <2>1. /\ h <= Len(a \o b) /\ m <= h + 1 /\ h - m + 1 = n
          /\ m \in Nat \ {0} /\ h \in Nat
      BY <1>1
    <2> HIDE DEF m, h
    <2>2. QED
      BY <1>1, <2>1, PartIs
  <1>4. ASSUME NEW i \in 1..n PROVE (a \o b)[m + i - 1] = b[i]
    <2>1. /\ m + i - 1 \in 1..(Len(a) + Len(b)) /\ m + i - 1 > Len(a)
          /\ m + i - 1 - Len(a) = i
      BY <1>1
    <2>2. QED
      BY <1>1, <2>1
  <1>5. SubSeq(a \o b, m, h) = SubSeq(b, 1, n)
    <2> DEFINE c == SubSeq(a \o b, m, h)
               d == SubSeq(b, 1, n)
    <2>1. /\ c \in Seq(S) /\ d \in Seq(S) /\ Len(c) = n /\ Len(d) = n
          /\ \A i \in 1..n : c[i] = (a \o b)[m + i - 1] /\ d[i] = b[i]
      BY <1>2, <1>3
    <2> HIDE DEF c, d
    <2>2. \A i \in 1..Len(c) : c[i] = d[i]
      BY <1>4, <2>1
    <2>3. c = d
      BY <2>1, <2>2, SeqEqual
    <2>4. QED
      BY <2>3 DEF c, d
  <1>6. QED
    BY <1>5

(* Sequences over a set are sequences over a larger one.                   *)
LEMMA SeqOfMore ==
  ASSUME NEW S, NEW T, S \subseteq T, NEW s \in Seq(S)
  PROVE  s \in Seq(T)
  <1>1. s \in [1..Len(s) -> S] /\ Len(s) \in Nat
    BY LenProperties
  <1>2. s \in [1..Len(s) -> T]
    BY <1>1
  <1>3. QED
    BY <1>1, <1>2, SeqDef

(* f has, for every k, the first k elements of s, one behind the other.    *)
Running(X, s, f) ==
    /\ f \in [0..Len(s) -> Seq(X)] /\ f[0] = <<>>
    /\ \A i \in 1..Len(s) : f[i] = f[i - 1] \o s[i]

HasRunning(X, s) == \E f : Running(X, s, f)

(* There is such an f.                                                     *)
LEMMA RunningExists ==
  ASSUME NEW X, NEW s \in Seq(Seq(X))
  PROVE  HasRunning(X, s)
  <1> DEFINE n == Len(s)
             Y == Seq(X)
             G == [i \in 1..n |-> [c \in Y |-> c \o s[i]]]
  <1>1. n \in Nat /\ <<>> \in Y /\ \A i \in 1..n : s[i] \in Y
    BY ElementOfSeq
  <1>2. G \in [1..n -> [Y -> Y]]
    <2>1. \A i \in 1..n : \A c \in Y : c \o s[i] \in Y
      BY <1>1, ConcatProperties
    <2>2. QED
      BY <2>1
  <1>3. HasLoop(Y, <<>>, n, G)
    <2> HIDE DEF G, n, Y
    <2>1. QED
      BY <1>1, <1>2, LoopExists
  <1>4. PICK f \in [0..n -> Y] : f[0] = <<>> /\ \A i \in 1..n : f[i] = G[i][f[i - 1]]
    BY <1>3 DEF HasLoop
  <1>5. ASSUME NEW i \in 1..n PROVE f[i] = f[i - 1] \o s[i]
    <2>1. f[i - 1] \in Y
      OBVIOUS
    <2>2. QED
      BY <1>4, <2>1
  <1>6. QED
    BY <1>4, <1>5 DEF Running, HasRunning

(***************************************************************************)
(* Powers, division and numerals.                                          *)
(***************************************************************************)

(* f has the powers of b up to the n-th.                                   *)
Powers(b, n, f) ==
    f \in [0..n -> Nat \ {0}] /\ f[0] = 1 /\ \A i \in 1..n : f[i] = b * f[i - 1]

LEMMA PowersExist ==
  ASSUME NEW b \in Nat \ {0}, NEW n \in Nat
  PROVE  \E f : Powers(b, n, f)
  <1> DEFINE X == Nat \ {0}
             G == [i \in 1..n |-> [c \in X |-> b * c]]
  <1>1. \A c \in X : b * c \in X
    OBVIOUS
  <1>2. G \in [1..n -> [X -> X]]
    BY <1>1
  <1>3. HasLoop(X, 1, n, G)
    <2>1. 1 \in X
      OBVIOUS
    <2> HIDE DEF G, X
    <2>2. QED
      BY <1>2, <2>1, LoopExists
  <1>4. PICK f \in [0..n -> X] : f[0] = 1 /\ \A i \in 1..n : f[i] = G[i][f[i - 1]]
    BY <1>3 DEF HasLoop
  <1>5. ASSUME NEW i \in 1..n PROVE f[i] = b * f[i - 1]
    <2>1. f[i - 1] \in X
      OBVIOUS
    <2>2. QED
      BY <1>4, <2>1
  <1>6. QED
    BY <1>4, <1>5 DEF Powers

LEMMA PowerFrom ==
  ASSUME NEW b \in Nat \ {0}, NEW n \in Nat, NEW f, Powers(b, n, f)
  PROVE  Power(b, n) = f[n]
  <1> DEFINE Rounds(g) == [k \in 0..n |-> IF k = 0 THEN 1 ELSE b * g[k - 1]]
             g == CHOOSE h : h = Rounds(h)
  <1>1. f \in [0..n -> Nat \ {0}] /\ f[0] = 1 /\ \A i \in 1..n : f[i] = b * f[i - 1]
    BY DEF Powers
  <1>2. f = Rounds(f)
    BY <1>1
  <1>3. g = Rounds(g)
    BY <1>2, Zenon
  <1>4. Power(b, n) = g[n]
    BY DEF Power
  <1> HIDE DEF g
  <1>5. g[0] = 1 /\ \A i \in 1..n : g[i] = b * g[i - 1]
    BY <1>3
  <1>6. Alike(n, f, g)
    <2>1. f[0] = g[0] /\ \A i \in 1..n : f[i - 1] = g[i - 1] => f[i] = g[i]
      BY <1>1, <1>5
    <2>2. QED
      BY <2>1, LoopUnique
  <1>7. QED
    BY <1>4, <1>6 DEF Alike

(* What Power computes.                                                    *)
LEMMA PowerIs ==
  ASSUME NEW b \in Nat \ {0}
  PROVE  /\ Power(b, 0) = 1
         /\ \A n \in Nat : Power(b, n) \in Nat \ {0} /\ Power(b, n + 1) = b * Power(b, n)
  <1>1. ASSUME NEW n \in Nat
        PROVE  Power(b, n) \in Nat \ {0} /\ Power(b, n + 1) = b * Power(b, n)
    <2> DEFINE m == n + 1
    <2>1. m \in Nat /\ m - 1 = n /\ n \in 0..m /\ m \in 1..m
      OBVIOUS
    <2> HIDE DEF m
    <2>2. PICK f : Powers(b, m, f)
      BY <2>1, PowersExist
    <2> DEFINE g == [i \in 0..n |-> f[i]]
    <2>3. f \in [0..m -> Nat \ {0}] /\ f[0] = 1 /\ \A i \in 1..m : f[i] = b * f[i - 1]
      BY <2>2 DEF Powers
    <2>4. Powers(b, n, g)
      <3>1. \A i \in 0..n : i \in 0..m /\ (i # 0 => i \in 1..m /\ i - 1 \in 0..n)
        BY <2>1
      <3>2. g \in [0..n -> Nat \ {0}] /\ g[0] = 1
        BY <2>3, <3>1
      <3>3. ASSUME NEW i \in 1..n PROVE g[i] = b * g[i - 1]
        <4>1. i \in 0..n /\ i # 0
          OBVIOUS
        <4>2. QED
          BY <2>3, <3>1, <4>1
      <3>4. QED
        BY <3>2, <3>3 DEF Powers
    <2>5. Power(b, n) = f[n] /\ Power(b, m) = f[m]
      <3>1. Power(b, n) = g[n] /\ g[n] = f[n]
        BY <2>4, PowerFrom
      <3>2. QED
        BY <2>1, <2>2, <3>1, PowerFrom
    <2>6. f[m] = b * f[n] /\ f[n] \in Nat \ {0}
      BY <2>1, <2>3
    <2>7. QED
      BY <2>5, <2>6 DEF m
  <1>2. Power(b, 0) = 1
    <2>1. PICK f : Powers(b, 0, f)
      BY PowersExist
    <2>2. f[0] = 1
      BY <2>1 DEF Powers
    <2>3. QED
      BY <2>1, <2>2, PowerFrom
  <1>3. QED
    BY <1>1, <1>2

(* Division with remainder, and that there is no other one.                *)
LEMMA Division ==
  ASSUME NEW a \in Nat, NEW p \in Nat \ {0}
  PROVE  a \div p \in Nat /\ a % p \in 0..(p - 1) /\ a = p * (a \div p) + (a % p)
  OBVIOUS

LEMMA DivisionUnique ==
  ASSUME NEW a \in Nat, NEW p \in Nat \ {0}, NEW q \in Int, NEW r \in 0..(p - 1),
         a = p * q + r
  PROVE  a \div p = q /\ a % p = r
  OBVIOUS

(* Dividing by p and then by b is dividing by both at once.                *)
DividesTwice(a, p, b) ==
    /\ b * p \in Nat \ {0}
    /\ a \div (b * p) = (a \div p) \div b
    /\ a % (b * p) = (a % p) + ((a \div p) % b) * p
    /\ (a \div p < b <=> a < b * p)

LEMMA DivisionTwice ==
  ASSUME NEW a \in Nat, NEW p \in Nat \ {0}, NEW b \in Nat \ {0}
  PROVE  DividesTwice(a, p, b)
  <1> DEFINE q == a \div p
             r == a % p
             s == q \div b
             t == q % b
  <1>1. q \in Nat /\ r \in 0..(p - 1) /\ a = p * q + r
    BY Division
  <1>2. s \in Nat /\ t \in 0..(b - 1) /\ q = b * s + t
    BY <1>1, Division
  <1>3. b * p \in Nat \ {0}
    OBVIOUS
  <1> HIDE DEF q, r, s, t
  <1>4. a = (b * p) * s + (r + t * p)
    <2>1. p * q = p * (b * s) + p * t
      BY <1>1, <1>2
    <2>2. p * (b * s) = (b * p) * s
      BY <1>2
    <2>3. QED
      BY <1>1, <1>2, <2>1, <2>2
  <1>5. r + t * p \in 0..(b * p - 1)
    <2>1. t * p <= (b - 1) * p /\ t * p \in Nat
      BY <1>2
    <2>2. (b - 1) * p = b * p - p
      OBVIOUS
    <2>3. QED
      BY <1>1, <2>1, <2>2, <1>3
  <1>6. a \div (b * p) = s /\ a % (b * p) = r + t * p
    <2> DEFINE P == b * p
               R == r + t * p
    <2>1. P \in Nat \ {0} /\ R \in 0..(P - 1) /\ a = P * s + R /\ s \in Int
      BY <1>2, <1>3, <1>4, <1>5
    <2> HIDE DEF P, R
    <2>2. a \div P = s /\ a % P = R
      BY <2>1, DivisionUnique
    <2>3. QED
      BY <2>2 DEF P, R
  <1>7. q < b <=> a < b * p
    <2>1. CASE q < b
      <3>1. p * q <= p * (b - 1)
        BY <1>1, <2>1
      <3>2. p * (b - 1) = b * p - p
        OBVIOUS
      <3>3. QED
        BY <1>1, <1>3, <2>1, <3>1, <3>2
    <2>2. CASE q >= b
      <3>1. p * q >= p * b /\ p * b = b * p
        BY <1>1, <2>2
      <3>2. QED
        BY <1>1, <1>3, <2>2, <3>1
    <2>3. QED
      BY <1>1, <2>1, <2>2
  <1>8. QED
    BY <1>3, <1>6, <1>7 DEF q, r, s, t, DividesTwice

(* Powers grow.                                                            *)
LEMMA PowersGrow ==
  ASSUME NEW b \in Nat \ {0, 1}, NEW m \in Nat, NEW n \in Nat, m < n
  PROVE  Power(b, m) < Power(b, n) /\ b * Power(b, m) <= Power(b, n)
  <1> DEFINE S == {d \in Nat : b * Power(b, m) <= Power(b, (m + 1) + d)}
  <1>0. \A k \in Nat : Power(b, k) \in Nat \ {0} /\ Power(b, k + 1) = b * Power(b, k)
    BY PowerIs
  <1>1. 0 \in S
    <2>1. (m + 1) + 0 = m + 1
      OBVIOUS
    <2>2. Power(b, m + 1) = b * Power(b, m) /\ Power(b, m + 1) \in Nat
      BY <1>0
    <2>3. QED
      BY <2>1, <2>2
  <1>2. ASSUME NEW d \in Nat, d \in S PROVE d + 1 \in S
    <2> DEFINE k == (m + 1) + d
               x == Power(b, k)
               y == b * Power(b, m)
    <2>1. k \in Nat /\ (m + 1) + (d + 1) = k + 1 /\ y <= x
      BY <1>2
    <2>2. x \in Nat /\ Power(b, k + 1) = b * x /\ y \in Nat
      BY <1>0, <2>1
    <2> HIDE DEF k, x, y
    <2>3. x <= b * x /\ b * x \in Nat
      BY <2>2
    <2>4. y <= Power(b, (m + 1) + (d + 1))
      BY <2>1, <2>2, <2>3
    <2>5. QED
      BY <2>4 DEF y
  <1> HIDE DEF S
  <1>3. n - (m + 1) \in S
    <2>1. n - (m + 1) \in Nat
      OBVIOUS
    <2>2. QED
      BY <1>1, <1>2, <2>1, SetInduction
  <1>4. b * Power(b, m) <= Power(b, n)
    <2>1. (m + 1) + (n - (m + 1)) = n
      OBVIOUS
    <2>2. QED
      BY <1>3, <2>1 DEF S
  <1>5. Power(b, m) < b * Power(b, m) /\ Power(b, n) \in Nat /\ b * Power(b, m) \in Nat
    <2> DEFINE x == Power(b, m)
    <2>1. x \in Nat \ {0} /\ Power(b, n) \in Nat
      BY <1>0
    <2> HIDE DEF x
    <2>2. x < b * x /\ b * x \in Nat
      BY <2>1
    <2>3. QED
      BY <2>1, <2>2 DEF x
  <1>6. QED
    BY <1>0, <1>4, <1>5

(* Digits of the square of the base are pairs of digits.                   *)
LEMMA PowersOfSquare ==
  ASSUME NEW b \in Nat \ {0}, NEW n \in Nat
  PROVE  Power(b * b, n) = Power(b, 2 * n)
  <1> DEFINE S == {k \in Nat : Power(b * b, k) = Power(b, 2 * k)}
  <1>0. b * b \in Nat \ {0}
    OBVIOUS
  <1>1. 0 \in S
    <2>1. 2 * 0 = 0
      OBVIOUS
    <2>2. QED
      BY <1>0, <2>1, PowerIs
  <1>2. ASSUME NEW k \in Nat, k \in S PROVE k + 1 \in S
    <2> DEFINE j == 2 * k
    <2>1. j \in Nat /\ 2 * (k + 1) = (j + 1) + 1
      OBVIOUS
    <2>2. Power(b * b, k) = Power(b, j)
      BY <1>2
    <2> HIDE DEF j
    <2>3. Power(b * b, k + 1) = (b * b) * Power(b, j)
      BY <1>0, <2>2, PowerIs
    <2>4. /\ Power(b, j) \in Nat /\ Power(b, j + 1) = b * Power(b, j)
          /\ Power(b, (j + 1) + 1) = b * Power(b, j + 1)
      <3>1. j + 1 \in Nat
        BY <2>1
      <3>2. QED
        BY <2>1, <3>1, PowerIs
    <2>5. (b * b) * Power(b, j) = b * (b * Power(b, j))
      BY <2>4
    <2>6. QED
      BY <2>1, <2>3, <2>4, <2>5
  <1> HIDE DEF S
  <1>3. \A k \in Nat : k \in S
    BY <1>1, <1>2, SetInduction
  <1>4. QED
    BY <1>3 DEF S

(* f has the values of the first digits of d.                              *)
Values(b, d, f) ==
    /\ f \in [0..Len(d) -> Nat] /\ f[0] = 0
    /\ \A i \in 1..Len(d) : f[i] = b * f[i - 1] + d[i]

LEMMA ValueFrom ==
  ASSUME NEW b \in Nat, NEW d \in Seq(Nat), NEW f, Values(b, d, f)
  PROVE  Value(b, d) = f[Len(d)]
  <1> DEFINE n == Len(d)
             Rounds(g) == [k \in 0..n |-> IF k = 0 THEN 0 ELSE b * g[k - 1] + d[k]]
             g == CHOOSE h : h = Rounds(h)
  <1>1. /\ n \in Nat /\ f \in [0..n -> Nat] /\ f[0] = 0
        /\ \A i \in 1..n : f[i] = b * f[i - 1] + d[i]
    BY DEF Values
  <1>2. f = Rounds(f)
    BY <1>1
  <1>3. g = Rounds(g)
    BY <1>2, Zenon
  <1>4. Value(b, d) = g[n]
    BY DEF Value
  <1> HIDE DEF g, n
  <1>5. g[0] = 0 /\ \A i \in 1..n : g[i] = b * g[i - 1] + d[i]
    <2>1. \A i \in 0..n : g[i] = IF i = 0 THEN 0 ELSE b * g[i - 1] + d[i]
      BY <1>3
    <2>2. 0 \in 0..n /\ \A i \in 1..n : i \in 0..n /\ i # 0
      BY <1>1
    <2>3. QED
      BY <2>1, <2>2, Zenon
  <1>6. Alike(n, f, g)
    <2>1. n \in Nat /\ f[0] = g[0]
      BY <1>1, <1>5
    <2>2. \A i \in 1..n : f[i - 1] = g[i - 1] => f[i] = g[i]
      BY <1>1, <1>5
    <2> HIDE DEF Rounds
    <2>3. QED
      BY <2>1, <2>2, LoopUnique
  <1>7. QED
    BY <1>1, <1>4, <1>6 DEF n, Alike

(* What Value computes.                                                    *)
LEMMA ValueIs ==
  ASSUME NEW b \in Nat, NEW d \in Seq(Nat)
  PROVE  \E f : Values(b, d, f) /\ Value(b, d) = f[Len(d)]
  <1> DEFINE n == Len(d)
             G == [i \in 1..n |-> [c \in Nat |-> b * c + d[i]]]
  <1>1. n \in Nat /\ \A i \in 1..n : d[i] \in Nat
    BY ElementOfSeq
  <1>2. G \in [1..n -> [Nat -> Nat]]
    <2>1. \A i \in 1..n : \A c \in Nat : b * c + d[i] \in Nat
      BY <1>1
    <2>2. QED
      BY <2>1
  <1>3. HasLoop(Nat, 0, n, G)
    <2> HIDE DEF G, n
    <2>1. QED
      BY <1>1, <1>2, LoopExists
  <1>4. PICK f \in [0..n -> Nat] : f[0] = 0 /\ \A i \in 1..n : f[i] = G[i][f[i - 1]]
    BY <1>3 DEF HasLoop
  <1>5. ASSUME NEW i \in 1..n PROVE f[i] = b * f[i - 1] + d[i]
    <2>1. f[i - 1] \in Nat
      OBVIOUS
    <2>2. QED
      BY <1>4, <2>1
  <1>6. Values(b, d, f)
    BY <1>4, <1>5 DEF Values
  <1>7. QED
    BY <1>6, ValueFrom

(* No digits denote zero.                                                  *)
LEMMA ValueOfNothing ==
  ASSUME NEW b \in Nat
  PROVE  Value(b, <<>>) = 0
  <1>1. <<>> \in Seq(Nat) /\ Len(<<>>) = 0
    OBVIOUS
  <1>2. PICK f : Values(b, <<>>, f) /\ Value(b, <<>>) = f[Len(<<>>)]
    BY <1>1, ValueIs
  <1>3. QED
    BY <1>1, <1>2 DEF Values

(* The digits of a number are digits, and denote it.                       *)
LEMMA DigitsDenote ==
  ASSUME NEW b \in Nat \ {0}, NEW k \in Nat, NEW n \in Nat, n < Power(b, k)
  PROVE  /\ Digits(b, n, k) \in Seq(0..(b - 1)) /\ Len(Digits(b, n, k)) = k
         /\ Value(b, Digits(b, n, k)) = n
  <1> DEFINE d == Digits(b, n, k)
             f == [j \in 0..k |-> n \div Power(b, k - j)]
  <1>1. \A i \in 0..k : k - i \in Nat /\ Power(b, k - i) \in Nat \ {0}
    <2>1. \A i \in 0..k : k - i \in Nat
      OBVIOUS
    <2>2. \A e \in Nat : Power(b, e) \in Nat \ {0}
      BY PowerIs
    <2>3. QED
      BY <2>1, <2>2
  <1>2. \A i \in 0..k : n \div Power(b, k - i) \in Nat
    BY <1>1, Division
  <1>3. \A i \in 1..k : (n \div Power(b, k - i)) % b \in 0..(b - 1)
    BY <1>2, Division
  <1>4. d \in Seq(0..(b - 1)) /\ Len(d) = k
    <2>1. d = [i \in 1..k |-> (n \div Power(b, k - i)) % b]
      BY DEF Digits
    <2> HIDE DEF d
    <2>2. d \in [1..k -> 0..(b - 1)]
      BY <1>3, <2>1
    <2>3. d \in Seq(0..(b - 1))
      BY <2>2, SeqDef
    <2>4. QED
      BY <2>2, <2>3, LenProperties
  <1>5. f[0] = 0
    <2>1. k - 0 = k
      OBVIOUS
    <2> DEFINE p == Power(b, k)
    <2>2. p \in Nat \ {0} /\ n < p
      BY PowerIs
    <2> HIDE DEF p
    <2>3. n = p * 0 + n /\ n \in 0..(p - 1)
      BY <2>2
    <2>4. n \div p = 0
      BY <2>2, <2>3, DivisionUnique
    <2>5. QED
      BY <2>1, <2>4 DEF p
  <1>6. ASSUME NEW i \in 1..k PROVE f[i] = b * f[i - 1] + d[i]
    <2> DEFINE e == k - i
               p == Power(b, e)
               q == n \div p
    <2>1. e \in Nat /\ k - (i - 1) = e + 1 /\ i - 1 \in 0..k /\ i \in 0..k
      OBVIOUS
    <2>2. p \in Nat \ {0} /\ Power(b, e + 1) = b * p /\ q \in Nat
      BY <1>2, <2>1, PowerIs
    <2>3. f[i - 1] = n \div Power(b, e + 1) /\ f[i] = q /\ d[i] = q % b
      BY <2>1 DEF Digits
    <2> HIDE DEF e, p, f, d, q
    <2>4. n \div (b * p) = q \div b
      <3>1. p \in Nat \ {0}
        BY <2>2
      <3>2. DividesTwice(n, p, b)
        BY <3>1, DivisionTwice
      <3>3. QED
        BY <3>2 DEF q, DividesTwice
    <2>5. q = b * (q \div b) + (q % b)
      BY <2>2, Division
    <2>6. QED
      BY <2>2, <2>3, <2>4, <2>5
  <1>7. f \in [0..k -> Nat] /\ f[k] = n
    <2>1. f \in [0..k -> Nat]
      BY <1>2
    <2>2. k - k = 0 /\ Power(b, 0) = 1 /\ n = 1 * n + 0
      BY PowerIs
    <2>3. n \div 1 = n
      OBVIOUS
    <2>4. QED
      BY <2>1, <2>2, <2>3
  <1> HIDE DEF d, f
  <1>8. d \in Seq(Nat)
    <2>1. 0..(b - 1) \subseteq Nat
      OBVIOUS
    <2>2. QED
      BY <1>4, <2>1, SeqOfMore
  <1>9. Values(b, d, f)
    BY <1>4, <1>5, <1>6, <1>7 DEF Values
  <1>10. Value(b, d) = n
    BY <1>4, <1>7, <1>8, <1>9, ValueFrom
  <1>11. QED
    BY <1>4, <1>10 DEF d

(* Turning every digit over takes a number from the greatest there is.     *)
LEMMA ComplementDenotes ==
  ASSUME NEW b \in Nat \ {0}, NEW d \in Seq(0..(b - 1))
  PROVE  LET c == [i \in 1..Len(d) |-> b - 1 - d[i]] IN
         /\ c \in Seq(0..(b - 1)) /\ Len(c) = Len(d)
         /\ Value(b, c) = Power(b, Len(d)) - 1 - Value(b, d)
         /\ Value(b, c) \in Nat /\ Value(b, d) \in Nat
  <1> DEFINE n == Len(d)
             c == [i \in 1..n |-> b - 1 - d[i]]
  <1>1. n \in Nat /\ \A i \in 1..n : d[i] \in 0..(b - 1)
    BY ElementOfSeq
  <1>2. ASSUME NEW e \in Seq(0..(b - 1)) PROVE e \in Seq(Nat)
    <2>1. 0..(b - 1) \subseteq Nat
      OBVIOUS
    <2>2. QED
      BY <2>1, SeqOfMore
  <1>3. d \in Seq(Nat)
    BY <1>2
  <1>5. c \in Seq(0..(b - 1)) /\ Len(c) = n
    <2> HIDE DEF n
    <2>1. c \in [1..n -> 0..(b - 1)]
      BY <1>1
    <2> HIDE DEF c
    <2>2. c \in Seq(0..(b - 1))
      BY <1>1, <2>1, SeqDef
    <2>3. QED
      BY <1>1, <2>1, <2>2, LenProperties
  <1>6. c \in Seq(Nat)
    BY <1>2, <1>5
  <1>7. PICK f : Values(b, d, f) /\ Value(b, d) = f[n]
    BY <1>3, ValueIs
  <1>8. f \in [0..n -> Nat] /\ f[0] = 0 /\ \A i \in 1..n : f[i] = b * f[i - 1] + d[i]
    BY <1>7 DEF Values
  <1> HIDE DEF n
  <1> DEFINE g == [i \in 0..n |-> Power(b, i) - 1 - f[i]]
  <1>9. g[0] = 0
    BY <1>1, <1>8, PowerIs
  <1>10. ASSUME NEW i \in 1..n PROVE g[i] = b * g[i - 1] + c[i]
    <2> DEFINE j == i - 1
               x == Power(b, j)
    <2>1. j \in Nat /\ j + 1 = i /\ j \in 0..n /\ i \in 0..n
      BY <1>1
    <2>2. x \in Nat /\ Power(b, i) = b * x
      BY <2>1, PowerIs
    <2>3. g[j] = x - 1 - f[j] /\ g[i] = Power(b, i) - 1 - f[i] /\ c[i] = b - 1 - d[i]
      BY <2>1
    <2> HIDE DEF x, c, g
    <2>4. f[i] = b * f[j] + d[i] /\ f[j] \in Nat /\ d[i] \in Nat
      BY <1>1, <1>8, <2>1
    <2>5. b * (x - 1 - f[j]) + (b - 1 - d[i]) = b * x - 1 - (b * f[j] + d[i])
      <3>1. \A u \in Nat, v \in Nat :
              b * (x - 1 - u) + (b - 1 - v) = b * x - 1 - (b * u + v)
        BY <2>2
      <3>2. QED
        BY <2>4, <3>1
    <2>6. QED
      BY <2>2, <2>3, <2>4, <2>5
  <1> HIDE DEF c
  <1>11. g \in [0..n -> Nat]
    <2> DEFINE S == {m \in Nat : m <= n => g[m] \in Nat}
    <2>1. 0 \in S
      BY <1>9
    <2>2. ASSUME NEW m \in Nat, m \in S PROVE m + 1 \in S
      <3> SUFFICES ASSUME m + 1 <= n PROVE g[m + 1] \in Nat
        OBVIOUS
      <3> DEFINE i == m + 1
      <3>1. i \in 1..n /\ i - 1 = m /\ g[m] \in Nat
        BY <1>1, <2>2
      <3> HIDE DEF i, g
      <3>2. g[i] = b * g[m] + c[i] /\ c[i] \in Nat
        <4>1. c[i] \in 0..(b - 1)
          BY <1>1, <1>5, <3>1, ElementOfSeq
        <4>2. QED
          BY <1>10, <3>1, <4>1
      <3>3. \A u \in Nat, v \in Nat : b * u + v \in Nat
        OBVIOUS
      <3>4. g[i] \in Nat
        BY <3>1, <3>2, <3>3
      <3>5. QED
        BY <3>4 DEF i
    <2> HIDE DEF S
    <2>3. \A m \in Nat : m \in S
      BY <2>1, <2>2, SetInduction
    <2>4. \A m \in 0..n : g[m] \in Nat
      <3> HIDE DEF g
      <3>1. \A m \in 0..n : m \in Nat /\ m <= n
        BY <1>1
      <3>2. QED
        BY <2>3, <3>1 DEF S
    <2>5. QED
      BY <2>4
  <1>12. Values(b, c, g)
    <2> HIDE DEF g
    <2>1. QED
      BY <1>5, <1>9, <1>10, <1>11 DEF Values
  <1>13. Value(b, c) = g[n]
    <2> HIDE DEF g
    <2>1. QED
      BY <1>5, <1>6, <1>12, ValueFrom
  <1>14. g[n] = Power(b, n) - 1 - f[n] /\ g[n] \in Nat /\ f[n] \in Nat
    BY <1>1, <1>8, <1>11
  <1> HIDE DEF g
  <1>15. /\ c \in Seq(0..(b - 1)) /\ Len(c) = n
         /\ Value(b, c) = Power(b, n) - 1 - Value(b, d)
         /\ Value(b, c) \in Nat /\ Value(b, d) \in Nat
    BY <1>5, <1>7, <1>13, <1>14
  <1>16. QED
    BY <1>15 DEF c, n

(* Leading zeros do not count, any other leading digit does.               *)
LEMMA LeadingDigit ==
  ASSUME NEW b \in Nat \ {0}, NEW d \in Seq(Nat), d # <<>>
  PROVE  /\ Head(d) = 0 => Value(b, Tail(d)) = Value(b, d)
         /\ Head(d) # 0 => Value(b, d) > 0
  <1> DEFINE n == Len(d)
  <1>1. n \in Nat \ {0} /\ Head(d) = d[1] /\ \A i \in 1..n : d[i] \in Nat
    BY ElementOfSeq, HeadTailProperties, EmptySeq
  <1>2. PICK f : Values(b, d, f) /\ Value(b, d) = f[n]
    BY ValueIs
  <1>3. f \in [0..n -> Nat] /\ f[0] = 0 /\ \A i \in 1..n : f[i] = b * f[i - 1] + d[i]
    BY <1>2 DEF Values
  <1>4. f[1] = d[1] /\ d[1] \in Nat
    <2>1. 1 \in 1..n /\ 1 - 1 = 0 /\ b * 0 = 0
      BY <1>1
    <2>2. f[1] = b * f[0] + d[1]
      BY <1>3, <2>1
    <2>3. QED
      BY <1>1, <1>3, <2>1, <2>2
  <1> HIDE DEF n
  <1>5. ASSUME Head(d) = 0 PROVE Value(b, Tail(d)) = Value(b, d)
    <2> DEFINE t == Tail(d)
               m == n - 1
               g == [i \in 0..m |-> f[i + 1]]
    <2>1. t \in Seq(Nat) /\ Len(t) = m /\ \A i \in 1..m : t[i] = d[i + 1]
      BY <1>1, HeadTailProperties DEF n
    <2>2. g \in [0..m -> Nat] /\ g[0] = 0
      <3>1. \A i \in 0..m : i + 1 \in 0..n
        BY <1>1
      <3>2. 0 \in 0..m /\ 0 + 1 = 1
        BY <1>1
      <3>3. QED
        BY <1>1, <1>3, <1>4, <1>5, <3>1, <3>2
    <2>3. ASSUME NEW i \in 1..m PROVE g[i] = b * g[i - 1] + t[i]
      <3> DEFINE j == i + 1
      <3>1. /\ j \in 1..n /\ j - 1 = i /\ i \in 0..m /\ i - 1 \in 0..m
            /\ (i - 1) + 1 = i
        BY <1>1
      <3>2. g[i] = f[j] /\ g[i - 1] = f[i] /\ t[i] = d[j]
        BY <2>1, <3>1
      <3> HIDE DEF j, g, t
      <3>3. f[j] = b * f[i] + d[j]
        BY <1>3, <3>1
      <3>4. QED
        BY <3>2, <3>3
    <2>4. g[m] = f[n]
      BY <1>1
    <2> HIDE DEF g, t, m
    <2>5. Values(b, t, g)
      BY <2>1, <2>2, <2>3 DEF Values
    <2>6. Value(b, t) = g[m]
      BY <2>1, <2>5, ValueFrom
    <2>7. QED
      BY <1>2, <2>4, <2>6 DEF t
  <1>6. ASSUME Head(d) # 0 PROVE Value(b, d) > 0
    <2> DEFINE S == {m \in Nat : m + 1 <= n => f[m + 1] > 0}
    <2>1. 0 \in S
      BY <1>1, <1>4, <1>6
    <2>2. ASSUME NEW m \in Nat, m \in S PROVE m + 1 \in S
      <3> SUFFICES ASSUME (m + 1) + 1 <= n PROVE f[(m + 1) + 1] > 0
        OBVIOUS
      <3> DEFINE i == (m + 1) + 1
                 j == m + 1
      <3>1. i \in 1..n /\ i - 1 = j /\ j \in 0..n /\ f[j] > 0
        BY <1>1, <2>2
      <3> HIDE DEF i, j
      <3>2. f[i] = b * f[j] + d[i] /\ f[j] \in Nat /\ d[i] \in Nat
        BY <1>1, <1>3, <3>1
      <3>3. \A u \in Nat, v \in Nat : u > 0 => b * u + v > 0
        OBVIOUS
      <3>4. f[i] > 0
        BY <3>1, <3>2, <3>3
      <3>5. QED
        BY <3>4 DEF i
    <2> HIDE DEF S
    <2>3. n - 1 \in S
      <3>1. n - 1 \in Nat
        BY <1>1
      <3>2. QED
        BY <2>1, <2>2, <3>1, SetInduction
    <2>4. (n - 1) + 1 = n
      BY <1>1
    <2>5. QED
      BY <1>1, <1>2, <2>3, <2>4 DEF S
  <1>7. QED
    BY <1>5, <1>6
=============================================================================
