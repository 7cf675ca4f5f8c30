-------------------------- MODULE AuthDigestProofs --------------------------
(***************************************************************************)
(* AuthDigest, proved for hashes of every length in every even base.       *)
(***************************************************************************)
EXTENDS AuthDigest, DataProofs

Numbers == Power(Radix, Bytes)
N == Number(hash)

(* What is written after the sign.                                         *)
IsMagnitude(n) ==
    IF negative THEN 2 * N >= Numbers /\ n = Numbers - N ELSE 2 * N < Numbers /\ n = N

DigestInv ==
    /\ hash \in [1..Bytes -> Byte] /\ negative \in BOOLEAN
    /\ pc \in {"secret", "key", "final", "sign"} => ~negative
    /\ pc = "sign" => bn = N
    /\ pc = "add" => negative /\ 2 * N >= Numbers /\ bn = Numbers - 1 - N
    /\ pc \in {"hex", "strip", "done"} => IsMagnitude(bn)
    /\ pc \in {"strip", "done"} =>
         digits \in Seq(0..(Base - 1)) /\ Value(Base, digits) = bn
    /\ pc = "done" /\ digits # <<>> => Head(digits) # 0

LEMMA RadixIs ==
  /\ Base \in Nat \ {0, 1} /\ Radix \in Nat \ {0, 1} /\ Radix >= 4
  /\ \E h \in Nat : Radix = 2 * h
  <1>1. Base \in Nat \ {0, 1} /\ Base % 2 = 0
    BY BaseAssumption
  <1>2. PICK g \in Nat : Base = 2 * g
    <2>1. Base = 2 * (Base \div 2) + (Base % 2) /\ Base \div 2 \in Nat
      BY <1>1
    <2>2. QED
      BY <1>1, <2>1
  <1>3. Base * Base >= 4 /\ Base * Base \in Nat
    <2>1. Base >= 2
      BY <1>1
    <2>2. Base * Base >= 2 * Base
      BY <1>1, <2>1
    <2>3. QED
      BY <1>1, <2>1, <2>2
  <1>4. Base * Base = 2 * (g * Base) /\ g * Base \in Nat
    BY <1>1, <1>2
  <1>5. Radix \in Nat /\ Radix >= 4 /\ \E h \in Nat : Radix = 2 * h
    BY <1>3, <1>4, Zenon DEF Radix
  <1>6. QED
    BY <1>1, <1>5

(* Half of the numbers are negative.                                       *)
LEMMA NumbersAreEven ==
  Numbers \in Nat \ {0} /\ \E h \in Nat \ {0} : Numbers = 2 * h /\ 4 * Power(Radix, Bytes - 1) <= Numbers
  <1> DEFINE m == Bytes - 1
             p == Power(Radix, m)
  <1>1. m \in Nat /\ m + 1 = Bytes
    BY BytesAssumption
  <1>2. p \in Nat \ {0} /\ Numbers = Radix * p
    BY <1>1, PowerIs, RadixIs DEF Numbers
  <1> HIDE DEF p, m
  <1>3. PICK g \in Nat : Radix = 2 * g
    BY RadixIs
  <1>4. g >= 2
    BY <1>3, RadixIs
  <1>5. Numbers = 2 * (g * p) /\ g * p \in Nat
    BY <1>2, <1>3
  <1>6. g * p >= 2 * p
    BY <1>2, <1>4
  <1>7. QED
    BY <1>2, <1>5, <1>6 DEF p, m

(* A hash is a sequence of bytes, and its number one of as many.           *)
LEMMA HashNumber ==
  ASSUME hash \in [1..Bytes -> Byte]
  PROVE  N \in Nat /\ N < Numbers
  <1>1. hash \in Seq(0..(Radix - 1)) /\ Len(hash) = Bytes
    <2>1. hash \in [1..Bytes -> 0..(Radix - 1)] /\ Bytes \in Nat
      BY BytesAssumption DEF Byte
    <2>2. hash \in Seq(0..(Radix - 1))
      BY <2>1, SeqDef
    <2>3. QED
      BY <2>1, <2>2, LenProperties
  <1> DEFINE c == [i \in 1..Len(hash) |-> Radix - 1 - hash[i]]
  <1>2. /\ Value(Radix, c) = Power(Radix, Len(hash)) - 1 - Value(Radix, hash)
        /\ Value(Radix, c) \in Nat /\ Value(Radix, hash) \in Nat
    <2>1. Radix \in Nat \ {0}
      BY RadixIs
    <2>2. QED
      BY <1>1, <2>1, ComplementDenotes
  <1>3. Power(Radix, Bytes) \in Nat
    BY PowerIs, RadixIs, BytesAssumption
  <1>4. QED
    BY <1>1, <1>2, <1>3 DEF N, Number, Numbers

(* NumBytes is as many bytes as the number needs.                          *)
LEMMA NumBytesIs ==
  ASSUME NEW n \in Nat, n < Numbers
  PROVE  /\ NumBytes(n) \in 0..Bytes /\ n < Power(Radix, NumBytes(n))
         /\ 2 * n >= Numbers => NumBytes(n) = Bytes
  <1> DEFINE Fits(k) == n < Power(Radix, k) /\ (k > 0 => n >= Power(Radix, k - 1))
             S == {k \in Nat : n < Power(Radix, k)}
  <1>1. \E k \in 0..Bytes : Fits(k)
    <2>1. Bytes \in S
      BY BytesAssumption DEF Numbers
    <2>2. PICK k \in S : \A j \in S : ~(j < k)
      <3>1. S \in SUBSET Nat /\ S # {}
        BY <2>1
      <3> HIDE DEF S
      <3>2. QED
        BY <3>1, LeastNatural
    <2>3. k \in 0..Bytes
      BY <2>1, <2>2, BytesAssumption
    <2>4. k > 0 => n >= Power(Radix, k - 1)
      <3> SUFFICES ASSUME k > 0 PROVE n >= Power(Radix, k - 1)
        OBVIOUS
      <3> DEFINE j == k - 1
      <3>1. j \in Nat /\ j < k
        BY <2>2
      <3> HIDE DEF j
      <3>2. ~(n < Power(Radix, j))
        BY <2>2, <3>1
      <3>3. Power(Radix, j) \in Nat
        BY <3>1, PowerIs, RadixIs
      <3>4. n >= Power(Radix, j)
        BY <3>2, <3>3
      <3>5. QED
        BY <3>4 DEF j
    <2>5. QED
      BY <2>2, <2>3, <2>4
  <1> DEFINE b == NumBytes(n)
  <1>2. b \in 0..Bytes /\ Fits(b)
    <2>1. b = CHOOSE k \in 0..Bytes : Fits(k)
      BY DEF NumBytes
    <2> HIDE DEF b, Fits
    <2>2. QED
      BY <1>1, <2>1, Zenon
  <1> HIDE DEF b
  <1>3. ASSUME 2 * n >= Numbers PROVE b = Bytes
    <2> SUFFICES ASSUME b # Bytes PROVE FALSE
      OBVIOUS
    <2> DEFINE m == Bytes - 1
               p == Power(Radix, m)
    <2>1. m \in Nat /\ b \in Nat /\ b <= m
      BY <1>2, BytesAssumption
    <2>2. p \in Nat \ {0} /\ Power(Radix, b) \in Nat
      BY <2>1, PowerIs, RadixIs
    <2>3. 4 * p <= Numbers
      BY NumbersAreEven
    <2> HIDE DEF p, m
    <2>4. Power(Radix, b) <= p
      <3>1. CASE b = m
        BY <2>2, <3>1 DEF p
      <3>2. CASE b < m
        <4>1. Power(Radix, b) < Power(Radix, m)
          BY <2>1, <3>2, PowersGrow, RadixIs
        <4>2. QED
          BY <2>2, <4>1 DEF p
      <3>3. QED
        BY <2>1, <3>1, <3>2
    <2>5. QED
      <3>1. n < p
        BY <1>2, <2>2, <2>4
      <3>2. Numbers \in Nat
        BY NumbersAreEven
      <3>3. QED
        BY <1>3, <2>2, <2>3, <3>1, <3>2
  <1>4. QED
    BY <1>2, <1>3 DEF b

(* The digits of the number, in hexadecimal.                               *)
LEMMA ToHexDenotes ==
  ASSUME NEW n \in Nat, n < Numbers
  PROVE  ToHex(n) \in Seq(0..(Base - 1)) /\ Value(Base, ToHex(n)) = n
  <1>0. Base \in Nat \ {0, 1}
    BY RadixIs
  <1>1. CASE n = 0
    <2>1. <<0>> \in Seq(Nat) /\ <<0>> # <<>> /\ Head(<<0>>) = 0 /\ Tail(<<0>>) = <<>>
      OBVIOUS
    <2>2. Value(Base, <<>>) = Value(Base, <<0>>)
      BY <1>0, <2>1, LeadingDigit
    <2>3. Value(Base, <<>>) = 0
      BY <1>0, ValueOfNothing
    <2>4. <<0>> \in Seq(0..(Base - 1))
      BY <1>0
    <2>5. QED
      BY <1>1, <2>2, <2>3, <2>4 DEF ToHex
  <1>2. CASE n # 0
    <2> DEFINE k == NumBytes(n)
               j == 2 * k
    <2>1. k \in Nat /\ n < Power(Radix, k)
      BY NumBytesIs, BytesAssumption
    <2> HIDE DEF k
    <2>2. Power(Radix, k) = Power(Base, j) /\ j \in Nat
      BY <1>0, <2>1, PowersOfSquare DEF Radix
    <2>3. ToHex(n) = Digits(Base, n, j)
      BY <1>2 DEF ToHex, k
    <2> HIDE DEF j
    <2>4. n < Power(Base, j)
      BY <2>1, <2>2
    <2>5. QED
      BY <1>0, <2>2, <2>3, <2>4, DigitsDenote
  <1>3. QED
    BY <1>1, <1>2

(* The sign bit is set in the numbers of the upper half.                   *)
LEMMA SignBitIs ==
  ASSUME bn \in Nat, bn < Numbers
  PROVE  SignBit <=> 2 * bn >= Numbers
  <1>1. PICK h \in Nat \ {0} : Numbers = 2 * h
    BY NumbersAreEven
  <1>2. Numbers \div 2 = h
    BY <1>1
  <1>3. bn \div h = 1 <=> bn >= h
    <2>1. CASE bn >= h
      <3>1. bn = h * 1 + (bn - h) /\ bn - h \in 0..(h - 1)
        BY <1>1, <2>1
      <3>2. bn \div h = 1
        BY <3>1, DivisionUnique
      <3>3. QED
        BY <2>1, <3>2
    <2>2. CASE bn < h
      <3>1. bn = h * 0 + bn /\ bn \in 0..(h - 1)
        BY <1>1, <2>2
      <3>2. bn \div h = 0
        BY <3>1, DivisionUnique
      <3>3. QED
        BY <2>2, <3>2
    <2>3. QED
      BY <1>1, <2>1, <2>2
  <1>4. SignBit <=> bn \div h = 1
    BY <1>2 DEF SignBit, Numbers
  <1>5. QED
    BY <1>1, <1>3, <1>4

(* The bytes turned over are the number that is one less than the          *)
(* magnitude.                                                              *)
LEMMA ComplementIs ==
  ASSUME NEW n \in Nat, n < Numbers, 2 * n >= Numbers
  PROVE  Number([i \in 1..NumBytes(n) |-> Radix - 1 - ToBin(n)[i]]) = Numbers - 1 - n
  <1> DEFINE d == ToBin(n)
  <1>0. Radix \in Nat \ {0} /\ Bytes \in Nat
    BY RadixIs, BytesAssumption
  <1>1. NumBytes(n) = Bytes /\ n < Power(Radix, Bytes)
    BY NumBytesIs DEF Numbers
  <1>2. d \in Seq(0..(Radix - 1)) /\ Len(d) = Bytes /\ Value(Radix, d) = n
    BY <1>0, <1>1, DigitsDenote DEF ToBin
  <1> HIDE DEF d
  <1>3. Value(Radix, [i \in 1..Len(d) |-> Radix - 1 - d[i]])
          = Power(Radix, Len(d)) - 1 - Value(Radix, d)
    BY <1>0, <1>2, ComplementDenotes
  <1>4. QED
    BY <1>1, <1>2, <1>3 DEF d, Number, Numbers

(***************************************************************************)
(* The invariant is inductive.                                             *)
(***************************************************************************)

LEMMA DigestInit == Init => DigestInv
  <1> SUFFICES ASSUME Init PROVE DigestInv
    OBVIOUS
  <1>1. hash \in [1..Bytes -> Byte] /\ pc = "secret" /\ negative = FALSE
    BY DEF Init
  <1>2. QED
    BY <1>1 DEF DigestInv

(* A step that leaves the hash alone leaves its number alone.              *)
LEMMA SameNumber ==
  ASSUME hash' = hash
  PROVE  N' = N /\ Numbers' = Numbers
  BY DEF N, Numbers

(* DigestFinal, Complement and AddOne, and a number that is not negative.  *)
LEMMA NumberKeeps ==
  ASSUME DigestInv, DigestFinal \/ Complement \/ AddOne \/ Positive
  PROVE  DigestInv'
  <1>1. hash' = hash /\ hash \in [1..Bytes -> Byte] /\ negative \in BOOLEAN
    BY DEF DigestInv, DigestFinal, Complement, AddOne, Positive
  <1>2. N' = N /\ N \in Nat /\ N < Numbers /\ Numbers \in Nat
    BY <1>1, SameNumber, HashNumber, NumbersAreEven
  <1>3. CASE DigestFinal
    <2>1. /\ pc' = "sign" /\ bn' = N /\ negative' = negative /\ ~negative
      BY <1>3 DEF DigestFinal, DigestInv, N
    <2>2. QED
      BY <1>1, <1>2, <2>1 DEF DigestInv
  <1>4. CASE Complement
    <2>1. bn = N /\ pc' = "add" /\ negative' = TRUE
      BY <1>4 DEF Complement, DigestInv
    <2>2. 2 * N >= Numbers
      BY <1>2, <1>4, <2>1, SignBitIs DEF Complement
    <2>3. bn' = Numbers - 1 - N
      BY <1>2, <1>4, <2>1, <2>2, ComplementIs DEF Complement
    <2>4. QED
      BY <1>1, <1>2, <2>1, <2>2, <2>3 DEF DigestInv
  <1>5. CASE AddOne
    <2>1. /\ negative /\ 2 * N >= Numbers /\ bn = Numbers - 1 - N
          /\ bn' = bn + 1 /\ pc' = "hex" /\ negative' = negative
      BY <1>5 DEF AddOne, DigestInv
    <2>2. bn' = Numbers - N
      BY <1>2, <2>1
    <2>3. QED
      BY <1>1, <1>2, <2>1, <2>2 DEF DigestInv, IsMagnitude, Numbers
  <1>6. CASE Positive
    <2>1. ~negative /\ bn = N /\ bn' = bn /\ pc' = "hex" /\ negative' = negative
      BY <1>6 DEF Positive, DigestInv
    <2>2. 2 * N < Numbers
      BY <1>2, <1>6, <2>1, SignBitIs DEF Positive
    <2>3. QED
      BY <1>1, <1>2, <2>1, <2>2 DEF DigestInv, IsMagnitude, Numbers
  <1>7. QED
    BY <1>3, <1>4, <1>5, <1>6

(* Conversion and the stripping of zeros.                                  *)
LEMMA TextKeeps ==
  ASSUME DigestInv, Convert \/ StripZero \/ Return
  PROVE  DigestInv'
  <1>1. /\ hash' = hash /\ negative' = negative /\ bn' = bn
        /\ hash \in [1..Bytes -> Byte] /\ negative \in BOOLEAN
        /\ pc \in {"hex", "strip"} /\ pc' \in {"strip", "done"} /\ IsMagnitude(bn)
    BY DEF DigestInv, Convert, StripZero, Return
  <1>2. N' = N /\ N \in Nat /\ N < Numbers /\ Numbers \in Nat
    BY <1>1, SameNumber, HashNumber, NumbersAreEven
  <1>3. IsMagnitude(bn)'
    BY <1>1, <1>2 DEF IsMagnitude, Numbers
  <1>4. bn \in Nat /\ bn < Numbers
    BY <1>1, <1>2, NumbersAreEven DEF IsMagnitude
  <1>5. /\ digits' \in Seq(0..(Base - 1)) /\ Value(Base, digits') = bn
        /\ pc' = "done" /\ digits' # <<>> => Head(digits') # 0
    <2>1. CASE Convert
      <3>1. digits' = ToHex(bn) /\ pc' = "strip"
        BY <2>1 DEF Convert
      <3>2. ToHex(bn) \in Seq(0..(Base - 1)) /\ Value(Base, ToHex(bn)) = bn
        BY <1>4, ToHexDenotes
      <3>3. QED
        BY <3>1, <3>2
    <2>2. CASE StripZero
      <3>1. /\ digits # <<>> /\ Head(digits) = 0 /\ digits' = Tail(digits)
            /\ pc' = "strip" /\ digits \in Seq(0..(Base - 1)) /\ Value(Base, digits) = bn
        BY <2>2 DEF StripZero, DigestInv
      <3>2. Base \in Nat \ {0}
        BY RadixIs
      <3>3. digits \in Seq(Nat)
        <4>1. 0..(Base - 1) \subseteq Nat
          BY <3>2
        <4>2. QED
          BY <3>1, <4>1, SeqOfMore
      <3>4. Value(Base, Tail(digits)) = Value(Base, digits)
        BY <3>1, <3>2, <3>3, LeadingDigit
      <3>5. Tail(digits) \in Seq(0..(Base - 1))
        BY <3>1, HeadTailProperties
      <3>6. QED
        BY <3>1, <3>4, <3>5
    <2>3. CASE Return
      BY <2>3 DEF Return, DigestInv
    <2>4. QED
      BY <2>1, <2>2, <2>3
  <1>6. QED
    BY <1>1, <1>3, <1>5 DEF DigestInv

LEMMA DigestInductive == DigestInv /\ [Next]_vars => DigestInv'
  <1> SUFFICES ASSUME DigestInv, [Next]_vars PROVE DigestInv'
    OBVIOUS
  <1>1. CASE Update("sharedSecret", "secret", "key") \/ Update("publicKey", "key", "final")
    <2>1. /\ hash' = hash /\ negative' = negative /\ pc' \in {"key", "final"}
          /\ pc \in {"secret", "key"}
      BY <1>1 DEF Update
    <2>2. QED
      BY <2>1 DEF DigestInv
  <1>2. CASE DigestFinal \/ Complement \/ AddOne \/ Positive
    BY <1>2, NumberKeeps
  <1>3. CASE Convert \/ StripZero \/ Return
    BY <1>3, TextKeeps
  <1>4. CASE UNCHANGED vars
    <2>1. /\ hash' = hash /\ negative' = negative /\ pc' = pc /\ bn' = bn
          /\ digits' = digits
      BY <1>4 DEF vars
    <2>2. QED
      BY <2>1 DEF DigestInv, IsMagnitude, N, Numbers
  <1>5. QED
    BY <1>1, <1>2, <1>3, <1>4 DEF Next

LEMMA DigestInvHolds == Spec => []DigestInv
  BY DigestInit, DigestInductive, PTL DEF Spec

(* The text that Finalise returns is the hash as a signed number, without  *)
(* leading zeros (AuthHash.cpp:43-68), for hashes of any length but zero.  *)
THEOREM TextIsSigned == Spec => []DigestIsSigned
  <1>1. DigestInv => DigestIsSigned
    <2> SUFFICES ASSUME DigestInv, pc = "done", Number(hash) # 0 PROVE DigestIsSigned
      BY DEF DigestIsSigned
    <2>1. /\ IsMagnitude(bn) /\ digits \in Seq(0..(Base - 1)) /\ Value(Base, digits) = bn
          /\ (digits # <<>> => Head(digits) # 0) /\ hash \in [1..Bytes -> Byte]
      BY DEF DigestInv
    <2>2. N \in Nat /\ N < Numbers /\ Numbers \in Nat
      BY <2>1, HashNumber, NumbersAreEven
    <2>3. (IF negative THEN -bn ELSE bn) = Signed(N)
      BY <2>1, <2>2 DEF IsMagnitude, Signed, Numbers
    <2>4. digits = <<>> <=> N = 0
      <3>1. Base \in Nat \ {0}
        BY RadixIs
      <3>2. digits \in Seq(Nat)
        <4>1. 0..(Base - 1) \subseteq Nat
          BY <3>1
        <4>2. QED
          BY <2>1, <4>1, SeqOfMore
      <3>3. digits = <<>> <=> bn = 0
        <4>1. digits # <<>> => bn > 0
          BY <2>1, <3>1, <3>2, LeadingDigit
        <4>2. digits = <<>> => bn = 0
          BY <2>1, <3>1, ValueOfNothing
        <4>3. QED
          BY <4>1, <4>2
      <3>4. bn = 0 <=> N = 0
        BY <2>1, <2>2 DEF IsMagnitude
      <3>5. QED
        BY <3>3, <3>4
    <2>5. QED
      BY <2>1, <2>3, <2>4 DEF DigestIsSigned, N
  <1>2. QED
    BY <1>1, DigestInvHolds, PTL
=============================================================================
