----------------------------- MODULE AuthDigest -----------------------------
(***************************************************************************)
(* The name under which the session server knows a login: SHA-1 of the     *)
(* shared secret and the public key as a signed number in hexadecimal,     *)
(* which SAuthHash::Finalise writes by hand.                               *)
(*                                                                         *)
(* SHA-1 is any function: hash is what it gives.  Numbers are scaled: a    *)
(* hash of Bytes bytes (20) of two digits each, in base Base (16).         *)
(***************************************************************************)
EXTENDS Numerals

CONSTANTS Base, Bytes

ASSUME BaseAssumption == Base \in Nat /\ Base > 1 /\ Base % 2 = 0
ASSUME BytesAssumption == Bytes \in Nat \ {0}

VARIABLES
    hash,       \* SHA-1 of what was hashed
    hashed,     \* the inputs of Update, in order
    pc,         \* GenerateHexDigest and Finalise
    bn,         \* the big number
    negative,   \* result begins with '-'
    digits      \* hex

vars == <<hash, hashed, pc, bn, negative, digits>>

Radix == Base * Base
Byte == 0..(Radix - 1)
Number(bytes) == Value(Radix, bytes)

(* BN_num_bytes; BN_bn2bin and BN_bn2hex write no leading zero bytes, but  *)
(* zero as "0".                                                            *)
NumBytes(n) ==
    CHOOSE k \in 0..Bytes : n < Power(Radix, k) /\ (k > 0 => n >= Power(Radix, k - 1))
ToBin(n) == Digits(Radix, n, NumBytes(n))
ToHex(n) == IF n = 0 THEN <<0>> ELSE Digits(Base, n, 2 * NumBytes(n))

Init ==
    /\ hash \in [1..Bytes -> Byte] /\ hashed = <<>>
    /\ pc = "secret" /\ bn = 0 /\ negative = FALSE /\ digits = <<>>

Update(in, from, to) ==
    /\ pc = from /\ pc' = to
    /\ hashed' = Append(hashed, in)
    /\ UNCHANGED <<hash, bn, negative, digits>>

(* The hasher is reset as soon as its result is taken.                     *)
DigestFinal ==
    /\ pc = "final" /\ pc' = "sign"
    /\ bn' = Number(hash) /\ hashed' = <<>>
    /\ UNCHANGED <<hash, negative, digits>>

SignBit == bn \div (Power(Radix, Bytes) \div 2) = 1

Complement ==
    /\ pc = "sign" /\ SignBit /\ pc' = "add"
    /\ negative' = TRUE
    /\ bn' = Number([i \in 1..NumBytes(bn) |-> Radix - 1 - ToBin(bn)[i]])
    /\ UNCHANGED <<hash, hashed, digits>>

(* Fault: the complement is the result.                                    *)
AddNothing ==
    /\ pc = "add" /\ pc' = "hex"
    /\ UNCHANGED <<hash, hashed, bn, negative, digits>>

AddOne ==
    /\ pc = "add" /\ pc' = "hex"
    /\ bn' = bn + 1
    /\ UNCHANGED <<hash, hashed, negative, digits>>

Positive ==
    /\ pc = "sign" /\ ~SignBit /\ pc' = "hex"
    /\ UNCHANGED <<hash, hashed, bn, negative, digits>>

Convert ==
    /\ pc = "hex" /\ pc' = "strip"
    /\ digits' = ToHex(bn)
    /\ UNCHANGED <<hash, hashed, bn, negative>>

StripZero ==
    /\ pc = "strip" /\ digits # <<>> /\ Head(digits) = 0
    /\ digits' = Tail(digits)
    /\ UNCHANGED <<hash, hashed, pc, bn, negative>>

Return ==
    /\ pc = "strip" /\ (digits # <<>> => Head(digits) # 0)
    /\ pc' = "done"
    /\ UNCHANGED <<hash, hashed, bn, negative, digits>>

Next ==
    \/ Update("sharedSecret", "secret", "key") \/ Update("publicKey", "key", "final")
    \/ DigestFinal \/ Complement \/ AddOne \/ Positive \/ Convert \/ StripZero \/ Return

Spec == Init /\ [][Next]_vars

(***************************************************************************)
(* Properties.                                                             *)
(***************************************************************************)

(* The hash as a two's complement number.                                  *)
Signed(n) == IF 2 * n >= Power(Radix, Bytes) THEN n - Power(Radix, Bytes) ELSE n

(* The text of every hash but zero is the hash as a signed number: that    *)
(* number with its sign, and no leading zero.                              *)
DigestIsSigned ==
    pc = "done" /\ Number(hash) # 0 =>
        /\ (IF negative THEN -Value(Base, digits) ELSE Value(Base, digits)) = Signed(Number(hash))
        /\ digits # <<>> /\ Head(digits) # 0

(* Does not hold: leading zeros are removed except the last.  Of the hash  *)
(* zero nothing is left.                                                   *)
LastZeroIsKept == pc = "done" => digits # <<>>
=============================================================================
