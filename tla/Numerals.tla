------------------------------ MODULE Numerals ------------------------------
(***************************************************************************)
(* Numbers in a base.  The code shifts and masks, or leaves it to OpenSSL; *)
(* what its loops compute is said with powers of the base, written as      *)
(* recursive functions so that they can be reasoned about.                 *)
(***************************************************************************)
EXTENDS Integers, Sequences

Power(b, n) ==
    LET power[k \in 0..n] == IF k = 0 THEN 1 ELSE b * power[k - 1] IN power[n]

(* The number that digits, the most significant first, denote in base b.   *)
Value(b, digits) ==
    LET value[k \in 0..Len(digits)] ==
            IF k = 0 THEN 0 ELSE b * value[k - 1] + digits[k]
    IN value[Len(digits)]

(* The last k digits of n.                                                 *)
Digits(b, n, k) == [i \in 1..k |-> (n \div Power(b, k - i)) % b]
=============================================================================
