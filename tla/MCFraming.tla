----------------------------- MODULE MCFraming -----------------------------
(***************************************************************************)
(* Instances of Framing for TLC: packets of one and two bytes of size, of  *)
(* which one has a tail that reads as a negative size, and one is longer   *)
(* than the buffer; and memory that holds zeros, or sizes that do not end, *)
(* or are negative, or small.                                              *)
(***************************************************************************)
EXTENDS Framing

EncryptionResponse == <<1, 2>>
Packets == {EncryptionResponse, <<2, 5, 3>>, <<4, 1, 0, 2, 1, 0>>}

Patterns ==
    {[i \in 1..MemLen |-> 0], [i \in 1..MemLen |-> 7],
     [i \in 1..MemLen |-> IF i % 2 = 1 THEN 6 ELSE 3], [i \in 1..MemLen |-> i % 3]}
=============================================================================
