----------------------------- MODULE MCSending -----------------------------
(***************************************************************************)
(* Instances of Sending for TLC: packets of two and three bytes and a      *)
(* cipher with a register of two.                                          *)
(***************************************************************************)
EXTENDS Sending

PacketsOfTwoAndThree == {<<1, 0>>, <<2, 1, 2>>}
InitialVector == <<1, 2>>
PadOf(register) == (register[1] + 2 * register[2] + 1) % 3
=============================================================================
