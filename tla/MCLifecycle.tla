---------------------------- MODULE MCLifecycle ----------------------------
(***************************************************************************)
(* Instances of Lifecycle for TLC.  The connections are model values, and  *)
(* each run says how much data their clients may send: none (an idle       *)
(* client), one unit, or two.                                              *)
(***************************************************************************)
EXTENDS Lifecycle, TLC

CONSTANTS c1, c2

OneEach == [c \in Conn |-> 1]
OneIdle == [c \in Conn |-> IF c = c1 THEN 1 ELSE 0]
TwoIdle == [c \in Conn |-> IF c = c1 THEN 2 ELSE 0]

(* The connections are interchangeable where their budgets are the same.   *)
Symmetry == Permutations(Conn)
=============================================================================
