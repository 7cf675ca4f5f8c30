------------------------------ MODULE MCLogin ------------------------------
(***************************************************************************)
(* The instance of Login for TLC: two names, of which the session server   *)
(* vouches for one, and two secrets.                                       *)
(***************************************************************************)
EXTENDS Login

CONSTANTS n1, n2, s1, s2
=============================================================================
