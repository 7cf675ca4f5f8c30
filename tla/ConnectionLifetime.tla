------------------------- MODULE ConnectionLifetime -------------------------
(***************************************************************************)
(* What the proxy promises about the life of a client connection, without  *)
(* its threads and registries: an accepted connection gets a player at     *)
(* once or never; a player is only lost to the closing of its socket; and  *)
(* what is left of a closed connection is released once, for good.         *)
(***************************************************************************)
CONSTANT Conn

VARIABLES
    phase,  \* of each connection
    up      \* the process and its network thread are running

vars == <<phase, up>>

Phase == {"absent", "served", "orphaned", "closing", "released"}

Init == phase = [c \in Conn |-> "absent"] /\ up = TRUE

Move(c, from, to) ==
    /\ phase[c] = from
    /\ phase' = [phase EXCEPT ![c] = to]
    /\ UNCHANGED up

(* Accepted, with or without somebody to serve it.                         *)
Adopt(c) == up /\ (Move(c, "absent", "served") \/ Move(c, "absent", "orphaned"))

(* The socket is closed, by either side.                                   *)
Lose(c) == up /\ Move(c, "served", "closing")

(* Nothing refers to the connection or to its player any more.             *)
Release(c) == Move(c, "closing", "released")

Fail == up /\ up' = FALSE /\ UNCHANGED phase

Next == Fail \/ \E c \in Conn : Adopt(c) \/ Lose(c) \/ Release(c)

Spec == Init /\ [][Next]_vars
=============================================================================
