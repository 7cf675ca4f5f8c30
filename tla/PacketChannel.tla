---------------------------- MODULE PacketChannel ----------------------------
(***************************************************************************)
(* What one direction of a connection promises: packets arrive whole, each *)
(* once, and those of one producer in the order in which it put them.  The *)
(* code keeps the promise only as long as nothing is cut: once whole is    *)
(* lost, anything may arrive.                                              *)
(***************************************************************************)
EXTENDS Sequences

CONSTANTS Producer, Packet

VARIABLES
    pending,    \* packets put and not yet received, per producer
    got,        \* packets received
    whole       \* nothing was cut so far

vars == <<pending, got, whole>>

Init ==
    /\ pending = [t \in Producer |-> <<>>]
    /\ got = <<>>
    /\ whole = TRUE

Put(t, p) ==
    /\ whole
    /\ pending' = [pending EXCEPT ![t] = Append(@, p)]
    /\ UNCHANGED <<got, whole>>

Get(t) ==
    /\ whole /\ pending[t] # <<>>
    /\ got' = Append(got, Head(pending[t]))
    /\ pending' = [pending EXCEPT ![t] = Tail(@)]
    /\ UNCHANGED whole

Cut == whole' = FALSE

Next == Cut \/ \E t \in Producer : Get(t) \/ \E p \in Packet : Put(t, p)

Spec == Init /\ [][Next]_vars

(* What was put is received in the end, or something is cut.               *)
FairSpec == Spec /\ WF_vars(\E t \in Producer : Get(t))
=============================================================================
