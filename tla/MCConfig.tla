------------------------------ MODULE MCConfig ------------------------------
(***************************************************************************)
(* Instances of Config for TLC: files that have each group's table or not, *)
(* or something else in its place, with members of the right and of a      *)
(* wrong type, and arrays whose first, second or no element is wrong.      *)
(***************************************************************************)
EXTENDS Config

Server == Table([address |-> Scalar("string", "user"), port |-> Scalar("integer", "user")])
NoPort == Table([address |-> Scalar("string", "user")])

NetworkTables ==
    {Empty, Scalar("integer", "user"),
     Table([port |-> Scalar("integer", "user")]), Table([port |-> Scalar("string", "user")])}

ServerArrays == {<<>>, <<Server, Server>>, <<NoPort, Server>>, <<Server, Scalar("integer", "user")>>}

ProxyTables ==
    {Table([IsOnline |-> Scalar("boolean", "user")]),
     Table([IsOnline |-> Scalar("boolean", "user"), Servers |-> Scalar("string", "user")])}
    \cup {Table([Servers |-> Array(a)]) : a \in ServerArrays}

UserFiles ==
    {Absent, Garbage}
    \cup {Table([network |-> n, proxy |-> p]) : n \in NetworkTables, p \in ProxyTables}
    \cup {Table([other |-> n, proxy |-> p]) : n \in NetworkTables, p \in ProxyTables}
=============================================================================
