------------------------------- MODULE Config -------------------------------
(***************************************************************************)
(* The configuration file over the starts and ends of the process:         *)
(* CConfigurationManager parses it into m_configTable, each config group   *)
(* reads its members from its table there, members that are not there get  *)
(* their defaults, and the whole table is written back.                    *)
(*                                                                         *)
(* A TOML node is a scalar of some type, an array of nodes, or a table of  *)
(* named nodes.  The value of a scalar is "default" or not.  The groups    *)
(* are those of the program; none has a namespace.                         *)
(***************************************************************************)
EXTENDS Naturals, Sequences

CONSTANT Files      \* what the user may make of the file

VARIABLES
    file,           \* config.toml
    pc,             \* the main thread
    configTable,    \* m_configTable
    todo,           \* config groups not yet registered
    values,         \* members of the groups in m_registeredConfigs
    loaded,         \* what the file was when it was last loaded
    undisturbed     \* no edit, no failed write and nothing generated over it since

vars == <<file, pc, configTable, todo, values, loaded, undisturbed>>

Scalar(t, v) == [type |-> t, scalar |-> v]
Array(s) == [type |-> "array", items |-> s]
Table(f) == [type |-> "table", fields |-> f]

Absent == [type |-> "absent"]
Garbage == [type |-> "garbage"]     \* no TOML
Empty == Table(<<>>)

(* A file is no TOML or a table, perhaps of tables.                        *)
IsTable(n) ==
    n = Table(n.fields) /\ n.fields = [k \in DOMAIN n.fields |-> n.fields[k]]
IsToml(f) ==
    IsTable(f) /\ \A k \in DOMAIN f.fields : f.fields[k].type = "table" => IsTable(f.fields[k])

ASSUME FilesAssumption == \A f \in Files : f \in {Absent, Garbage} \/ IsToml(f)

(* insert_or_assign.                                                       *)
Put(f, k, v) == [x \in DOMAIN f \cup {k} |-> IF x = k THEN v ELSE f[x]]

Members == [network |-> {"port"}, proxy |-> {"IsOnline", "Servers"}]
Group == DOMAIN Members
TypeOf == [port |-> "integer", IsOnline |-> "boolean", address |-> "string"]
DefaultServer == [address |-> "default", port |-> "default"]
Default == [port |-> "default", IsOnline |-> "default", Servers |-> <<DefaultServer>>]

Init ==
    /\ file = Absent /\ pc = "down"
    /\ configTable = Empty /\ todo = {} /\ values = <<>>
    /\ loaded = Empty /\ undisturbed = TRUE

(***************************************************************************)
(* The visitors.                                                           *)
(***************************************************************************)

(* DefaultWriter.                                                          *)
WrittenServer(s) == Table([f \in DOMAIN s |-> Scalar(TypeOf[f], s[f])])

(* Fault: the array is begun and ended without its elements.               *)
WrittenWithoutElements(m) ==
    IF m = "Servers" THEN Array(<<>>) ELSE Scalar(TypeOf[m], Default[m])

Written(m) ==
    IF m = "Servers"
    THEN Array([i \in DOMAIN Default[m] |-> WrittenServer(Default[m][i])])
    ELSE Scalar(TypeOf[m], Default[m])

(* CConfigReader.  A node of the wrong type ends the reading of a member.  *)
(* An array has resized the vector by then: the elements before are read,  *)
(* of the one that is wrong perhaps its address, those behind it are new.  *)
HasField(node, f) ==
    /\ node.type = "table" /\ f \in DOMAIN node.fields
    /\ node.fields[f].type = TypeOf[f]
ServerOk(node) == HasField(node, "address") /\ HasField(node, "port")

ReadServer(node) ==
    [address |-> IF HasField(node, "address") THEN node.fields.address.scalar ELSE "default",
     port |-> IF ServerOk(node) THEN node.fields.port.scalar ELSE "default"]

ReadServers(items) ==
    [i \in DOMAIN items |->
        IF \A j \in 1..(i - 1) : ServerOk(items[j]) THEN ReadServer(items[i])
        ELSE DefaultServer]

Read(m, node) ==
    CASE m = "Servers" /\ node.type = "array" -> ReadServers(node.items)
      [] m # "Servers" /\ node.type = TypeOf[m] -> node.scalar
      [] OTHER -> Default[m]

(***************************************************************************)
(* Registration.                                                           *)
(***************************************************************************)

(* Fault: the group's table is made anew.                                  *)
AlwaysNewTable(table, g) == <<>>

(* getOrCreateTable: what is no table is replaced by one.                  *)
GroupTable(table, g) ==
    IF g \in DOMAIN table.fields /\ table.fields[g].type = "table"
    THEN table.fields[g].fields ELSE <<>>

Missing(table, g) == Members[g] \ DOMAIN GroupTable(table, g)

WithDefaults(table, g) ==
    LET old == GroupTable(table, g)
        group == [m \in DOMAIN old \cup Members[g] |->
                    IF m \in DOMAIN old THEN old[m] ELSE Written(m)]
    IN Table(Put(table.fields, g, Table(group)))

GroupValues(table, g) ==
    [m \in Members[g] |->
        IF m \in Missing(table, g) THEN Default[m] ELSE Read(m, GroupTable(table, g)[m])]

(* Fault: the file is written after every registration.                    *)
AlwaysChanged(table, g) == TRUE

ConfigChanged(table, g) == Missing(table, g) # {}

(***************************************************************************)
(* The process.                                                            *)
(***************************************************************************)

Start ==
    /\ pc = "down" /\ pc' = "load"
    /\ UNCHANGED <<file, configTable, todo, values, loaded, undisturbed>>

(* The ifstream is good.                                                   *)
FindConfig ==
    /\ pc = "load" /\ file # Absent /\ pc' = "parse"
    /\ UNCHANGED <<file, configTable, todo, values, loaded, undisturbed>>

(* The ifstream is not good: there is no file, or one that could not be    *)
(* opened for reading.  The ofstream truncates it, unless it fails too.    *)
GenerateDefault ==
    /\ pc = "load" /\ pc' = "parse"
    /\ \/ file' = Empty /\ undisturbed' = (undisturbed /\ file = Absent)
       \/ UNCHANGED <<file, undisturbed>>
    /\ UNCHANGED <<configTable, todo, values, loaded>>

(* There is no file still, it is no TOML, or parse_file cannot open it.    *)
LoadFails ==
    /\ pc = "parse" /\ pc' = "down"
    /\ UNCHANGED <<file, configTable, todo, values, loaded, undisturbed>>

LoadConfig ==
    /\ pc = "parse" /\ file.type = "table"
    /\ configTable' = file /\ loaded' = file /\ undisturbed' = TRUE
    /\ todo' = Group /\ values' = <<>>
    /\ pc' = "register"
    /\ UNCHANGED file

(* RegisterConfigGroup, in the order the linker gave to the registrations. *)
RegisterConfigGroup(g) ==
    /\ pc = "register" /\ g \in todo
    /\ todo' = todo \ {g}
    /\ values' = Put(values, g, GroupValues(configTable, g))
    /\ configTable' = WithDefaults(configTable, g)
    /\ pc' = IF ConfigChanged(configTable, g) THEN "write" ELSE pc
    /\ UNCHANGED <<file, loaded, undisturbed>>

(* The ofstream truncates the file when it is opened and writes it when it *)
(* is closed.  Neither is looked after, if it fails.                       *)
OpenFails ==
    /\ pc = "write" /\ pc' = "register"
    /\ UNCHANGED <<file, configTable, todo, values, loaded, undisturbed>>

Truncate ==
    /\ pc = "write" /\ pc' = "flush"
    /\ file' = Empty
    /\ UNCHANGED <<configTable, todo, values, loaded, undisturbed>>

Flush ==
    /\ pc = "flush" /\ pc' = "register"
    /\ \/ file' = configTable /\ UNCHANGED undisturbed
       \/ undisturbed' = FALSE /\ UNCHANGED file
    /\ UNCHANGED <<configTable, todo, values, loaded>>

(* Fault: the network looks for its group before all are registered.       *)
RunEarly ==
    /\ pc = "register" /\ pc' = "running"
    /\ UNCHANGED <<file, configTable, todo, values, loaded, undisturbed>>

Run ==
    /\ pc = "register" /\ todo = {} /\ pc' = "running"
    /\ UNCHANGED <<file, configTable, todo, values, loaded, undisturbed>>

(* The process ends, or is killed at any point.                            *)
Stop ==
    /\ pc # "down" /\ pc' = "down"
    /\ undisturbed' = (undisturbed /\ pc # "flush")
    /\ configTable' = Empty /\ todo' = {} /\ values' = <<>>
    /\ UNCHANGED <<file, loaded>>

(* The user saves another file, whether the program runs or not (but not   *)
(* in the instant between truncation and writing).                         *)
Edit(f) ==
    /\ pc # "flush"
    /\ file' = f /\ undisturbed' = FALSE
    /\ UNCHANGED <<pc, configTable, todo, values, loaded>>

Next ==
    \/ Start \/ FindConfig \/ GenerateDefault \/ LoadFails \/ LoadConfig
    \/ \E g \in Group : RegisterConfigGroup(g)
    \/ OpenFails \/ Truncate \/ Flush \/ Run \/ Stop
    \/ \E f \in Files : Edit(f)

Spec == Init /\ [][Next]_vars

(***************************************************************************)
(* Properties.                                                             *)
(***************************************************************************)

(* Every variable has its type; in particular every group is registered    *)
(* when the network looks for its own, which it uses unchecked.            *)
TypeOK ==
    /\ pc \in {"down", "load", "parse", "register", "write", "flush", "running"}
    /\ file.type \in {"absent", "garbage", "table"}
    /\ configTable.type = "table" /\ loaded.type = "table"
    /\ undisturbed \in BOOLEAN
    /\ todo \subseteq Group
    /\ DOMAIN values = IF pc \in {"down", "load", "parse"} THEN {} ELSE Group \ todo
    /\ pc = "running" => DOMAIN values = Group

(* What the user has set stays in the file through starts, ends and kills: *)
(* everything that was loaded, but for what stands in the place of a       *)
(* group's table.  Only a start that is killed while it writes, or cannot  *)
(* finish writing, or cannot open the file for reading but for writing,    *)
(* loses it.                                                               *)
SettingsSurvive ==
    undisturbed /\ pc # "flush" =>
        \A k \in DOMAIN loaded.fields :
            LET old == loaded.fields[k]
                new == file.fields[k]
            IN IF k \notin Group THEN new = old
               ELSE old.type = "table" =>
                        \A m \in DOMAIN old.fields : new.fields[m] = old.fields[m]

(* What the program runs with is what its next start would read, whether   *)
(* the defaults could be written or not, and however much of an array      *)
(* could be read.                                                          *)
NextStartAgrees ==
    undisturbed /\ pc = "running" =>
        \A g \in Group : values[g] = GroupValues(file, g)

Complete(f) == f.type = "table" /\ \A g \in Group : Missing(f, g) = {}

(* A file that has all members is never written again: no later start that *)
(* can open it for reading, wherever it is killed, can lose it.            *)
SettledIsDurable ==
    [][Complete(file) /\ undisturbed /\ undisturbed' => file' = file]_vars
=============================================================================
