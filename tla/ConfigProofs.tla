---------------------------- MODULE ConfigProofs ----------------------------
(***************************************************************************)
(* Config, proved for every set of files, of whatever size, that the user  *)
(* may save.                                                               *)
(***************************************************************************)
EXTENDS Config, SequenceTheorems, TLAPS

(***************************************************************************)
(* What registration does to a table.                                      *)
(***************************************************************************)

(* A sequence of one element is a function.                                *)
LEMMA OneElement ==
  ASSUME NEW x
  PROVE  <<x>> = [i \in {1} |-> x]
  <1> DEFINE f == [i \in {1} |-> x]
             S == {x}
  <1>1. <<x>> \in Seq(S) /\ Len(<<x>>) = 1 /\ <<x>>[1] = x
    OBVIOUS
  <1>2. DOMAIN f = 1..1 /\ f \in [1..1 -> S] /\ f[1] = x
    <2>1. 1..1 = {1}
      OBVIOUS
    <2>2. QED
      BY <2>1
  <1> HIDE DEF f
  <1>3. f \in Seq(S) /\ Len(f) = 1
    <2>1. 1 \in Nat /\ \A g \in [1..1 -> S] : g \in UNION {[1..n -> S] : n \in Nat}
      OBVIOUS
    <2>2. f \in Seq(S)
      BY <1>2, <2>1, SeqDef
    <2>3. QED
      BY <1>2, <2>1, <2>2, LenProperties
  <1> HIDE DEF S
  <1>4. \A i \in 1..Len(f) : <<x>>[i] = f[i]
    BY <1>1, <1>2, <1>3
  <1>5. <<x>> = f
    BY <1>1, <1>3, <1>4, SeqEqual
  <1>6. QED
    BY <1>5 DEF f

(* What was written as the default of a member is read back as it.         *)
LEMMA DefaultsReadBack ==
  ASSUME NEW g \in Group, NEW m \in Members[g]
  PROVE  Read(m, Written(m)) = Default[m]
  <1>1. m \in {"port", "IsOnline", "Servers"}
    BY DEF Group, Members
  <1>2. CASE m # "Servers"
    <2>1. Written(m).type = TypeOf[m] /\ Written(m).scalar = Default[m]
      BY <1>2 DEF Written, Scalar
    <2>2. QED
      BY <1>2, <2>1 DEF Read
  <1>3. CASE m = "Servers"
    <2> DEFINE w == WrittenServer(DefaultServer)
               items == [i \in {1} |-> w]
    <2>1. /\ Default["Servers"] = [i \in {1} |-> DefaultServer]
      <3>1. <<DefaultServer>> = [i \in {1} |-> DefaultServer]
        BY OneElement
      <3>2. Default["Servers"] = <<DefaultServer>>
        BY DEF Default
      <3>3. QED
        BY <3>1, <3>2
    <2>2. Written(m) = Array(items)
      BY <1>3, <2>1 DEF Written
    <2>3. /\ w.type = "table" /\ DOMAIN w.fields = {"address", "port"}
          /\ w.fields["address"] = Scalar("string", "default")
          /\ w.fields["port"] = Scalar("integer", "default")
      BY DEF WrittenServer, Table, DefaultServer, TypeOf
    <2>4. HasField(w, "address") /\ HasField(w, "port")
      BY <2>3 DEF HasField, Scalar, TypeOf
    <2>5. ReadServer(w) = DefaultServer
      BY <2>3, <2>4 DEF ReadServer, ServerOk, Scalar, DefaultServer
    <2> HIDE DEF w
    <2>6. ReadServers(items) = [i \in {1} |-> DefaultServer]
      <3>1. \A j \in 1..(1 - 1) : FALSE
        OBVIOUS
      <3>2. QED
        BY <2>5, <3>1 DEF ReadServers
    <2>7. Read(m, Array(items)) = ReadServers(items)
      BY <1>3 DEF Read, Array
    <2>8. QED
      BY <1>3, <2>1, <2>2, <2>6, <2>7
  <1>4. QED
    BY <1>2, <1>3

(* Registration adds the members that are missing to the table of its      *)
(* group and changes nothing else, but what is no table in its place.      *)
LEMMA OnlyDefaultsAdded ==
  ASSUME NEW table, IsToml(table), NEW g \in Group
  PROVE  LET new == WithDefaults(table, g)
         IN /\ IsToml(new) /\ new.type = "table"
            /\ DOMAIN new.fields = DOMAIN table.fields \cup {g}
            /\ \A k \in DOMAIN table.fields : k # g => new.fields[k] = table.fields[k]
            /\ new.fields[g].type = "table"
            /\ DOMAIN new.fields[g].fields = DOMAIN GroupTable(table, g) \cup Members[g]
            /\ \A m \in DOMAIN GroupTable(table, g) :
                 new.fields[g].fields[m] = GroupTable(table, g)[m]
            /\ \A m \in Missing(table, g) : new.fields[g].fields[m] = Written(m)
  <1> DEFINE old == GroupTable(table, g)
             D == DOMAIN old
             group == [m \in D \cup Members[g] |->
                         IF m \in D THEN old[m] ELSE Written(m)]
             f == Put(table.fields, g, Table(group))
             new == WithDefaults(table, g)
  <1>1. new = Table(f)
    BY DEF WithDefaults
  <1>2. new.type = "table" /\ new.fields = f
    BY <1>1 DEF Table
  <1>3. /\ DOMAIN f = DOMAIN table.fields \cup {g} /\ f[g] = Table(group)
        /\ \A k \in DOMAIN table.fields : k # g => f[k] = table.fields[k]
        /\ f = [k \in DOMAIN f |-> f[k]]
    BY DEF Put
  <1>4. /\ Table(group).type = "table" /\ Table(group).fields = group
        /\ Table(group) = Table(Table(group).fields)
    BY DEF Table
  <1>5. /\ DOMAIN group = D \cup Members[g]
        /\ \A m \in D : group[m] = old[m]
        /\ \A m \in Missing(table, g) : group[m] = Written(m)
        /\ group = [m \in DOMAIN group |-> group[m]]
    BY DEF Missing
  <1> HIDE DEF f, group, new, old, D
  <1>6. IsTable(Table(group))
    BY <1>4, <1>5 DEF IsTable
  <1>7. IsToml(new)
    <2>1. IsTable(new)
      BY <1>1, <1>2, <1>3 DEF IsTable
    <2>2. ASSUME NEW k \in DOMAIN f, f[k].type = "table" PROVE IsTable(f[k])
      BY <1>3, <1>6, <2>2 DEF IsToml
    <2>3. QED
      BY <1>2, <2>1, <2>2 DEF IsToml
  <1>8. QED
    BY <1>2, <1>3, <1>4, <1>5, <1>7 DEF new, old, D

(* Registration changes nothing that a group reads, and leaves no member   *)
(* of its group out.                                                       *)
LEMMA ReadsUnchanged ==
  ASSUME NEW table, IsToml(table), NEW g \in Group, NEW h \in Group
  PROVE  /\ GroupValues(WithDefaults(table, g), h) = GroupValues(table, h)
         /\ Missing(WithDefaults(table, g), h) = IF h = g THEN {} ELSE Missing(table, h)
  <1> DEFINE new == WithDefaults(table, g)
  <1>1. /\ IsToml(new) /\ new.type = "table"
        /\ DOMAIN new.fields = DOMAIN table.fields \cup {g}
        /\ \A k \in DOMAIN table.fields : k # g => new.fields[k] = table.fields[k]
        /\ new.fields[g].type = "table"
        /\ DOMAIN new.fields[g].fields = DOMAIN GroupTable(table, g) \cup Members[g]
        /\ \A m \in DOMAIN GroupTable(table, g) :
             new.fields[g].fields[m] = GroupTable(table, g)[m]
        /\ \A m \in Missing(table, g) : new.fields[g].fields[m] = Written(m)
    BY OnlyDefaultsAdded
  <1> HIDE DEF new
  <1>2. CASE h # g
    <2>1. GroupTable(new, h) = GroupTable(table, h)
      BY <1>1, <1>2 DEF GroupTable
    <2>2. QED
      BY <1>2, <2>1 DEF GroupValues, Missing, new
  <1>3. CASE h = g
    <2>1. GroupTable(new, g) = new.fields[g].fields
      BY <1>1 DEF GroupTable
    <2>2. Missing(new, g) = {}
      BY <1>1, <2>1 DEF Missing
    <2>3. ASSUME NEW m \in Members[g]
          PROVE  Read(m, GroupTable(new, g)[m])
                   = IF m \in Missing(table, g) THEN Default[m]
                     ELSE Read(m, GroupTable(table, g)[m])
      <3>1. CASE m \in Missing(table, g)
        BY <1>1, <2>1, <3>1, DefaultsReadBack
      <3>2. CASE m \notin Missing(table, g)
        BY <1>1, <2>1, <3>2 DEF Missing
      <3>3. QED
        BY <3>1, <3>2
    <2>4. GroupValues(new, g) = GroupValues(table, g)
      BY <2>2, <2>3 DEF GroupValues
    <2>5. QED
      BY <1>3, <2>2, <2>4 DEF new
  <1>4. QED
    BY <1>2, <1>3

(***************************************************************************)
(* The inductive invariant.                                                *)
(***************************************************************************)

(* What was loaded is in the file or table f.                              *)
Survives(f) ==
    \A k \in DOMAIN loaded.fields :
        /\ f.type = "table" /\ k \in DOMAIN f.fields
        /\ LET old == loaded.fields[k]
               new == f.fields[k]
           IN IF k \notin Group THEN new = old
              ELSE old.type = "table" =>
                     /\ new.type = "table"
                     /\ \A m \in DOMAIN old.fields :
                          m \in DOMAIN new.fields /\ new.fields[m] = old.fields[m]

Up == pc \notin {"down", "load", "parse"}

WellFormed ==
    /\ file \in {Absent, Garbage} \/ IsToml(file)
    /\ IsToml(configTable) /\ IsToml(loaded)

(* The file has what was loaded, and so has the table that is written.     *)
Survival ==
    /\ undisturbed /\ pc # "flush" => Survives(file)
    /\ Up => Survives(configTable)

(* A group has read what the file and the table still say.                 *)
Agreement ==
    /\ Up => \A g \in Group \ todo : values[g] = GroupValues(configTable, g)
    /\ undisturbed /\ Up /\ pc # "flush" =>
         \A g \in Group : GroupValues(file, g) = GroupValues(configTable, g)

(* Only a file with something missing is written.                          *)
Durability ==
    /\ pc = "flush" => file = Empty
    /\ undisturbed /\ Complete(file) =>
         pc # "write" /\ (pc = "register" => Complete(configTable))

ConfigInv == TypeOK /\ WellFormed /\ Survival /\ Agreement /\ Durability

(* The empty table is well formed, and lacks the members of every group.   *)
LEMMA EmptyTable ==
  /\ IsToml(Empty) /\ Empty.type = "table" /\ ~Complete(Empty)
  /\ Absent.type = "absent" /\ Garbage.type = "garbage"
  <1>1. Empty.type = "table" /\ Empty.fields = <<>> /\ Empty = Table(Empty.fields)
    BY DEF Empty, Table
  <1>2. DOMAIN <<>> = {} /\ <<>> = [k \in {} |-> <<>>[k]]
    OBVIOUS
  <1>3. IsToml(Empty)
    BY <1>1, <1>2 DEF IsToml, IsTable
  <1>4. "network" \in Group /\ Members["network"] = {"port"}
    BY DEF Group, Members
  <1>5. GroupTable(Empty, "network") = <<>>
    BY <1>1, <1>2 DEF GroupTable
  <1>6. "port" \in Missing(Empty, "network")
    BY <1>2, <1>4, <1>5 DEF Missing
  <1>7. QED
    BY <1>1, <1>3, <1>4, <1>6 DEF Complete, Absent, Garbage

(* A step that only moves the main thread on.                              *)
LEMMA MovingOnKeeps ==
  ASSUME ConfigInv,
         \/ Start \/ FindConfig \/ LoadFails \/ OpenFails \/ Run \/ UNCHANGED vars
         \/ GenerateDefault /\ UNCHANGED <<file, undisturbed>>
  PROVE  ConfigInv'
  <1>1. UNCHANGED <<configTable, todo, values, loaded, undisturbed>>
    BY DEF Start, FindConfig, LoadFails, OpenFails, Run, GenerateDefault, vars
  <1>2. file' = file
    BY DEF Start, FindConfig, LoadFails, OpenFails, Run, GenerateDefault, vars
  <1>3. /\ pc' \in {"down", "load", "parse", "register", "write", "flush", "running"}
        /\ pc' = "flush" <=> pc = "flush"
        /\ pc' = "write" => pc = "write"
        /\ pc' = "register" => pc \in {"write", "register"}
        /\ pc' = "running" => pc = "running" \/ todo = {}
        /\ pc' \in {"down", "load", "parse"} <=> pc \in {"down", "load", "parse"}
    BY DEF Start, FindConfig, LoadFails, OpenFails, Run, GenerateDefault, vars, ConfigInv, TypeOK
  <1>4. TypeOK'
    BY <1>1, <1>2, <1>3 DEF ConfigInv, TypeOK
  <1>5. WellFormed' /\ Survival' /\ Agreement' /\ Durability'
    BY <1>1, <1>2, <1>3
    DEF ConfigInv, WellFormed, Survival, Survives, Agreement, Durability, Up
  <1>6. QED
    BY <1>4, <1>5 DEF ConfigInv

(* The default file is made; nothing is lost where there was none.         *)
LEMMA GenerateKeeps ==
  ASSUME ConfigInv, GenerateDefault, ~UNCHANGED <<file, undisturbed>>
  PROVE  ConfigInv'
  <1>1. /\ UNCHANGED <<configTable, todo, values, loaded>>
        /\ pc = "load" /\ pc' = "parse" /\ file' = Empty
        /\ undisturbed' = (undisturbed /\ file = Absent)
    BY DEF GenerateDefault
  <1>2. undisturbed' \in BOOLEAN /\ (undisturbed' => undisturbed /\ file = Absent)
    BY <1>1
  <1>3. TypeOK' /\ WellFormed'
    BY <1>1, <1>2, EmptyTable DEF ConfigInv, TypeOK, WellFormed
  <1>4. Survival'
    BY <1>1, <1>2, EmptyTable DEF ConfigInv, Survival, Survives, Up
  <1>5. Agreement' /\ Durability'
    BY <1>1, EmptyTable DEF Agreement, Durability, Up
  <1>6. QED
    BY <1>3, <1>4, <1>5 DEF ConfigInv

(* The file is loaded.                                                     *)
LEMMA LoadKeeps ==
  ASSUME ConfigInv, LoadConfig
  PROVE  ConfigInv'
  <1>1. /\ configTable' = file /\ loaded' = file /\ file' = file
        /\ todo' = Group /\ values' = <<>> /\ pc' = "register"
        /\ undisturbed' = TRUE /\ file.type = "table"
    BY DEF LoadConfig
  <1>2. IsToml(file)
    BY <1>1, EmptyTable DEF ConfigInv, WellFormed
  <1>3. DOMAIN <<>> = {}
    OBVIOUS
  <1>4. TypeOK' /\ WellFormed'
    BY <1>1, <1>2, <1>3 DEF TypeOK, WellFormed
  <1>5. Survival'
    BY <1>1 DEF Survival, Survives, Up
  <1>6. Agreement' /\ Durability'
    BY <1>1 DEF Agreement, Durability, Up
  <1>7. QED
    BY <1>4, <1>5, <1>6 DEF ConfigInv

(* A group is registered: what it reads does not change, and what was      *)
(* loaded stays in the table.                                              *)
LEMMA RegisterKeeps ==
  ASSUME ConfigInv, NEW g \in Group, RegisterConfigGroup(g)
  PROVE  ConfigInv'
  <1> DEFINE new == WithDefaults(configTable, g)
  <1>1. /\ pc = "register" /\ g \in todo /\ todo' = todo \ {g}
        /\ values' = Put(values, g, GroupValues(configTable, g))
        /\ configTable' = new
        /\ pc' = (IF ConfigChanged(configTable, g) THEN "write" ELSE pc)
        /\ UNCHANGED <<file, loaded, undisturbed>>
    BY DEF RegisterConfigGroup
  <1>2. IsToml(configTable)
    BY DEF ConfigInv, WellFormed
  <1>3. /\ IsToml(new) /\ new.type = "table"
        /\ DOMAIN new.fields = DOMAIN configTable.fields \cup {g}
        /\ \A k \in DOMAIN configTable.fields :
             k # g => new.fields[k] = configTable.fields[k]
        /\ new.fields[g].type = "table"
        /\ DOMAIN new.fields[g].fields = DOMAIN GroupTable(configTable, g) \cup Members[g]
        /\ \A m \in DOMAIN GroupTable(configTable, g) :
             new.fields[g].fields[m] = GroupTable(configTable, g)[m]
    BY <1>2, OnlyDefaultsAdded
  <1>4. \A h \in Group :
          /\ GroupValues(new, h) = GroupValues(configTable, h)
          /\ Missing(new, h) = IF h = g THEN {} ELSE Missing(configTable, h)
    BY <1>2, ReadsUnchanged
  <1> HIDE DEF new
  <1>5. TypeOK'
    <2>1. DOMAIN values' = Group \ todo'
      BY <1>1 DEF ConfigInv, TypeOK, Put
    <2>2. QED
      BY <1>1, <1>3, <2>1 DEF ConfigInv, TypeOK
  <1>6. WellFormed'
    BY <1>1, <1>3 DEF ConfigInv, WellFormed
  <1>7. Survival'
    <2>1. Survives(configTable) /\ (undisturbed => Survives(file))
      BY <1>1 DEF ConfigInv, Survival, Up
    <2>2. Survives(configTable)'
      <3> SUFFICES ASSUME NEW k \in DOMAIN loaded.fields
                   PROVE  /\ new.type = "table" /\ k \in DOMAIN new.fields
                          /\ k \notin Group => new.fields[k] = loaded.fields[k]
                          /\ k \in Group /\ loaded.fields[k].type = "table" =>
                               /\ new.fields[k].type = "table"
                               /\ \A m \in DOMAIN loaded.fields[k].fields :
                                    /\ m \in DOMAIN new.fields[k].fields
                                    /\ new.fields[k].fields[m] = loaded.fields[k].fields[m]
        BY <1>1 DEF Survives
      <3>1. CASE k # g
        BY <1>3, <2>1, <3>1 DEF Survives
      <3>2. CASE k = g
        <4>1. loaded.fields[g].type = "table" =>
                GroupTable(configTable, g) = configTable.fields[g].fields
          BY <2>1, <3>2 DEF Survives, GroupTable
        <4>2. QED
          BY <1>3, <2>1, <3>2, <4>1 DEF Survives
      <3>3. QED
        BY <3>1, <3>2
    <2>3. undisturbed => Survives(file)'
      BY <1>1, <2>1 DEF Survives
    <2>4. QED
      BY <1>1, <2>2, <2>3 DEF Survival
  <1>8. Agreement'
    <2>1. ASSUME NEW h \in Group \ todo'
          PROVE  values'[h] = GroupValues(configTable', h)
      <3>1. CASE h = g
        BY <1>1, <1>4, <3>1 DEF Put
      <3>2. CASE h # g
        <4>1. h \in Group \ todo /\ h \in DOMAIN values
          BY <1>1, <3>2 DEF ConfigInv, TypeOK
        <4>2. values'[h] = values[h]
          BY <1>1, <3>2, <4>1 DEF Put
        <4>3. QED
          BY <1>1, <1>4, <4>1, <4>2 DEF ConfigInv, Agreement, Up
      <3>3. QED
        BY <3>1, <3>2
    <2>2. undisturbed => \A h \in Group : GroupValues(file, h) = GroupValues(configTable', h)
      BY <1>1, <1>4 DEF ConfigInv, Agreement, Up
    <2>3. QED
      BY <1>1, <2>1, <2>2 DEF Agreement
  <1>9. Durability'
    <2>1. ASSUME undisturbed, Complete(file)
          PROVE  pc' = "register" /\ Complete(configTable')
      <3>1. Complete(configTable)
        BY <1>1, <2>1 DEF ConfigInv, Durability
      <3>2. ~ConfigChanged(configTable, g)
        BY <3>1 DEF Complete, ConfigChanged
      <3>3. QED
        BY <1>1, <1>3, <1>4, <3>1, <3>2 DEF Complete
    <2>2. pc' # "flush"
      BY <1>1
    <2>3. QED
      BY <1>1, <2>1, <2>2 DEF Durability
  <1>10. QED
    BY <1>5, <1>6, <1>7, <1>8, <1>9 DEF ConfigInv

(* The file is truncated, then written.                                    *)
LEMMA WritingKeeps ==
  ASSUME ConfigInv, Truncate \/ Flush
  PROVE  ConfigInv'
  <1>1. CASE Truncate
    <2>1. /\ pc = "write" /\ pc' = "flush" /\ file' = Empty
          /\ UNCHANGED <<configTable, todo, values, loaded, undisturbed>>
      BY <1>1 DEF Truncate
    <2>2. TypeOK' /\ WellFormed'
      BY <2>1, EmptyTable DEF ConfigInv, TypeOK, WellFormed
    <2>3. Survival' /\ Agreement' /\ Durability'
      BY <2>1, EmptyTable DEF ConfigInv, Survival, Survives, Agreement, Durability, Up
    <2>4. QED
      BY <2>2, <2>3 DEF ConfigInv
  <1>2. CASE Flush
    <2>1. /\ pc = "flush" /\ pc' = "register"
          /\ UNCHANGED <<configTable, todo, values, loaded>>
          /\ \/ file' = configTable /\ undisturbed' = undisturbed
             \/ undisturbed' = FALSE /\ file' = file
      BY <1>2 DEF Flush
    <2>2. TypeOK' /\ WellFormed'
      BY <2>1 DEF ConfigInv, TypeOK, WellFormed
    <2>3. Survival'
      BY <2>1 DEF ConfigInv, Survival, Survives, Up
    <2>4. Agreement' /\ Durability'
      BY <2>1 DEF ConfigInv, Agreement, Durability, Up
    <2>5. QED
      BY <2>2, <2>3, <2>4 DEF ConfigInv
  <1>3. QED
    BY <1>1, <1>2

(* The process ends, or the user edits the file.                           *)
LEMMA OutsideKeeps ==
  ASSUME ConfigInv, Stop \/ \E f \in Files : Edit(f)
  PROVE  ConfigInv'
  <1>1. CASE Stop
    <2>1. /\ pc' = "down" /\ undisturbed' = (undisturbed /\ pc # "flush")
          /\ configTable' = Empty /\ todo' = {} /\ values' = <<>>
          /\ UNCHANGED <<file, loaded>>
      BY <1>1 DEF Stop
    <2>2. DOMAIN <<>> = {}
      OBVIOUS
    <2>3. undisturbed' \in BOOLEAN /\ (undisturbed' => undisturbed /\ pc # "flush")
      BY <2>1
    <2>4. TypeOK' /\ WellFormed'
      BY <2>1, <2>2, <2>3, EmptyTable DEF ConfigInv, TypeOK, WellFormed
    <2>5. Survival' /\ Agreement' /\ Durability'
      BY <2>1, <2>3 DEF ConfigInv, Survival, Survives, Agreement, Durability, Up
    <2>6. QED
      BY <2>4, <2>5 DEF ConfigInv
  <1>2. ASSUME NEW f \in Files, Edit(f) PROVE ConfigInv'
    <2>1. /\ pc # "flush" /\ file' = f /\ undisturbed' = FALSE
          /\ UNCHANGED <<pc, configTable, todo, values, loaded>>
      BY <1>2 DEF Edit
    <2>2. f \in {Absent, Garbage} \/ IsToml(f)
      BY FilesAssumption
    <2>3. f.type \in {"absent", "garbage", "table"}
      BY <2>2, EmptyTable DEF IsToml, IsTable, Table
    <2>4. TypeOK' /\ WellFormed'
      BY <2>1, <2>2, <2>3 DEF ConfigInv, TypeOK, WellFormed
    <2>5. Survival' /\ Agreement' /\ Durability'
      BY <2>1 DEF ConfigInv, Survival, Survives, Agreement, Durability, Up
    <2>6. QED
      BY <2>4, <2>5 DEF ConfigInv
  <1>3. QED
    BY <1>1, <1>2

(* Every step keeps what was loaded, what was read and what is complete.   *)
LEMMA ConfigInductive ==
  ASSUME ConfigInv, [Next]_vars
  PROVE  ConfigInv'
  <1>1. CASE GenerateDefault
    <2>1. CASE UNCHANGED <<file, undisturbed>>
      BY <1>1, <2>1, MovingOnKeeps
    <2>2. CASE ~UNCHANGED <<file, undisturbed>>
      BY <1>1, <2>2, GenerateKeeps
    <2>3. QED
      BY <2>1, <2>2
  <1>2. CASE Start \/ FindConfig \/ LoadFails \/ OpenFails \/ Run \/ UNCHANGED vars
    BY <1>2, MovingOnKeeps
  <1>3. CASE LoadConfig \/ \E g \in Group : RegisterConfigGroup(g)
    BY <1>3, LoadKeeps, RegisterKeeps
  <1>4. CASE Truncate \/ Flush \/ Stop \/ \E f \in Files : Edit(f)
    BY <1>4, WritingKeeps, OutsideKeeps
  <1>5. QED
    BY <1>1, <1>2, <1>3, <1>4 DEF Next

(* The invariant holds from the start on.                                  *)
LEMMA ConfigInvHolds == Spec => []ConfigInv
  <1>1. Init => ConfigInv
    <2> SUFFICES ASSUME Init PROVE ConfigInv
      OBVIOUS
    <2>1. /\ file = Absent /\ pc = "down" /\ configTable = Empty /\ todo = {}
          /\ values = <<>> /\ loaded = Empty /\ undisturbed = TRUE
      BY DEF Init
    <2>2. DOMAIN <<>> = {} /\ Empty.fields = <<>>
      BY DEF Empty, Table
    <2>3. TypeOK /\ WellFormed
      BY <2>1, <2>2, EmptyTable DEF TypeOK, WellFormed
    <2>4. Survival /\ Agreement /\ Durability
      BY <2>1, <2>2 DEF Survival, Survives, Agreement, Durability, Up
    <2>5. QED
      BY <2>3, <2>4 DEF ConfigInv
  <1>2. ConfigInv /\ [Next]_vars => ConfigInv'
    BY ConfigInductive
  <1>3. QED
    BY <1>1, <1>2, PTL DEF Spec

(***************************************************************************)
(* The theorems.                                                           *)
(***************************************************************************)

(* Every variable keeps its type; every group is registered when the       *)
(* network looks for its own.                                              *)
THEOREM ConfigTypeCorrect == Spec => []TypeOK
  BY ConfigInvHolds, PTL DEF ConfigInv

(* No start, end or kill of the process but one in the middle of a write,  *)
(* or one that generates over a file it could not open, loses what the     *)
(* user had in the file.                                                   *)
THEOREM SettingsAreKept == Spec => []SettingsSurvive
  <1>1. ConfigInv => SettingsSurvive
    BY DEF ConfigInv, Survival, Survives, SettingsSurvive
  <1>2. QED
    BY <1>1, ConfigInvHolds, PTL

(* The program runs with what its next start will read.                    *)
THEOREM ReadsAgree == Spec => []NextStartAgrees
  <1>1. ConfigInv => NextStartAgrees
    BY DEF ConfigInv, TypeOK, Agreement, NextStartAgrees, Up
  <1>2. QED
    BY <1>1, ConfigInvHolds, PTL

(* A file that has every member is never opened for writing again by a     *)
(* start that could open it for reading.                                   *)
THEOREM CompleteForGood == Spec => SettledIsDurable
  <1>1. ConfigInv /\ [Next]_vars =>
          [Complete(file) /\ undisturbed /\ undisturbed' => file' = file]_vars
    <2> SUFFICES ASSUME ConfigInv, Next, Complete(file), undisturbed, undisturbed'
                 PROVE  file' = file
      OBVIOUS
    <2>1. file # Absent /\ file # Empty
      BY EmptyTable DEF Complete
    <2>2. CASE \/ Start \/ FindConfig \/ GenerateDefault \/ LoadFails \/ LoadConfig
               \/ OpenFails \/ Run \/ Stop
      BY <2>1, <2>2 DEF Start, FindConfig, GenerateDefault, LoadFails, LoadConfig, OpenFails, Run, Stop
    <2>3. ASSUME NEW g \in Group, RegisterConfigGroup(g) PROVE file' = file
      BY <2>3 DEF RegisterConfigGroup
    <2>4. CASE Truncate \/ Flush
      BY <2>1, <2>4 DEF Truncate, Flush, ConfigInv, Durability
    <2>5. ASSUME NEW f \in Files, Edit(f) PROVE file' = file
      BY <2>5 DEF Edit
    <2>6. QED
      BY <2>2, <2>3, <2>4, <2>5 DEF Next
  <1>2. QED
    BY <1>1, ConfigInvHolds, PTL DEF Spec, SettledIsDurable
=============================================================================
