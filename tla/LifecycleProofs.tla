-------------------------- MODULE LifecycleProofs --------------------------
(***************************************************************************)
(* Lifecycle, proved for every set of connections, every budget of data,   *)
(* any number of requests per recv and both platforms.  IndInv is inductive: one lemma per thread and one  *)
(* for the clients, with a step per action; the invariants follow from it, *)
(* and so does the refinement of ConnectionLifetime.                        *)
(***************************************************************************)
EXTENDS Lifecycle, TLAPS

(* It holds at first: nothing has started and nobody has connected.        *)
LEMMA InitIndInv == Init => IndInv
  <1>1. ASSUME Init PROVE TypeOK
    <2>2. /\ work \in [Conn -> Nat] /\ running \in [Conn -> Nat]
          /\ inbox \in [Conn -> Nat] /\ sent \in [Conn -> Nat]
      BY <1>1 DEF Init
    <2>3. /\ sock \in [Conn -> {"none", "open", "closed"}]
          /\ peer \in [Conn -> {"none", "connected", "closed"}]
      BY <1>1 DEF Init
    <2>4. QED
      BY <1>1, <2>2, <2>3 DEF Init, TypeOK, MainPc, NetPc, CurlPc
  <1>2. Init => CurOK /\ CallingOK /\ OwnershipOK /\ StartupOK /\ ShutdownOK
    BY DEF Init, CurOK, CallingOK, OwnershipOK, StartupOK, ShutdownOK, Serving
  <1>3. Init => CallbackFindsPlayer /\ RegistriesAgree
    BY DEF Init, CallbackFindsPlayer, RegistriesAgree
  <1>4. QED
    BY <1>1, <1>2, <1>3 DEF IndInv

(* A step of the main thread keeps the invariant. *)
LEMMA MainPreservesIndInv ==
  ASSUME IndInv, Live, MainStep
  PROVE  IndInv'
  <1> USE ConnAssumption, MaxDataAssumption
      DEF IndInv, TypeOK, CurOK, CallingOK, OwnershipOK, StartupOK, ShutdownOK,
          CallbackFindsPlayer, RegistriesAgree, Held, MainPc, NetPc, CurlPc, Service,
          Serving, Live, vars, mainVars, netVars, curlVars, connVars, clientVars
  <1>1. CASE LoadConfig
    BY <1>1 DEF LoadConfig
  <1>2. CASE StartNetworkThread
    BY <1>2 DEF StartNetworkThread
  <1>3. CASE GenerateKeys
    <2>1. services' = {"keyPair"}
      BY <1>3 DEF GenerateKeys
    <2>2. QED
      BY <1>3, <2>1 DEF GenerateKeys
  <1>4. CASE PublishNetwork
    BY <1>4 DEF PublishNetwork, Publish
  <1>5. CASE StartCurl
    BY <1>5 DEF StartCurl
  <1>6. CASE BeginRegister
    BY <1>6 DEF BeginRegister
  <1>7. CASE EndRegister
    BY <1>7 DEF EndRegister
  <1>8. CASE Frame
    BY <1>8 DEF Frame
  <1>9. ASSUME NEW c \in Conn, SweepPlayer(c) PROVE IndInv'
    BY <1>9 DEF SweepPlayer, Sweep
  <1>10. CASE EndSweep
    BY <1>10 DEF EndSweep
  <1>11. CASE StopCurl
    BY <1>11 DEF StopCurl
  <1>12. CASE JoinCurl
    BY <1>12 DEF JoinCurl
  <1>13. CASE StopNetwork
    BY <1>13 DEF StopNetwork
  <1>14. CASE JoinNetwork
    BY <1>14 DEF JoinNetwork
  <1> QED
    BY <1>1, <1>2, <1>3, <1>4, <1>5, <1>6, <1>7, <1>8, <1>9, <1>10, <1>11, <1>12,
       <1>13, <1>14 DEF MainStep

(* A step of the network thread keeps the invariant. *)
LEMMA NetPreservesIndInv ==
  ASSUME IndInv, Live, NetStep
  PROVE  IndInv'
  <1> USE ConnAssumption, MaxDataAssumption
      DEF IndInv, TypeOK, CurOK, CallingOK, OwnershipOK, StartupOK, ShutdownOK,
          CallbackFindsPlayer, RegistriesAgree, Held, MainPc, NetPc, CurlPc, Service,
          Serving, Live, vars, mainVars, netVars, curlVars, connVars, clientVars
  <1>1. CASE NetStart
    <2>1. shutdown' \in BOOLEAN /\ listen' \in {"unopened", "valid", "closed"}
      BY <1>1 DEF NetStart
    <2>2. TypeOK'
      BY <1>1, <2>1, SMTT(30) DEF NetStart
    <2>3. /\ CurOK' /\ CallingOK' /\ OwnershipOK' /\ StartupOK' /\ ShutdownOK'
          /\ CallbackFindsPlayer' /\ RegistriesAgree'
      BY <1>1 DEF NetStart
    <2>4. QED
      BY <2>2, <2>3
  <1>2. CASE NetExit
    BY <1>2 DEF NetExit
  <1>3. CASE AcceptNothing
    BY <1>3 DEF AcceptNothing, Listening
  <1>4. CASE RegisterPlayer
    BY <1>4 DEF RegisterPlayer, Registered
  <1>5. CASE RegisterOrphan
    BY <1>5 DEF RegisterOrphan, Registered
  <1>6. CASE RegisterRace
    BY <1>6 DEF RegisterRace
  <1>7. ASSUME NEW c \in Conn, AcceptConn(c) PROVE IndInv'
    BY <1>7 DEF AcceptConn, Listening, Waiting
  <1>8. ASSUME NEW c \in Conn, DropHandler(c) PROVE IndInv'
    BY <1>8 DEF DropHandler, InHandlers, Alive
  <1>9. ASSUME NEW c \in Conn, HoldHandler(c) PROVE IndInv'
    BY <1>9 DEF HoldHandler, Hold, InHandlers, Alive
  <1>10. ASSUME NEW c \in Conn, DropConnection(c) PROVE IndInv'
    BY <1>10 DEF DropConnection, InSends
  <1>11. ASSUME NEW c \in Conn, Flush(c) PROVE IndInv'
    BY <1>11 DEF Flush, Sends, InSends
  <1>12. ASSUME NEW c \in Conn, SendFails(c) PROVE IndInv'
    BY <1>12 DEF SendFails, InSends
  <1>13. ASSUME NEW c \in Conn, SendKilled(c) PROVE IndInv'
    BY <1>13 DEF SendKilled, InSends
  <1>14. CASE \E ok, reply \in BOOLEAN, auth \in 0..MaxAuth :
                 RecvData(ok, auth, reply)
    <2>1. PICK ok \in BOOLEAN, reply \in BOOLEAN, auth \in 0..MaxAuth :
            RecvData(ok, auth, reply)
      BY <1>14
    <2>2. /\ cur \in Conn /\ sock[cur] = "open" /\ cur \in players
          /\ auth \in Nat
      BY <2>1, MaxAuthAssumption DEF RecvData, TickDone
    <2>3. /\ work' \in [Conn -> Nat] /\ inbox' \in [Conn -> Nat]
          /\ \A c \in Conn \ {cur} : work'[c] = work[c]
      BY <2>1, <2>2 DEF RecvData, TickDone
    <2>4. TypeOK'
      BY <2>1, <2>2, <2>3 DEF RecvData, TickDone
    <2>5. /\ CurOK' /\ CallingOK' /\ OwnershipOK' /\ StartupOK' /\ ShutdownOK'
          /\ CallbackFindsPlayer' /\ RegistriesAgree'
      BY <2>1, <2>2, <2>3 DEF RecvData, TickDone
    <2>6. QED
      BY <2>4, <2>5
  <1>15. CASE RecvClosed
    BY <1>15 DEF RecvClosed, TickDone
  <1>16. CASE RecvNothing
    BY <1>16 DEF RecvNothing, TickDone
  <1>17. CASE DropRef
    BY <1>17 DEF DropRef
  <1>18. CASE HandlersDone
    BY <1>18 DEF HandlersDone, EndHandlers
  <1>19. CASE SendsDone
    BY <1>19 DEF SendsDone
  <1>20. CASE Hang
    BY <1>20 DEF Hang
  <1> QED
    BY <1>1, <1>2, <1>3, <1>4, <1>5, <1>6, <1>7, <1>8, <1>9, <1>10, <1>11,
       <1>12, <1>13, <1>14, <1>15, <1>16, <1>17, <1>18, <1>19, <1>20, ZenonT(40) DEF NetStep

(* A step of the curl thread keeps the invariant. *)
LEMMA CurlPreservesIndInv ==
  ASSUME IndInv, Live, CurlStep
  PROVE  IndInv'
  <1> USE ConnAssumption, MaxDataAssumption
      DEF IndInv, TypeOK, CurOK, CallingOK, OwnershipOK, StartupOK, ShutdownOK,
          CallbackFindsPlayer, RegistriesAgree, Held, MainPc, NetPc, CurlPc, Service,
          Serving, Live, vars, mainVars, netVars, curlVars, connVars, clientVars
  <1>1. ASSUME NEW c \in Conn, Dequeue(c) PROVE IndInv'
    BY <1>1 DEF Dequeue, Take
  <1>2. ASSUME NEW c \in Conn, BeginCallback(c) PROVE IndInv'
    <2>1. crashed' \in BOOLEAN /\ curlPc' \in CurlPc
          /\ calling' \in Conn \cup {NoConn}
      BY <1>2 DEF BeginCallback
    <2>2. TypeOK'
      BY <1>2, <2>1 DEF BeginCallback
    <2>3. /\ CurOK' /\ CallingOK' /\ OwnershipOK' /\ StartupOK' /\ ShutdownOK'
          /\ CallbackFindsPlayer' /\ RegistriesAgree'
      BY <1>2 DEF BeginCallback
    <2>4. QED
      BY <2>2, <2>3
  <1>3. CASE DequeueNothing
    BY <1>3 DEF DequeueNothing
  <1>4. CASE EndCallback
    <2>1. calling \in Conn /\ running[calling] > 0
      BY <1>4 DEF EndCallback
    <2>2. crashed' \in BOOLEAN
      BY <1>4, Zenon DEF EndCallback
    <2>3. pendingOut' \in {pendingOut, pendingOut \cup {calling}}
      BY <1>4, Zenon DEF EndCallback
    <2>4. running' \in [Conn -> Nat]
      BY <1>4, <2>1 DEF EndCallback
    <2>5. TypeOK'
      BY <1>4, <2>1, <2>2, <2>3, <2>4 DEF EndCallback
    <2>6. OwnershipOK'
      <3>1. sock[calling] # "none" /\ (sock[calling] = "open" => calling \in players)
        BY <2>1
      <3>2. \A c \in Conn : running[c] = 0 => running'[c] = 0
        BY <1>4, <2>1 DEF EndCallback
      <3>3. QED
        BY <1>4, <2>1, <2>3, <3>1, <3>2 DEF EndCallback
    <2>7. /\ CurOK' /\ CallingOK' /\ StartupOK' /\ ShutdownOK'
          /\ CallbackFindsPlayer' /\ RegistriesAgree'
      BY <1>4, <2>1 DEF EndCallback
    <2>8. QED
      BY <2>5, <2>6, <2>7
  <1>5. CASE CurlSleep
    BY <1>5 DEF CurlSleep
  <1> QED
    BY <1>1, <1>2, <1>3, <1>4, <1>5 DEF CurlStep

(* A step of the clients keeps the invariant. *)
LEMMA ClientsPreserveIndInv ==
  ASSUME IndInv, Live, ClientStep
  PROVE  IndInv'
  <1> USE ConnAssumption, MaxDataAssumption
      DEF IndInv, TypeOK, CurOK, CallingOK, OwnershipOK, StartupOK, ShutdownOK,
          CallbackFindsPlayer, RegistriesAgree, Held, MainPc, NetPc, CurlPc, Service,
          Serving, Live, vars, mainVars, netVars, curlVars, connVars, clientVars
  <1>1. ASSUME NEW c \in Conn, Connect(c) PROVE IndInv'
    BY <1>1 DEF Connect
  <1>2. ASSUME NEW c \in Conn, ClientSend(c) PROVE IndInv'
    <2>1. inbox' \in [Conn -> Nat] /\ sent' \in [Conn -> Nat]
      BY <1>2 DEF ClientSend
    <2>3. TypeOK'
      BY <1>2, <2>1 DEF ClientSend
    <2>4. /\ CurOK' /\ CallingOK' /\ OwnershipOK' /\ StartupOK' /\ ShutdownOK'
          /\ CallbackFindsPlayer' /\ RegistriesAgree'
      BY <1>2 DEF ClientSend
    <2>5. QED
      BY <2>3, <2>4
  <1>3. ASSUME NEW c \in Conn, ClientClose(c) PROVE IndInv'
    <2>1. peer' \in [Conn -> {"none", "connected", "closed"}]
      BY <1>3 DEF ClientClose
    <2>2. TypeOK'
      BY <1>3, <2>1 DEF ClientClose
    <2>3. /\ CurOK' /\ CallingOK' /\ OwnershipOK' /\ StartupOK' /\ ShutdownOK'
          /\ CallbackFindsPlayer' /\ RegistriesAgree'
      BY <1>3 DEF ClientClose
    <2>4. QED
      BY <2>2, <2>3
  <1> QED
    BY <1>1, <1>2, <1>3 DEF ClientStep

(* The invariant holds for ever: it holds at first, every step of a thread *)
(* or a client keeps it, and when nobody is live nothing changes.          *)
THEOREM Inductive == Spec => []IndInv
  <1>1. IndInv /\ [Next]_vars => IndInv'
    <2> SUFFICES ASSUME IndInv, [Next]_vars PROVE IndInv'
      OBVIOUS
    <2>1. CASE Live /\ (MainStep \/ NetStep \/ CurlStep \/ ClientStep)
      BY <2>1, MainPreservesIndInv, NetPreservesIndInv, CurlPreservesIndInv,
         ClientsPreserveIndInv
    <2>2. CASE UNCHANGED vars
      BY <2>2 DEF vars, mainVars, netVars, curlVars, connVars, clientVars, IndInv,
         TypeOK, CurOK, CallingOK, OwnershipOK, StartupOK, ShutdownOK,
         CallbackFindsPlayer, RegistriesAgree, Serving
    <2>3. QED
      BY <2>1, <2>2 DEF Next, Terminated
  <1>2. QED
    BY <1>1, InitIndInv, PTL DEF Spec

(* Every variable keeps its type: the counts of the requests queued and    *)
(* under way, of two threads, never fall below zero.                        *)
THEOREM TypeCorrect == Spec => []TypeOK
  <1>1. IndInv => TypeOK
    BY DEF IndInv
  <1>2. QED
    BY <1>1, Inductive, PTL

(* The raw pointer in the callback of a request points to a live player as *)
(* long as the client's socket is open.                                    *)
THEOREM CallbackSafety == Spec => []CallbackFindsPlayer
  <1>1. IndInv => CallbackFindsPlayer
    BY DEF IndInv
  <1>2. QED
    BY <1>1, Inductive, PTL

(* An open connection is in m_players exactly if it is in                  *)
(* m_packetHandlers, and it is in m_activeConnections.                     *)
THEOREM RegistryAgreement == Spec => []RegistriesAgree
  <1>1. IndInv => RegistriesAgree
    BY DEF IndInv
  <1>2. QED
    BY <1>1, Inductive, PTL

(* A player never runs without the key pair, the network or the HTTP       *)
(* client it dereferences unchecked.                                       *)
THEOREM ServicesOutlive == Spec => []ServicesOutlivePlayers
  <1>1. IndInv => ServicesOutlivePlayers
    BY DEF IndInv, StartupOK, ShutdownOK, ServicesOutlivePlayers
  <1>2. QED
    BY <1>1, Inductive, PTL

(* The network thread never receives on a closed socket.                   *)
THEOREM RecvOnOpen == Spec => []RecvOnOpenSocket
  <1>1. IndInv => RecvOnOpenSocket
    BY DEF IndInv, CurOK, RecvOnOpenSocket
  <1>2. QED
    BY <1>1, Inductive, PTL

(***************************************************************************)
(* The refinement of ConnectionLifetime.                                    *)
(***************************************************************************)

(* The phase of a connection moves when that of no other one does.         *)
LEMMA OneMoves ==
  ASSUME NEW c \in Conn, NEW from, NEW to,
         PhaseOf(c) = from, PhaseOf(c)' = to,
         \A d \in Conn \ {c} : PhaseOf(d)' = PhaseOf(d),
         Down' = Down
  PROVE  Lifetime!Move(c, from, to)
  BY DEF Lifetime!Move

(* What a phase depends on, for a connection that is not the one in hand.  *)
LEMMA OthersStay ==
  ASSUME NEW d \in Conn, sock'[d] = sock[d],
         d \in players' <=> d \in players, d \in handlers' <=> d \in handlers,
         d \in active' <=> d \in active,
         (cur' = d /\ netPc' \in Held) <=> (cur = d /\ netPc \in Held),
         (cur' = d /\ netPc' = "register") <=> (cur = d /\ netPc = "register")
  PROVE  PhaseOf(d)' = PhaseOf(d)
  BY DEF PhaseOf, Referenced, Alive, Held

(* A step that changes nothing a phase depends on is a stutter.            *)
LEMMA Stutters ==
  ASSUME \A d \in Conn : PhaseOf(d)' = PhaseOf(d),
         Down' = Down
  PROVE  UNCHANGED Lifetime!vars
  BY DEF Lifetime!vars

(* The main thread releases at most one player at a time, and only a dead  *)
(* one; when it leaves nobody has ever connected.                          *)
LEMMA MainRefines ==
  ASSUME IndInv, Live, MainStep
  PROVE  [Lifetime!Next]_(Lifetime!vars)
  <1> USE DEF Down, Held, mainVars, netVars, curlVars, connVars, clientVars
  <1>1. ASSUME NEW c \in Conn, SweepPlayer(c)
        PROVE  [Lifetime!Next]_(Lifetime!vars)
    <2>1. \A d \in Conn \ {c} : PhaseOf(d)' = PhaseOf(d)
      BY <1>1, OthersStay DEF SweepPlayer, Sweep
    <2>2. Down' = Down
      BY <1>1 DEF SweepPlayer, Sweep
    <2>3. PhaseOf(c)' = PhaseOf(c)
          \/ (PhaseOf(c) = "closing" /\ PhaseOf(c)' = "released")
      BY <1>1 DEF SweepPlayer, Sweep, PhaseOf, Referenced, Alive
    <2>4. CASE PhaseOf(c)' = PhaseOf(c)
      BY <2>1, <2>2, <2>4, Stutters
    <2>5. CASE PhaseOf(c) = "closing" /\ PhaseOf(c)' = "released"
      BY <2>1, <2>2, <2>5, OneMoves DEF Lifetime!Next, Lifetime!Release
    <2>6. QED
      BY <2>3, <2>4, <2>5
  <1>2. CASE JoinNetwork
    <2>1. \A d \in Conn : sock[d] = "none" /\ sock'[d] = "none"
      BY <1>2 DEF JoinNetwork, IndInv, StartupOK, ShutdownOK
    <2>2. \A d \in Conn : PhaseOf(d)' = PhaseOf(d)
      BY <2>1 DEF PhaseOf
    <2>3. Down' = Down
      BY <1>2 DEF JoinNetwork
    <2>4. QED
      BY <2>2, <2>3, Stutters
  <1>3. CASE StartNetworkThread
    <2>1. \A d \in Conn : PhaseOf(d)' = PhaseOf(d)
      BY <1>3, OthersStay
      DEF StartNetworkThread, IndInv, CurOK, StartupOK
    <2>2. Down' = Down
      BY <1>3 DEF StartNetworkThread, IndInv, StartupOK
    <2>3. QED
      BY <2>1, <2>2, Stutters
  <1>4. CASE UNCHANGED <<netPc, cur, connVars, crashed>>
    <2>1. \A d \in Conn : PhaseOf(d)' = PhaseOf(d)
      BY <1>4, OthersStay
    <2>2. QED
      BY <1>4, <2>1, Stutters
  <1>5. QED
    BY <1>1, <1>2, <1>3, <1>4
    DEF MainStep, LoadConfig, GenerateKeys, PublishNetwork, Publish, StartCurl,
        BeginRegister, EndRegister, Frame, EndSweep, StopCurl, JoinCurl,
        StopNetwork

(* The network thread accepts, closes and forgets one connection at a      *)
(* time; it closes only connections that have a player.                    *)
LEMMA NetRefines ==
  ASSUME IndInv, Live, NetStep
  PROVE  [Lifetime!Next]_(Lifetime!vars)
  <1> DEFINE Up == ~Down
             Others(c) == \A d \in Conn \ {c} : PhaseOf(d)' = PhaseOf(d)
  <1> USE DEF Down, Held, mainVars, netVars, curlVars, connVars, clientVars
  <1>1. ASSUME NEW c \in Conn, Others(c), Up' = Up,
               \/ PhaseOf(c)' = PhaseOf(c)
               \/ PhaseOf(c) = "closing" /\ PhaseOf(c)' = "released"
               \/ Up /\ PhaseOf(c) = "served" /\ PhaseOf(c)' = "closing"
               \/ Up /\ PhaseOf(c) = "absent" /\ PhaseOf(c)' = "served"
               \/ Up /\ PhaseOf(c) = "absent" /\ PhaseOf(c)' = "orphaned"
        PROVE  [Lifetime!Next]_(Lifetime!vars)
    <2>1. CASE PhaseOf(c)' = PhaseOf(c)
      <3>1. \A d \in Conn : PhaseOf(d)' = PhaseOf(d)
        BY <1>1, <2>1
      <3>2. QED
        BY <1>1, <3>1, Stutters
    <2>2. CASE PhaseOf(c) = "closing" /\ PhaseOf(c)' = "released"
      BY <1>1, <2>2, OneMoves DEF Lifetime!Next, Lifetime!Release
    <2>3. CASE Up /\ PhaseOf(c) = "served" /\ PhaseOf(c)' = "closing"
      BY <1>1, <2>3, OneMoves DEF Lifetime!Next, Lifetime!Lose
    <2>4. CASE Up /\ PhaseOf(c) = "absent" /\ PhaseOf(c)' = "served"
      BY <1>1, <2>4, OneMoves DEF Lifetime!Next, Lifetime!Adopt
    <2>5. CASE Up /\ PhaseOf(c) = "absent" /\ PhaseOf(c)' = "orphaned"
      BY <1>1, <2>5, OneMoves DEF Lifetime!Next, Lifetime!Adopt
    <2>6. QED
      BY <1>1, <2>1, <2>2, <2>3, <2>4, <2>5
  <1>2. ASSUME NEW c \in Conn, AcceptConn(c)
        PROVE  [Lifetime!Next]_(Lifetime!vars)
    <2>1. Others(c) /\ Up' = Up
      BY <1>2, OthersStay DEF AcceptConn, Listening, Waiting, IndInv, TypeOK, Live
    <2>2. PhaseOf(c)' = PhaseOf(c)
      BY <1>2 DEF AcceptConn, Listening, Waiting, PhaseOf, IndInv, TypeOK
    <2>3. QED
      BY <1>1, <2>1, <2>2
  <1>3. CASE RegisterPlayer \/ RegisterOrphan
    <2>1. cur \in Conn /\ sock[cur] = "open" /\ netPc = "register"
          /\ cur \notin players \cup handlers \cup active
      BY <1>3 DEF RegisterPlayer, RegisterOrphan, IndInv, CurOK
    <2>2. cur' # cur /\ netPc' = "handlers" /\ Up /\ Up'
      BY <1>3, <2>1, ConnAssumption
      DEF RegisterPlayer, RegisterOrphan, Registered, Live
    <2>3. Others(cur)
      BY <1>3, <2>1, <2>2, OthersStay
      DEF RegisterPlayer, RegisterOrphan, Registered
    <2>4. PhaseOf(cur) = "absent"
      BY <2>1 DEF PhaseOf
    <2>5. \A c : c = cur => PhaseOf(c)' \in {"served", "orphaned"}
      BY <1>3, <2>1, <2>2
      DEF RegisterPlayer, RegisterOrphan, Registered, PhaseOf
    <2>6. PICK c \in Conn : c = cur
      BY <2>1
    <2>7. Others(c) /\ PhaseOf(c) = "absent"
      BY <2>3, <2>4, <2>6
    <2>8. QED
      BY <1>1, <2>2, <2>5, <2>6, <2>7
  <1>4. ASSUME NEW c \in Conn, DropHandler(c)
        PROVE  [Lifetime!Next]_(Lifetime!vars)
    <2>1. Others(c) /\ Up' = Up
      BY <1>4, OthersStay DEF DropHandler
    <2>2. PhaseOf(c)' = PhaseOf(c)
          \/ (PhaseOf(c) = "closing" /\ PhaseOf(c)' = "released")
      BY <1>4 DEF DropHandler, PhaseOf, Referenced, Alive
    <2>3. QED
      BY <1>1, <2>1, <2>2
  <1>5. ASSUME NEW c \in Conn, DropConnection(c)
        PROVE  [Lifetime!Next]_(Lifetime!vars)
    <2>1. Others(c) /\ Up' = Up
      BY <1>5, OthersStay DEF DropConnection
    <2>2. PhaseOf(c)' = PhaseOf(c)
          \/ (PhaseOf(c) = "closing" /\ PhaseOf(c)' = "released")
      BY <1>5 DEF DropConnection, PhaseOf, Referenced, Alive
    <2>3. QED
      BY <1>1, <2>1, <2>2
  <1>6. ASSUME NEW c \in Conn, SendFails(c)
        PROVE  [Lifetime!Next]_(Lifetime!vars)
    <2>1. Others(c) /\ Up' = Up /\ Up
      BY <1>6, OthersStay DEF SendFails, InSends, IndInv, TypeOK, Live
    <2>2. PhaseOf(c) = "served" /\ PhaseOf(c)' = "closing"
      BY <1>6 DEF SendFails, InSends, PhaseOf, Referenced, Alive, IndInv, TypeOK,
                  OwnershipOK
    <2>3. QED
      BY <1>1, <2>1, <2>2
  <1>7. ASSUME NEW newSock \in {"open", "closed"}, NEW next \in {"packets", "drop"},
               TickDone(newSock, next)
        PROVE  [Lifetime!Next]_(Lifetime!vars)
    <2>1. cur \in Conn /\ sock[cur] = "open" /\ cur \in players
      BY <1>7 DEF TickDone, IndInv, CurOK, RegistriesAgree
    <2>2. Others(cur) /\ Up' = Up /\ Up
      BY <1>7, OthersStay DEF TickDone, IndInv, TypeOK, Live
    <2>3. PhaseOf(cur) = "served"
      BY <1>7, <2>1 DEF TickDone, PhaseOf
    <2>4. \A c : c = cur => PhaseOf(c)' \in {"served", "closing"}
      BY <1>7, <2>1 DEF TickDone, PhaseOf, Referenced, IndInv, TypeOK
    <2>5. PICK c \in Conn : c = cur
      BY <2>1
    <2>6. Others(c) /\ PhaseOf(c) = "served"
      BY <2>2, <2>3, <2>5
    <2>7. QED
      BY <1>1, <2>2, <2>4, <2>5, <2>6
  <1>8. CASE (\E ok, reply \in BOOLEAN, auth \in 0..MaxAuth :
                RecvData(ok, auth, reply))
             \/ RecvClosed \/ RecvNothing
    BY <1>7, <1>8 DEF RecvData, RecvClosed, RecvNothing
  <1>9. CASE DropRef
    <2>1. cur \in Conn /\ netPc \in {"packets", "drop"}
      BY <1>9 DEF DropRef, IndInv, CurOK
    <2>2. cur' # cur /\ Up' = Up
      BY <1>9, <2>1, ConnAssumption DEF DropRef
    <2>3. Others(cur)
      BY <1>9, <2>1, <2>2, OthersStay DEF DropRef
    <2>4. \A c : c = cur =>
             \/ PhaseOf(c)' = PhaseOf(c)
             \/ PhaseOf(c) = "closing" /\ PhaseOf(c)' = "released"
      BY <1>9, <2>1, <2>2 DEF DropRef, PhaseOf, Referenced, Alive
    <2>5. PICK c \in Conn : c = cur
      BY <2>1
    <2>6. Others(c)
      BY <2>3, <2>5
    <2>7. QED
      BY <1>1, <2>2, <2>4, <2>5, <2>6
  <1>10. ASSUME NEW c \in Conn, HoldHandler(c)
         PROVE  [Lifetime!Next]_(Lifetime!vars)
    <2>1. Others(c) /\ Up' = Up
      BY <1>10, OthersStay DEF HoldHandler, Hold, InHandlers, CurOK
    <2>2. PhaseOf(c)' = PhaseOf(c)
      BY <1>10 DEF HoldHandler, Hold, InHandlers, PhaseOf, Alive, Referenced
    <2>3. QED
      BY <1>1, <2>1, <2>2
  <1>11. CASE NetExit \/ Hang \/ RegisterRace \/ \E c \in Conn : SendKilled(c)
    <2>1. Up /\ ~Up'
      BY <1>11 DEF NetExit, Hang, RegisterRace, SendKilled, InSends, Live
    <2>2. \A d \in Conn : PhaseOf(d)' = PhaseOf(d)
      BY <1>11, OthersStay DEF NetExit, Hang, RegisterRace, SendKilled
    <2>3. QED
      BY <2>1, <2>2 DEF Lifetime!Next, Lifetime!Fail
  <1>12. CASE NetStart \/ AcceptNothing \/ HandlersDone \/ SendsDone
              \/ \E c \in Conn : Flush(c)
    <2>1. Up' = Up
      BY <1>12 DEF NetStart, AcceptNothing, HandlersDone, EndHandlers, SendsDone, Flush,
          Sends, Listening
    <2>2. \A d \in Conn : PhaseOf(d)' = PhaseOf(d)
      BY <1>12, OthersStay
      DEF NetStart, AcceptNothing, HandlersDone, EndHandlers, SendsDone, Flush,
          Sends, Listening
    <2>3. QED
      BY <2>1, <2>2, Stutters
  <1>13. QED
    BY <1>2, <1>3, <1>4, <1>5, <1>6, <1>8, <1>9, <1>10, <1>11, <1>12 DEF NetStep

(* The curl thread and the clients do not move a connection; a callback    *)
(* may bring the process down.                                              *)
LEMMA OthersRefine ==
  ASSUME IndInv, Live, CurlStep \/ ClientStep
  PROVE  [Lifetime!Next]_(Lifetime!vars)
  <1> USE DEF Down, Held, mainVars, netVars, curlVars, connVars, clientVars
  <1>1. UNCHANGED <<netPc, cur, sock, players, handlers, active>>
    BY DEF CurlStep, ClientStep, Dequeue, Take, BeginCallback, DequeueNothing, EndCallback,
           CurlSleep, Connect, ClientSend, ClientClose
  <1>2. \A d \in Conn : PhaseOf(d)' = PhaseOf(d)
    BY <1>1, OthersStay
  <1>3. CASE crashed' = crashed
    BY <1>1, <1>2, <1>3, Stutters
  <1>4. CASE crashed' # crashed
    <2>1. BeginCallback(calling') \/ EndCallback
      BY <1>4 DEF CurlStep, ClientStep, Dequeue, Take, BeginCallback, DequeueNothing,
                  CurlSleep, Connect, ClientSend, ClientClose
    <2>2. crashed' \in {FALSE, TRUE} /\ crashed = FALSE
      BY <2>1, Zenon DEF BeginCallback, EndCallback, Live, IndInv, TypeOK
    <2>3. crashed' = TRUE
      BY <1>4, <2>2
    <2>4. CASE netPc \in {"exited", "hung"}
      BY <1>1, <1>2, <2>3, <2>4, Stutters
    <2>5. CASE netPc \notin {"exited", "hung"}
      BY <1>1, <1>2, <2>3, <2>5 DEF Lifetime!Next, Lifetime!Fail, Live
    <2>6. QED
      BY <2>4, <2>5
  <1>5. QED
    BY <1>3, <1>4

(* The three threads implement the life of a connection: a player outlives *)
(* its client's socket, and what is released is never referred to again.   *)
THEOREM LifetimeRefined == Spec => LifetimeSafe
  <1>1. Init => Lifetime!Init
    BY DEF Init, Lifetime!Init, PhaseOf, Down
  <1>2. IndInv /\ [Next]_vars => [Lifetime!Next]_(Lifetime!vars)
    <2> SUFFICES ASSUME IndInv, [Next]_vars
                 PROVE  [Lifetime!Next]_(Lifetime!vars)
      OBVIOUS
    <2>1. CASE Live /\ (MainStep \/ NetStep \/ CurlStep \/ ClientStep)
      BY <2>1, MainRefines, NetRefines, OthersRefine
    <2>2. CASE UNCHANGED vars
      <3>1. \A d \in Conn : PhaseOf(d)' = PhaseOf(d)
        BY <2>2, OthersStay DEF vars, netVars, connVars, Held
      <3>2. QED
        BY <2>2, <3>1, Stutters DEF vars, netVars, Down
    <2>3. QED
      BY <2>1, <2>2 DEF Next, Terminated
  <1>3. QED
    BY <1>1, <1>2, Inductive, PTL DEF Spec, Lifetime!Spec, LifetimeSafe
=============================================================================
