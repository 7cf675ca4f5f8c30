----------------------------- MODULE Lifecycle -----------------------------
(***************************************************************************)
(* The three threads of the proxy and the life of its client connections. *)
(*                                                                         *)
(*   main     CSystem::Init builds the services one after the other, then  *)
(*            CSystem::Run sweeps the dead players once per frame.          *)
(*   network  CNetwork::NetworkTick starts the listener, then forever       *)
(*            accepts, lets every packet handler receive, and sends.        *)
(*   curl     CCurlProcessor::ThreadUpdate takes one request per frame and *)
(*            runs the callbacks of the requests that have finished.        *)
(*                                                                         *)
(* A connection is known to three registries: CProxyServer::m_players owns *)
(* the player, CNetwork::m_packetHandlers refers to it weakly, and         *)
(* CNetwork::m_activeConnections owns the connection.  Each is cleaned by  *)
(* its own loop, in its own time.  The contents of the packets are not     *)
(* modelled: a unit of data is what one recv returns; its packets may lead *)
(* to replies, to authentication requests, to the rejection of the client, *)
(* and a size below zero among them to a loop that never ends.             *)
(*                                                                         *)
(* The registries are sets: the order of their elements plays no part, an  *)
(* iteration keeps the set of the elements it has still to visit.           *)
(***************************************************************************)
EXTENDS Integers, FiniteSets

CONSTANTS
    Conn,       \* the client connections there may ever be
    NoConn,     \* no connection
    MaxData,    \* bound: units of data each client sends in its life
    MaxAuth,    \* bound: authentication requests the packets of one recv queue
    Platform    \* "windows" or "linux": the sockets differ (see RecvNothing)

ASSUME ConnAssumption == NoConn \notin Conn
ASSUME MaxDataAssumption == MaxData \in [Conn -> Nat]
ASSUME MaxAuthAssumption == MaxAuth \in Nat
ASSUME PlatformAssumption == Platform \in {"windows", "linux"}

VARIABLES
    mainPc,       \* where the main thread is
    mainTodo,     \* players its sweep has still to visit
    services,     \* what CGlobalEnvironment and CNetwork can hand out
    callbacks,    \* m_connectionCallbacks: absent, being inserted, present
    curlShutdown, \* CCurlProcessor::m_shutdown
    netPc,        \* where the network thread is
    netTodo,      \* elements its current loop has still to visit
    cur,          \* the connection it accepted, or whose handler it holds
    listen,       \* the listening socket
    shutdown,     \* CNetwork::m_shutdown
    curlPc,       \* where the curl thread is
    calling,      \* the connection whose callback it runs
    work,         \* m_workQueue: requests queued, per connection
    running,      \* m_runningRequests: requests under way, per connection
    sock,         \* the accepted socket of a connection
    players,      \* CProxyServer::m_players
    handlers,     \* CNetwork::m_packetHandlers
    active,       \* CNetwork::m_activeConnections
    pendingOut,   \* connections with packets in m_queuedSends
    peer,         \* the client at the other end
    inbox,        \* units of data sent to us and not yet received
    sent,         \* units of data the client has sent (for the bound)
    crashed       \* the process was killed or called std::terminate

mainVars == <<mainPc, mainTodo, services, callbacks, curlShutdown>>
netVars == <<netPc, netTodo, cur, listen, shutdown>>
curlVars == <<curlPc, calling, work, running>>
connVars == <<sock, players, handlers, active, pendingOut>>
clientVars == <<peer, inbox, sent>>
vars == <<mainVars, netVars, curlVars, connVars, clientVars, crashed>>

MainPc == {"config", "network", "keys", "publish", "curl", "register",
           "registering", "frame", "sweep", "stopCurl", "joinCurl",
           "stopNetwork", "joinNetwork", "done"}
NetPc == {"off", "start", "top", "register", "handlers", "tick", "packets",
          "drop", "sends", "exited", "hung"}
CurlPc == {"off", "top", "perform", "callback", "exited"}
Service == {"keyPair", "network", "curl"}

Init ==
    /\ mainPc = "config" /\ mainTodo = {} /\ services = {}
    /\ callbacks = "absent" /\ curlShutdown = FALSE
    /\ netPc = "off" /\ netTodo = {} /\ cur = NoConn
    /\ listen = "unopened" /\ shutdown = FALSE
    /\ curlPc = "off" /\ calling = NoConn
    /\ work = [c \in Conn |-> 0] /\ running = [c \in Conn |-> 0]
    /\ sock = [c \in Conn |-> "none"]
    /\ players = {} /\ handlers = {} /\ active = {} /\ pendingOut = {}
    /\ peer = [c \in Conn |-> "none"]
    /\ inbox = [c \in Conn |-> 0] /\ sent = [c \in Conn |-> 0]
    /\ crashed = FALSE

(* The player object exists while m_players or the network thread's own   *)
(* shared_ptr refers to it.                                                *)
Held == {"tick", "packets", "drop", "hung"}
Alive(c) == c \in players \/ (cur = c /\ netPc \in Held)

(***************************************************************************)
(* Main thread: CSystem::Init, CSystem::Run, the destructor of CSystem.     *)
(***************************************************************************)

(* CConfigurationManager::Init; main() returns when it fails.              *)
LoadConfig ==
    /\ mainPc = "config"
    /\ mainPc' \in {"network", "done"}
    /\ UNCHANGED <<mainTodo, services, callbacks, curlShutdown>>
    /\ UNCHANGED <<netVars, curlVars, connVars, clientVars, crashed>>

(* The constructor of CNetwork starts the network thread ...              *)
StartNetworkThread ==
    /\ mainPc = "network"
    /\ mainPc' = "keys"
    /\ netPc' = "start"
    /\ UNCHANGED <<mainTodo, services, callbacks, curlShutdown>>
    /\ UNCHANGED <<netTodo, cur, listen, shutdown>>
    /\ UNCHANGED <<curlVars, connVars, clientVars, crashed>>

(* ... and then generates the RSA keys, while that thread already runs.    *)
GenerateKeys ==
    /\ mainPc = "keys"
    /\ mainPc' = "publish"
    /\ services' = services \cup {"keyPair"}
    /\ UNCHANGED <<mainTodo, callbacks, curlShutdown>>
    /\ UNCHANGED <<netVars, curlVars, connVars, clientVars, crashed>>

(* CGlobalEnvironment::SetNetwork.                                         *)
Publish(next) ==
    /\ mainPc = "publish"
    /\ mainPc' = next
    /\ services' = services \cup {"network"}
    /\ UNCHANGED <<mainTodo, callbacks, curlShutdown>>
    /\ UNCHANGED <<netVars, curlVars, connVars, clientVars, crashed>>

(* Fault: the server is initialised before the HTTP client.               *)
PublishNetworkAndRegister == Publish("register")

PublishNetwork == Publish("curl")

(* The constructor of CCurlProcessor starts its thread; SetCurl.           *)
StartCurl ==
    /\ mainPc = "curl"
    /\ mainPc' = "register"
    /\ services' = services \cup {"curl"}
    /\ curlPc' = "top"
    /\ UNCHANGED <<mainTodo, callbacks, curlShutdown, calling, work, running>>
    /\ UNCHANGED <<netVars, connVars, clientVars, crashed>>

(* CProxyServer::Init inserts its callback in the std::map that the        *)
(* network thread iterates, without m_networkLock: two steps, so that the  *)
(* other thread may look at the map in between.                            *)
BeginRegister ==
    /\ mainPc = "register"
    /\ mainPc' = "registering"
    /\ callbacks' = "inserting"
    /\ UNCHANGED <<mainTodo, services, curlShutdown>>
    /\ UNCHANGED <<netVars, curlVars, connVars, clientVars, crashed>>

EndRegister ==
    /\ mainPc = "registering"
    /\ mainPc' = "frame"
    /\ callbacks' = "present"
    /\ UNCHANGED <<mainTodo, services, curlShutdown>>
    /\ UNCHANGED <<netVars, curlVars, connVars, clientVars, crashed>>

(* The top of CSystem::Run: leave when the network has shut down, else     *)
(* take m_playerLock (held exactly while mainPc is "sweep") and sweep.     *)
Frame ==
    /\ mainPc = "frame"
    /\ IF shutdown
       THEN mainPc' = "stopCurl" /\ UNCHANGED mainTodo
       ELSE mainPc' = "sweep" /\ mainTodo' = players
    /\ UNCHANGED <<services, callbacks, curlShutdown>>
    /\ UNCHANGED <<netVars, curlVars, connVars, clientVars, crashed>>

(* CProxyServer::Run: erase the player if its socket is closed.            *)
Sweep(c, dead) ==
    /\ mainPc = "sweep" /\ c \in mainTodo
    /\ mainTodo' = mainTodo \ {c}
    /\ players' = IF dead THEN players \ {c} ELSE players
    /\ UNCHANGED <<mainPc, services, callbacks, curlShutdown>>
    /\ UNCHANGED <<sock, handlers, active, pendingOut>>
    /\ UNCHANGED <<netVars, curlVars, clientVars, crashed>>

(* Fault: the sweep releases every player, dead or not.                    *)
SweepAnyPlayer(c) == Sweep(c, TRUE)

SweepPlayer(c) == Sweep(c, sock[c] = "closed")

EndSweep ==
    /\ mainPc = "sweep" /\ mainTodo = {}
    /\ mainPc' = "frame"
    /\ UNCHANGED <<mainTodo, services, callbacks, curlShutdown>>
    /\ UNCHANGED <<netVars, curlVars, connVars, clientVars, crashed>>

(* The members of CSystem are destroyed in the reverse of their order of   *)
(* declaration: the environment that hands out the services, the HTTP      *)
(* client, the network, and the server last.                               *)
StopCurl ==
    /\ mainPc = "stopCurl"
    /\ mainPc' = "joinCurl"
    /\ services' = {}
    /\ curlShutdown' = TRUE
    /\ UNCHANGED <<mainTodo, callbacks>>
    /\ UNCHANGED <<netVars, curlVars, connVars, clientVars, crashed>>

JoinCurl ==
    /\ mainPc = "joinCurl" /\ curlPc = "exited"
    /\ mainPc' = "stopNetwork"
    /\ UNCHANGED <<mainTodo, services, callbacks, curlShutdown>>
    /\ UNCHANGED <<netVars, curlVars, connVars, clientVars, crashed>>

StopNetwork ==
    /\ mainPc = "stopNetwork"
    /\ mainPc' = "joinNetwork"
    /\ shutdown' = TRUE
    /\ UNCHANGED <<mainTodo, services, callbacks, curlShutdown>>
    /\ UNCHANGED <<netPc, netTodo, cur, listen>>
    /\ UNCHANGED <<curlVars, connVars, clientVars, crashed>>

JoinNetwork ==
    /\ mainPc = "joinNetwork" /\ netPc = "exited"
    /\ mainPc' = "done"
    /\ players' = {} /\ handlers' = {} /\ active' = {}
    /\ UNCHANGED <<mainTodo, services, callbacks, curlShutdown>>
    /\ UNCHANGED <<sock, pendingOut>>
    /\ UNCHANGED <<netVars, curlVars, clientVars, crashed>>

MainStep ==
    \/ LoadConfig \/ StartNetworkThread \/ GenerateKeys \/ PublishNetwork
    \/ StartCurl \/ BeginRegister \/ EndRegister
    \/ Frame \/ (\E c \in Conn : SweepPlayer(c)) \/ EndSweep
    \/ StopCurl \/ JoinCurl \/ StopNetwork \/ JoinNetwork

(***************************************************************************)
(* Network thread: CNetwork::NetworkTick.                                   *)
(***************************************************************************)

(* Fault: a listener that does not start leaves m_shutdown alone.          *)
NetStartUnchecked ==
    /\ netPc = "start"
    /\ netPc' = "top"
    /\ listen' \in {"valid", "unopened"}
    /\ UNCHANGED <<netTodo, cur, shutdown>>
    /\ UNCHANGED <<mainVars, curlVars, connVars, clientVars, crashed>>

(* m_shutdown = !m_listenSocket->Start(), which fails when the address     *)
(* cannot be looked up, bound or listened on.                              *)
NetStart ==
    /\ netPc = "start"
    /\ netPc' = "top"
    /\ \/ listen' = "valid" /\ shutdown' = FALSE
       \/ listen' = "unopened" /\ shutdown' = TRUE
    /\ UNCHANGED <<netTodo, cur>>
    /\ UNCHANGED <<mainVars, curlVars, connVars, clientVars, crashed>>

(* The loop ends on shutdown, and, without setting m_shutdown, when the    *)
(* listening socket is closed.                                             *)
NetExit ==
    /\ netPc = "top" /\ (shutdown \/ listen # "valid")
    /\ netPc' = "exited"
    /\ UNCHANGED <<netTodo, cur, listen, shutdown>>
    /\ UNCHANGED <<mainVars, curlVars, connVars, clientVars, crashed>>

Listening == netPc = "top" /\ ~shutdown /\ listen = "valid"
Waiting(c) == peer[c] # "none" /\ sock[c] = "none"

AcceptConn(c) ==
    /\ Listening /\ Waiting(c)
    /\ sock' = [sock EXCEPT ![c] = "open"]
    /\ cur' = c
    /\ netPc' = "register"
    /\ UNCHANGED <<netTodo, listen, shutdown>>
    /\ UNCHANGED <<players, handlers, active, pendingOut>>
    /\ UNCHANGED <<mainVars, curlVars, clientVars, crashed>>

(* accept() would block when nobody waits; any other error closes the      *)
(* listening socket.  Either way the frame goes on.                        *)
AcceptNothing ==
    /\ Listening
    /\ \/ (\A c \in Conn : ~Waiting(c)) /\ UNCHANGED listen
       \/ listen' = "closed"
    /\ netPc' = "handlers"
    /\ netTodo' = handlers
    /\ UNCHANGED <<cur, shutdown>>
    /\ UNCHANGED <<mainVars, curlVars, connVars, clientVars, crashed>>

Registered(newPlayers, newHandlers) ==
    /\ players' = newPlayers
    /\ handlers' = newHandlers
    /\ active' = active \cup {cur}
    /\ netPc' = "handlers"
    /\ netTodo' = newHandlers
    /\ cur' = NoConn
    /\ UNCHANGED <<listen, shutdown, sock, pendingOut>>
    /\ UNCHANGED <<mainVars, curlVars, clientVars, crashed>>

(* Fault: the callback forgets RegisterPacketHandler.                      *)
RegisterSilentPlayer ==
    /\ netPc = "register" /\ callbacks # "absent" /\ mainPc # "sweep"
    /\ Registered(players \cup {cur}, handlers)

(* The callback of CProxyServer runs, under m_playerLock: the connection   *)
(* gets a player and a packet handler.                                     *)
RegisterPlayer ==
    /\ netPc = "register" /\ callbacks # "absent" /\ mainPc # "sweep"
    /\ Registered(players \cup {cur}, handlers \cup {cur})

(* No callback is seen: the connection is active and has no player.        *)
RegisterOrphan ==
    /\ netPc = "register" /\ callbacks # "present"
    /\ Registered(players, handlers)

(* Iterating the map while it is written to is undefined: besides seeing   *)
(* or missing the new element, the process may crash.                      *)
RegisterRace ==
    /\ netPc = "register" /\ callbacks = "inserting"
    /\ crashed' = TRUE
    /\ UNCHANGED <<mainVars, netVars, curlVars, connVars, clientVars>>

InHandlers(c) == netPc = "handlers" /\ c \in netTodo

(* The player was destroyed or its socket is closed: forget the handler.   *)
DropHandler(c) ==
    /\ InHandlers(c) /\ (~Alive(c) \/ sock[c] = "closed")
    /\ handlers' = handlers \ {c}
    /\ netTodo' = netTodo \ {c}
    /\ UNCHANGED <<netPc, cur, listen, shutdown>>
    /\ UNCHANGED <<sock, players, active, pendingOut>>
    /\ UNCHANGED <<mainVars, curlVars, clientVars, crashed>>

(* weak_ptr::lock: the thread co-owns the player while it calls it.        *)
Hold(c) ==
    /\ InHandlers(c) /\ Alive(c)
    /\ netPc' = "tick"
    /\ cur' = c
    /\ netTodo' = netTodo \ {c}
    /\ UNCHANGED <<listen, shutdown>>
    /\ UNCHANGED <<mainVars, curlVars, connVars, clientVars, crashed>>

(* Fault: IsDead is not asked.                                             *)
HoldAnyHandler(c) == Hold(c)

HoldHandler(c) == sock[c] # "closed" /\ Hold(c)

(* The handler's NetworkTick goes on; what it did to the socket.           *)
TickDone(newSock, next) ==
    /\ netPc = "tick"
    /\ netPc' = next
    /\ sock' = [sock EXCEPT ![cur] = newSock]
    /\ UNCHANGED <<netTodo, cur, listen, shutdown>>
    /\ UNCHANGED <<players, handlers, active>>
    /\ UNCHANGED <<mainVars, crashed>>

(* recv delivers a unit: CClientConnection::RecvPackets hands each of its  *)
(* packets to the player, which may queue replies, queues one more         *)
(* authentication request, with itself as the callback's target, for every *)
(* EncryptionResponse among them, and closes the socket of a client it     *)
(* rejects (maybe after having served other packets).                      *)
RecvData(ok, auth, reply) ==
    /\ TickDone(IF ok THEN "open" ELSE "closed", "packets")
    /\ inbox[cur] > 0
    /\ inbox' = [inbox EXCEPT ![cur] = @ - 1]
    /\ work' = [work EXCEPT ![cur] = @ + auth]
    /\ pendingOut' = IF reply THEN pendingOut \cup {cur} ELSE pendingOut
    /\ UNCHANGED <<curlPc, calling, running, peer, sent>>

(* Fault: a recv that returns 0 is taken for one with nothing to read.     *)
RecvIgnoresClose ==
    /\ TickDone("open", "drop")
    /\ peer[cur] = "closed" /\ inbox[cur] = 0
    /\ UNCHANGED <<pendingOut, curlVars, clientVars>>

(* recv returns 0 after the client's close, or an error after a reset,     *)
(* which may overtake the data: Stop().                                    *)
RecvClosed ==
    /\ TickDone("closed", "drop")
    /\ peer[cur] = "closed"
    /\ UNCHANGED <<pendingOut, curlVars, clientVars>>

(* recv would block.  Only on Windows does an accepted socket inherit the  *)
(* non-blocking mode of the listener; elsewhere accept() returns a         *)
(* blocking socket, and recv waits, with the whole network thread.         *)
RecvNothing ==
    /\ TickDone("open", "drop")
    /\ peer[cur] = "connected" /\ inbox[cur] = 0
    /\ Platform = "windows"
    /\ UNCHANGED <<pendingOut, curlVars, clientVars>>

(* The size of one of the packets is read as below zero, which a client    *)
(* may send and a misread tail may hold: the loop of CPacketSizeCalc that  *)
(* counts its bytes shifts a negative int for ever.  The network thread    *)
(* keeps the player and serves nobody any more.                            *)
Hang ==
    /\ netPc = "packets"
    /\ netPc' = "hung"
    /\ UNCHANGED <<netTodo, cur, listen, shutdown>>
    /\ UNCHANGED <<mainVars, curlVars, connVars, clientVars, crashed>>

(* The shared_ptr to the handler goes out of scope.                        *)
DropRef ==
    /\ netPc \in {"packets", "drop"}
    /\ netPc' = "handlers"
    /\ cur' = NoConn
    /\ UNCHANGED <<netTodo, listen, shutdown>>
    /\ UNCHANGED <<mainVars, curlVars, connVars, clientVars, crashed>>

(* On to the third loop.                                                   *)
EndHandlers ==
    /\ netPc = "handlers"
    /\ netPc' = "sends"
    /\ netTodo' = active
    /\ UNCHANGED <<cur, listen, shutdown>>
    /\ UNCHANGED <<mainVars, curlVars, connVars, clientVars, crashed>>

(* Fault: the loop ends after the first handler it serves.                 *)
HandlersDoneEarly == EndHandlers

HandlersDone == netTodo = {} /\ EndHandlers

InSends(c) == netPc = "sends" /\ c \in netTodo

DropConnection(c) ==
    /\ InSends(c) /\ sock[c] = "closed"
    /\ active' = active \ {c}
    /\ netTodo' = netTodo \ {c}
    /\ UNCHANGED <<netPc, cur, listen, shutdown>>
    /\ UNCHANGED <<sock, players, handlers, pendingOut>>
    /\ UNCHANGED <<mainVars, curlVars, clientVars, crashed>>

(* CClientConnection::SendQueuedPackets empties the queue.                 *)
Sends(c, newPending) ==
    /\ InSends(c) /\ sock[c] = "open"
    /\ pendingOut' = newPending
    /\ netTodo' = netTodo \ {c}
    /\ UNCHANGED <<netPc, cur, listen, shutdown>>
    /\ UNCHANGED <<sock, players, handlers, active>>
    /\ UNCHANGED <<mainVars, curlVars, clientVars, crashed>>

(* Fault: the packets may be put off to a later frame, again and again.    *)
FlushLater(c) == Sends(c, pendingOut) \/ Sends(c, pendingOut \ {c})

Flush(c) == Sends(c, pendingOut \ {c})

(* send() fails because the client has gone: Stop(), the rest of the queue *)
(* stays and is never read again.                                          *)
SendFails(c) ==
    /\ InSends(c) /\ sock[c] = "open"
    /\ c \in pendingOut /\ peer[c] = "closed"
    /\ sock' = [sock EXCEPT ![c] = "closed"]
    /\ netTodo' = netTodo \ {c}
    /\ UNCHANGED <<netPc, cur, listen, shutdown>>
    /\ UNCHANGED <<players, handlers, active, pendingOut>>
    /\ UNCHANGED <<mainVars, curlVars, clientVars, crashed>>

(* On Linux a send to a client that has reset the connection may instead   *)
(* raise SIGPIPE, which nobody handles.                                    *)
SendKilled(c) ==
    /\ InSends(c) /\ sock[c] = "open"
    /\ c \in pendingOut /\ peer[c] = "closed" /\ Platform = "linux"
    /\ crashed' = TRUE
    /\ UNCHANGED <<mainVars, netVars, curlVars, connVars, clientVars>>

SendsDone ==
    /\ netPc = "sends" /\ netTodo = {}
    /\ netPc' = "top"
    /\ UNCHANGED <<netTodo, cur, listen, shutdown>>
    /\ UNCHANGED <<mainVars, curlVars, connVars, clientVars, crashed>>

NetStep ==
    \/ NetStart \/ NetExit \/ AcceptNothing
    \/ RegisterPlayer \/ RegisterOrphan \/ RegisterRace
    \/ \E c \in Conn : \/ AcceptConn(c)
                       \/ DropHandler(c) \/ HoldHandler(c)
                       \/ DropConnection(c) \/ Flush(c)
                       \/ SendFails(c) \/ SendKilled(c)
    \/ \E ok, reply \in BOOLEAN, auth \in 0..MaxAuth : RecvData(ok, auth, reply)
    \/ RecvClosed \/ RecvNothing \/ Hang \/ DropRef \/ HandlersDone \/ SendsDone

(***************************************************************************)
(* Curl thread: CCurlProcessor::ThreadUpdate.                               *)
(***************************************************************************)

(* One request per frame moves from the queue to the multi handle.         *)
Take(c) ==
    /\ curlPc = "top" /\ ~curlShutdown
    /\ work' = [work EXCEPT ![c] = @ - 1]
    /\ running' = [running EXCEPT ![c] = @ + 1]
    /\ curlPc' = "perform"
    /\ UNCHANGED calling
    /\ UNCHANGED <<mainVars, netVars, connVars, clientVars, crashed>>

(* Fault: the result of try_dequeue is not looked at.                      *)
DequeueUnchecked(c) == Take(c)

Dequeue(c) == work[c] > 0 /\ Take(c)

DequeueNothing ==
    /\ curlPc = "top"
    /\ \/ curlShutdown /\ curlPc' = "exited"
       \/ ~curlShutdown /\ (\A c \in Conn : work[c] = 0)
          /\ curlPc' = "perform"
    /\ UNCHANGED <<calling, work, running>>
    /\ UNCHANGED <<mainVars, netVars, connVars, clientVars, crashed>>

(* A request has finished: its callback starts.  A body that is not JSON,  *)
(* which is what a failed request leaves, makes json::parse throw on this  *)
(* thread, and nothing catches it.                                         *)
BeginCallback(c) ==
    /\ curlPc = "perform" /\ running[c] > 0
    /\ curlPc' = "callback"
    /\ calling' = c
    /\ crashed' \in {FALSE, TRUE}
    /\ UNCHANGED <<work, running>>
    /\ UNCHANGED <<mainVars, netVars, connVars, clientVars>>

(* The callback queues LoginSuccess on this->m_pConnection.  `this` is a   *)
(* raw pointer: when the player has been destroyed the use is undefined,   *)
(* and either crashes or leaves nothing behind.                            *)
EndCallback ==
    /\ curlPc = "callback"
    /\ curlPc' = "perform"
    /\ running' = [running EXCEPT ![calling] = @ - 1]
    /\ calling' = NoConn
    /\ IF Alive(calling)
       THEN pendingOut' = pendingOut \cup {calling} /\ UNCHANGED crashed
       ELSE crashed' \in {FALSE, TRUE} /\ UNCHANGED pendingOut
    /\ UNCHANGED <<work, sock, players, handlers, active>>
    /\ UNCHANGED <<mainVars, netVars, clientVars>>

(* No further request has finished; sleep until the next frame.            *)
CurlSleep ==
    /\ curlPc = "perform"
    /\ curlPc' = "top"
    /\ UNCHANGED <<calling, work, running>>
    /\ UNCHANGED <<mainVars, netVars, connVars, clientVars, crashed>>

CurlStep ==
    \/ \E c \in Conn : Dequeue(c) \/ BeginCallback(c)
    \/ DequeueNothing \/ EndCallback \/ CurlSleep

(***************************************************************************)
(* The clients.                                                             *)
(***************************************************************************)

(* The kernel completes the connection while the listener is open.         *)
Connect(c) ==
    /\ peer[c] = "none" /\ listen = "valid"
    /\ peer' = [peer EXCEPT ![c] = "connected"]
    /\ UNCHANGED <<inbox, sent>>
    /\ UNCHANGED <<mainVars, netVars, curlVars, connVars, crashed>>

ClientSend(c) ==
    /\ peer[c] = "connected" /\ sock[c] # "closed" /\ sent[c] < MaxData[c]
    /\ inbox' = [inbox EXCEPT ![c] = @ + 1]
    /\ sent' = [sent EXCEPT ![c] = @ + 1]
    /\ UNCHANGED peer
    /\ UNCHANGED <<mainVars, netVars, curlVars, connVars, crashed>>

ClientClose(c) ==
    /\ peer[c] = "connected"
    /\ peer' = [peer EXCEPT ![c] = "closed"]
    /\ UNCHANGED <<inbox, sent>>
    /\ UNCHANGED <<mainVars, netVars, curlVars, connVars, crashed>>

ClientStep == \E c \in Conn : Connect(c) \/ ClientSend(c) \/ ClientClose(c)

Terminated == (crashed \/ mainPc = "done") /\ UNCHANGED vars

Live == ~crashed /\ mainPc # "done"

Next ==
    \/ Live /\ (MainStep \/ NetStep \/ CurlStep \/ ClientStep)
    \/ Terminated

Spec == Init /\ [][Next]_vars

(* Each thread runs on; a thread that waits for m_playerLock, which the    *)
(* main thread holds for an instant of each frame, gets it in the end.     *)
(* Nothing is assumed of the clients, of the session server or of errors.  *)
Fairness ==
    /\ WF_vars(Live /\ MainStep)
    /\ WF_vars(Live /\ NetStep)
    /\ WF_vars(Live /\ CurlStep)
    /\ SF_vars(Live /\ RegisterPlayer)

FairSpec == Spec /\ Fairness

(***************************************************************************)
(* Safety.                                                                  *)
(***************************************************************************)

(* Every variable has its type; in particular no request is taken from the *)
(* queue, or ended, that was not there.                                    *)
TypeOK ==
    /\ mainPc \in MainPc /\ mainTodo \subseteq Conn
    /\ services \subseteq Service
    /\ callbacks \in {"absent", "inserting", "present"}
    /\ curlShutdown \in BOOLEAN
    /\ netPc \in NetPc /\ netTodo \subseteq Conn
    /\ cur \in Conn \cup {NoConn}
    /\ listen \in {"unopened", "valid", "closed"} /\ shutdown \in BOOLEAN
    /\ curlPc \in CurlPc /\ calling \in Conn \cup {NoConn}
    /\ work \in [Conn -> Nat] /\ running \in [Conn -> Nat]
    /\ sock \in [Conn -> {"none", "open", "closed"}]
    /\ players \subseteq Conn /\ handlers \subseteq Conn
    /\ active \subseteq Conn /\ pendingOut \subseteq Conn
    /\ peer \in [Conn -> {"none", "connected", "closed"}]
    /\ inbox \in [Conn -> Nat] /\ sent \in [Conn -> Nat]
    /\ crashed \in BOOLEAN

(* The callback of an authentication request holds a raw pointer to the    *)
(* player (MCPlayer.cpp:169): as long as the client's socket is open the   *)
(* player it points to is still owned, whatever the three threads do.  It  *)
(* can dangle only for a client that has gone.                             *)
CallbackFindsPlayer ==
    \A c \in Conn :
        work[c] + running[c] > 0 /\ sock[c] = "open" => c \in players

(* The registries agree about an open connection: it has a player exactly  *)
(* if it has a packet handler, and between its accept and the end of the   *)
(* callbacks aside, it is among the active connections.                    *)
RegistriesAgree ==
    \A c \in Conn : sock[c] = "open" =>
        /\ c \in players <=> c \in handlers
        /\ c \in active \/ (netPc = "register" /\ cur = c)

(* A player is only made once everything it asks of the environment is     *)
(* there (the key pair, the network, the HTTP client: MCPlayer.cpp:135,    *)
(* 156, 168 dereference them unchecked), and everything stays there as     *)
(* long as a handler may run.                                              *)
ServicesOutlivePlayers ==
    players \cup handlers # {} => services = Service

(* recv is never called on a closed socket: between IsDead and the end of  *)
(* NetworkTick nobody else closes it.                                      *)
RecvOnOpenSocket == netPc = "tick" => sock[cur] = "open"

(***************************************************************************)
(* The inductive invariant behind these: IndInv is proved in                *)
(* LifecycleProofs.                                                          *)
(***************************************************************************)

(* The connection the network thread has in hand.                          *)
CurOK ==
    /\ netPc = "register" =>
         /\ cur \in Conn /\ sock[cur] = "open"
         /\ cur \notin players \cup handlers \cup active
    /\ netPc = "tick" => cur \in Conn /\ sock[cur] = "open" /\ cur \in handlers
    /\ netPc \in {"packets", "drop", "hung"} => cur \in Conn

(* The request whose callback the curl thread runs is still under way.     *)
CallingOK == curlPc = "callback" => calling \in Conn /\ running[calling] > 0

(* A connection not yet accepted is known to nobody; packets are queued    *)
(* only on connections that have, or had, a player.                        *)
OwnershipOK ==
    \A c \in Conn :
        /\ sock[c] = "none" =>
             /\ c \notin players \cup handlers \cup active \cup pendingOut
             /\ work[c] = 0 /\ running[c] = 0
        /\ sock[c] = "open" /\ c \in pendingOut => c \in players

(* The order in which the services appear and the program winds down.      *)
Serving == {"registering", "frame", "sweep"}
StartupOK ==
    /\ mainPc = "publish" => services = {"keyPair"}
    /\ mainPc = "curl" => services = {"keyPair", "network"}
    /\ mainPc \in {"register"} \cup Serving => services = Service
    /\ mainPc \in {"config", "network", "keys"} => services = {}
    /\ callbacks # "absent" =>
         mainPc \in Serving \cup {"stopCurl", "joinCurl", "stopNetwork",
                                  "joinNetwork", "done"}
    /\ mainPc \in {"config", "network"} => netPc = "off"
    /\ mainPc \in {"stopCurl", "joinCurl", "stopNetwork", "joinNetwork"} =>
         shutdown

(* m_shutdown is only set when the listener did not start: then no         *)
(* connection is ever accepted.                                             *)
ShutdownOK ==
    /\ shutdown => listen = "unopened" /\ netPc \in {"top", "exited"}
    /\ listen = "unopened" =>
         /\ netPc \in {"off", "start", "top", "exited"}
         /\ \A c \in Conn : sock[c] = "none"
    /\ netPc \in {"off", "start"} => listen = "unopened"
    /\ players \cup handlers # {} => mainPc \in Serving

IndInv ==
    /\ TypeOK /\ CurOK /\ CallingOK /\ OwnershipOK /\ StartupOK /\ ShutdownOK
    /\ CallbackFindsPlayer /\ RegistriesAgree

(* What may excuse the network thread: it is gone, or in a loop for ever.  *)
Down == crashed \/ netPc \in {"exited", "hung"}

(***************************************************************************)
(* Refinement: the registries implement the life of a connection.           *)
(***************************************************************************)

Referenced(c) == c \in players \cup handlers \cup active \/ Alive(c)

PhaseOf(c) ==
    IF sock[c] = "none" \/ (netPc = "register" /\ cur = c) THEN "absent"
    ELSE IF sock[c] = "open"
         THEN IF c \in players THEN "served" ELSE "orphaned"
         ELSE IF Referenced(c) THEN "closing" ELSE "released"

Lifetime == INSTANCE ConnectionLifetime
    WITH phase <- [c \in Conn |-> PhaseOf(c)],
         up <- ~Down

(* Every step of the three threads is a step of the connections' life:     *)
(* a served connection keeps its player until its socket is closed, and a  *)
(* released connection is never referred to again.                         *)
LifetimeSafe == Lifetime!Spec

(***************************************************************************)
(* Liveness.                                                                *)
(***************************************************************************)

(* A client with a player that goes away is noticed: recv or send sees the *)
(* close.  And everything held for a connection whose socket is closed, by *)
(* either side, is released: the main thread sweeps the player, the        *)
(* network thread forgets handler and connection.                          *)
ConnectionReleased ==
    \A c \in Conn :
        Referenced(c) /\ (sock[c] = "closed" \/ (c \in players /\ peer[c] = "closed"))
            ~> ~Referenced(c) \/ Down

(* The clients that send anything.                                         *)
Talking == {c \in Conn : MaxData[c] > 0}

(* "We're just waiting for something to receive. Break and we'll check if  *)
(* theres something next time" (TCPSocket.cpp:166): one idle client does   *)
(* not keep the data of another from being read.                           *)
DataIsRead ==
    \A c \in Talking :
        c \in handlers /\ inbox[c] > 0 ~> inbox[c] = 0 \/ sock[c] = "closed" \/ Down

(* What a player queued, from either thread, is sent or its client lost.   *)
ReplyIsSent ==
    \A c \in Talking : c \in pendingOut ~> c \notin pendingOut \/ sock[c] = "closed" \/ Down

(* When the listener cannot start, the program ends (HasShutdown).         *)
StartFailureExits == (netPc = "top" /\ listen = "unopened") ~> mainPc = "done"

(* "For now the application just exits" (Network.cpp:97) when the listening *)
(* socket closes.                                                           *)
ClosedListenerExits ==
    listen = "closed" ~> mainPc = "done" \/ crashed \/ netPc = "hung"

(* "Also remove any stale connections" (Network.cpp:134): a connection     *)
(* whose client has gone does not stay among the active ones.              *)
StaleConnectionsRemoved ==
    \A c \in Conn :
        c \in active /\ peer[c] = "closed" ~> c \notin active \/ Down
=============================================================================
