------------------------------- MODULE Login -------------------------------
(***************************************************************************)
(* The protocol between one client and the proxy: CMCPlayer's state        *)
(* machine, the encryption of CClientConnection, the authentication        *)
(* request whose callback runs on the curl thread, and the client.          *)
(*                                                                         *)
(* Packets are what their Serialize delivers, and arrive whole.  The       *)
(* verify token is 64 random characters appended to m_verifyToken by each  *)
(* encryption request: it is the number of times this happened, 0 being    *)
(* the empty string (also what RSA decryption returns when it fails).  A   *)
(* packet on the wire carries the key it was encrypted with, NoKey when    *)
(* it was not, and where in its cipher the writer was.  The player starts  *)
(* its ciphers again with every recv and every packet it sends; the client *)
(* goes on with its own.  Read with another key, or from another point,    *)
(* a packet is garbage from its first bytes, where its size is.            *)
(***************************************************************************)
EXTENDS Naturals, Sequences

CONSTANTS
    Name, NoName,       \* user names; m_username before LoginStart
    Secret, NoKey,      \* shared secrets; encryption not enabled
    Owned,              \* names the session server vouches for
    MaxSend,            \* bound: packets an impatient client sends
    Platform            \* "windows" or "linux": see RecvNothing

ASSUME NameAssumption == NoName \notin Name /\ Owned \subseteq Name
ASSUME SecretAssumption == NoKey \notin Secret
ASSUME MaxSendAssumption == MaxSend \in Nat
ASSUME PlatformAssumption == Platform \in {"windows", "linux"}

VARIABLES
    state,      \* CMCPlayer::m_state
    username,   \* m_username
    token,      \* m_verifyToken
    key,        \* m_encryptionEnabled and m_secret
    open,       \* the socket is not closed
    sendQ,      \* m_queuedSends, one FIFO queue per enqueuing thread
    netPc,      \* the network thread: "recv", "packets", "send" or "hung"
    buffer,     \* packets of the receive buffer not yet processed
    bufferKey,  \* the key the buffer was decrypted with
    bufferAt,   \* where that cipher is at the next packet of the buffer
    requests,   \* how many of each authentication request are under way
    crashed,    \* the callback threw on the curl thread
    toServer, toClient,     \* the two directions of the wire
    patient,    \* does the client wait for each answer?
    clientPc,   \* what the client does next
    clientKey,  \* the key it reads and writes with
    clientOut, clientIn,    \* where its two ciphers are
    clientToken,\* the last verify token it was sent
    clientSent, \* packets sent (for the bound)
    garbled     \* some packet was read other than it was written

playerVars == <<state, username, token, key, open, requests>>
netVars == <<netPc, buffer, bufferKey, bufferAt>>
clientVars == <<clientPc, clientKey, clientOut, clientIn, clientToken, clientSent>>
vars == <<playerVars, netVars, sendQ, crashed, toServer, toClient,
          clientVars, garbled, patient>>

Thread == {"network", "curl"}
Request == [name : Name \cup {NoName}, secret : Secret]
Position == {"start", "middle"}

Handshake(version, next) ==
    [type |-> "handshake", version |-> version, next |-> next]
LoginStart(name) == [type |-> "loginStart", name |-> name]
EncryptionResponse(tok, secret) ==
    [type |-> "encryptionResponse", token |-> tok, secret |-> secret]
LoginAck == [type |-> "loginAck"]
StatusRequest == [type |-> "statusRequest"]
Ping == [type |-> "ping"]

EncryptionRequest(tok) == [type |-> "encryptionRequest", token |-> tok]
LoginSuccess(name, secret) ==
    [type |-> "loginSuccess", name |-> name, secret |-> secret]
StatusResponse == [type |-> "statusResponse"]
Pong == [type |-> "pong"]

Init ==
    /\ state = "handshake" /\ username = NoName /\ token = 0 /\ key = NoKey
    /\ open = TRUE
    /\ requests = [r \in Request |-> 0]
    /\ sendQ = [t \in Thread |-> <<>>]
    /\ netPc = "recv" /\ buffer = <<>>
    /\ bufferKey = NoKey /\ bufferAt = "start"
    /\ crashed = FALSE
    /\ toServer = <<>> /\ toClient = <<>>
    /\ clientPc = "hello" /\ clientKey = NoKey /\ clientToken = 0
    /\ clientOut = "start" /\ clientIn = "start"
    /\ clientSent = 0 /\ patient \in BOOLEAN
    /\ garbled = FALSE

(***************************************************************************)
(* The network thread.                                                     *)
(***************************************************************************)

(* CTCPSocket::Recv: the buffer holds the packets that have arrived, one   *)
(* or two of them; RecvPackets decrypts all of it with the key of now, by  *)
(* a cipher that DecryptPacket starts for this buffer.                     *)
Recv(n) ==
    /\ netPc = "recv" /\ open
    /\ n <= Len(toServer)
    /\ buffer' = SubSeq(toServer, 1, n)
    /\ toServer' = SubSeq(toServer, n + 1, Len(toServer))
    /\ bufferKey' = key /\ bufferAt' = "start"
    /\ netPc' = "packets"
    /\ UNCHANGED <<playerVars, sendQ, crashed, toClient, clientVars, garbled>>

(* recv would block, on Windows, where an accepted socket inherits the     *)
(* non-blocking mode of its listener.  On Linux it does not: recv waits    *)
(* for the client, and so does what is queued for it.                      *)
RecvNothing ==
    /\ netPc = "recv" /\ open /\ toServer = <<>>
    /\ Platform = "windows"
    /\ netPc' = "send"
    /\ UNCHANGED <<playerVars, buffer, bufferKey, bufferAt, sendQ, crashed>>
    /\ UNCHANGED <<toServer, toClient, clientVars, garbled>>

BufferDone ==
    /\ netPc = "packets" /\ buffer = <<>>
    /\ netPc' = "send"
    /\ bufferKey' = NoKey /\ bufferAt' = "start"
    /\ UNCHANGED <<playerVars, buffer, sendQ, crashed>>
    /\ UNCHANGED <<toServer, toClient, clientVars, garbled>>

(* What was written with this key, from this point of its cipher on.       *)
Readable(m, k, at) == m.key = k /\ (k = NoKey \/ m.at = at)

(* The next packet of the buffer.                                          *)
Packet == Head(buffer).packet
Legible ==
    netPc = "packets" /\ buffer # <<>> /\ Readable(Head(buffer), bufferKey, bufferAt)
Reading(type) == Legible /\ Packet.type = type

(* ProcessPacket returned true: on to the next packet.                     *)
Processed ==
    /\ buffer' = Tail(buffer) /\ bufferAt' = "middle"
    /\ UNCHANGED <<netPc, bufferKey, open, crashed>>
    /\ UNCHANGED <<toServer, toClient, clientVars, garbled>>

(* ProcessPacket returned false: RecvPackets stops the socket and leaves   *)
(* the rest of the buffer.                                                 *)
Rejected ==
    /\ open' = FALSE
    /\ buffer' = <<>>
    /\ UNCHANGED <<netPc, bufferKey, bufferAt, state, username, token, key, requests>>
    /\ UNCHANGED <<sendQ, crashed, toServer, toClient, clientVars, garbled>>

Queue(t, p) == sendQ' = [sendQ EXCEPT ![t] = Append(@, p)]

(* A packet decrypted with the wrong key, or from the wrong point.  What   *)
(* it parses to is noise: the length is out of bounds and the rest of the  *)
(* buffer is dropped, or some handler fails on it, or the length is below  *)
(* zero and the loop that counts its bytes never ends.                     *)
ReadGarbage ==
    /\ netPc = "packets" /\ buffer # <<>>
    /\ ~Readable(Head(buffer), bufferKey, bufferAt)
    /\ garbled' = TRUE
    /\ buffer' = <<>>
    /\ \/ netPc' = "packets" /\ open' \in BOOLEAN
       \/ netPc' = "hung" /\ open' = open
    /\ UNCHANGED <<state, username, token, key, requests, bufferKey, bufferAt>>
    /\ UNCHANGED <<sendQ, crashed, toServer, toClient, clientVars>>

(* HandleHandshake.  Any packet is read as a handshake in this state; one  *)
(* of another kind does not show the right protocol version.               *)
HandshakeOK(p) == p.type = "handshake" /\ p.version /\ p.next \in {1, 2}

HandleHandshake ==
    /\ Reading("handshake") /\ state = "handshake" /\ HandshakeOK(Packet)
    /\ state' = IF Packet.next = 1 THEN "status" ELSE "login"
    /\ Processed
    /\ UNCHANGED <<username, token, key, requests, sendQ>>

RejectHandshake ==
    /\ Legible /\ state = "handshake" /\ ~HandshakeOK(Packet)
    /\ Rejected

(* HandleLogin, packet 0: SendEncryptionRequest.  (Offline the code would   *)
(* accept the client at once, but nothing ever clears isOnline.)            *)
RequestsEncryption(tok) ==
    /\ Reading("loginStart") /\ state = "login"
    /\ username' = Packet.name
    /\ token' = token + 1
    /\ Queue("network", EncryptionRequest(tok))
    /\ Processed
    /\ UNCHANGED <<state, key, requests>>

(* Fault: the request is serialized before the characters are appended.    *)
SendsTokenTooEarly == RequestsEncryption(token)

HandleLoginStart == RequestsEncryption(token + 1)

(* HandleLogin, packet 1: the token is compared with the whole of          *)
(* m_verifyToken, encryption is enabled with the client's secret, and an   *)
(* authentication request is queued, which captures the user name.         *)
TokenReturned ==
    /\ Reading("encryptionResponse") /\ state = "login"
    /\ Packet.token = token
    /\ Processed
    /\ UNCHANGED <<state, username, token, sendQ>>
EnableEncryption == key' = Packet.secret
SendAuthRequest ==
    requests' =
      [requests EXCEPT ![[name |-> username, secret |-> Packet.secret]] = @ + 1]

(* Fault: the connection is left unencrypted, or no request is made.       *)
RequestWithoutEncryption == TokenReturned /\ UNCHANGED key /\ SendAuthRequest
EncryptionWithoutRequest == TokenReturned /\ EnableEncryption /\ UNCHANGED requests

HandleEncryptionResponse == TokenReturned /\ EnableEncryption /\ SendAuthRequest

RejectEncryptionResponse ==
    /\ Reading("encryptionResponse") /\ state = "login"
    /\ Packet.token # token
    /\ Rejected

(* HandleLogin, packet 3.                                                  *)
HandleLoginAck ==
    /\ Reading("loginAck") /\ state = "login"
    /\ state' = "configuration"
    /\ Processed
    /\ UNCHANGED <<username, token, key, requests, sendQ>>

(* HandleStatus, packets 0 and 1: the ping is sent back.                   *)
HandleStatusRequest ==
    /\ Reading("statusRequest") /\ state = "status"
    /\ Queue("network", StatusResponse)
    /\ Processed
    /\ UNCHANGED <<state, username, token, key, requests>>

ReadsPing ==
    /\ Reading("ping") /\ state = "status"
    /\ Processed
    /\ UNCHANGED <<state, username, token, key, requests>>

(* Fault: the ping is read and dropped.                                    *)
PingUnanswered == ReadsPing /\ UNCHANGED sendQ

HandlePing == ReadsPing /\ Queue("network", Pong)

(* ProcessPacket in the configuration state.                               *)
IgnorePacket ==
    /\ Legible /\ state = "configuration"
    /\ Processed
    /\ UNCHANGED <<state, username, token, key, requests, sendQ>>

(* SendQueuedPackets: the packets of one thread stay in order, those of    *)
(* the two threads come in any; the key is the one of the moment of        *)
(* sending, and EncryptPacket starts its cipher for each of them.          *)
SendWith(t, k) ==
    /\ netPc = "send" /\ open /\ sendQ[t] # <<>>
    /\ toClient' = Append(toClient, [packet |-> Head(sendQ[t]), key |-> k, at |-> "start"])
    /\ sendQ' = [sendQ EXCEPT ![t] = Tail(@)]
    /\ UNCHANGED <<playerVars, netVars, crashed, toServer, clientVars, garbled>>

(* Fault: what was enabled for receiving is not applied to sending.        *)
SendPlain(t) == SendWith(t, NoKey)

Send(t) == SendWith(t, key)

(* Everything is sent, or the connection is closed and forgotten.          *)
SendsDone ==
    /\ netPc = "send"
    /\ ~open \/ \A t \in Thread : sendQ[t] = <<>>
    /\ netPc' = "recv"
    /\ UNCHANGED <<playerVars, buffer, bufferKey, bufferAt, sendQ, crashed>>
    /\ UNCHANGED <<toServer, toClient, clientVars, garbled>>

NetStep ==
    \/ \E n \in 1..2 : Recv(n)
    \/ RecvNothing \/ BufferDone \/ ReadGarbage
    \/ HandleHandshake \/ RejectHandshake
    \/ HandleLoginStart
    \/ HandleEncryptionResponse \/ RejectEncryptionResponse \/ HandleLoginAck
    \/ HandleStatusRequest \/ HandlePing \/ IgnorePacket
    \/ (\E t \in Thread : Send(t)) \/ SendsDone

(***************************************************************************)
(* The curl thread.                                                        *)
(***************************************************************************)

(* The session server knows the user: LoginSuccess, with the name that was *)
(* captured with the request.  For a client that has gone, see Lifecycle.  *)
Answered(r, name) ==
    /\ open /\ requests[r] > 0 /\ r.name \in Owned
    /\ requests' = [requests EXCEPT ![r] = @ - 1]
    /\ Queue("curl", LoginSuccess(name, r.secret))
    /\ UNCHANGED <<state, username, token, key, open, netVars, crashed>>
    /\ UNCHANGED <<toServer, toClient, clientVars, garbled>>

(* Fault: the name is read from the player when the answer arrives.        *)
AnswerCurrentName(r) == Answered(r, username)

Answer(r) == Answered(r, r.name)

(* It does not, or the request fails: the body is empty or holds no id,    *)
(* and the exception it raises leaves the thread.                          *)
BadAnswer(r) ==
    /\ requests[r] > 0
    /\ crashed' = TRUE
    /\ UNCHANGED <<playerVars, netVars, sendQ>>
    /\ UNCHANGED <<toServer, toClient, clientVars, garbled>>

CurlStep == \E r \in Request : Answer(r) \/ BadAnswer(r)

(***************************************************************************)
(* The client.                                                             *)
(***************************************************************************)

(* Its ciphers start when it has made up a secret, and then go on.         *)
ClientSends(p, next, newKey) ==
    /\ toServer' =
         Append(toServer, [packet |-> p, key |-> clientKey, at |-> clientOut])
    /\ clientPc' = next
    /\ clientKey' = newKey
    /\ IF p.type = "encryptionResponse"
       THEN clientOut' = "start" /\ clientIn' = "start"
       ELSE /\ clientOut' = IF clientKey = NoKey THEN clientOut ELSE "middle"
            /\ UNCHANGED clientIn
    /\ UNCHANGED <<clientToken, playerVars, netVars, sendQ, crashed>>
    /\ UNCHANGED <<toClient, garbled>>

(* A client that says one thing at a time and waits for the answer.        *)
PatientSends ==
    /\ patient /\ UNCHANGED clientSent
    /\ \/ /\ clientPc = "hello"
          /\ \/ ClientSends(Handshake(TRUE, 1), "ask", NoKey)
             \/ ClientSends(Handshake(TRUE, 2), "join", NoKey)
       \/ clientPc = "ask" /\ ClientSends(StatusRequest, "waitStatus", NoKey)
       \/ clientPc = "ping" /\ ClientSends(Ping, "waitPong", NoKey)
       \/ /\ clientPc = "join"
          /\ \E n \in Owned : ClientSends(LoginStart(n), "waitLogin", NoKey)
       \/ /\ clientPc = "respond"
          /\ \E s \in Secret :
               ClientSends(EncryptionResponse(clientToken, s), "waitLogin", s)
       \/ clientPc = "ack" /\ ClientSends(LoginAck, "done", clientKey)

(* One that says anything its handshake allows, in any order.              *)
ImpatientSends ==
    /\ ~patient /\ clientSent < MaxSend /\ clientSent' = clientSent + 1
    /\ \/ /\ clientPc = "hello"
          /\ \E version \in BOOLEAN, next \in 1..3 :
               ClientSends(Handshake(version, next),
                           IF next = 1 THEN "status" ELSE "login", NoKey)
       \/ /\ clientPc = "status"
          /\ \E p \in {StatusRequest, Ping} : ClientSends(p, "status", clientKey)
       \/ /\ clientPc = "login"
          /\ \/ ClientSends(LoginAck, "login", clientKey)
             \/ \E n \in Name : ClientSends(LoginStart(n), "login", clientKey)
             \/ \E s \in Secret, t \in 0..clientToken :
                  ClientSends(EncryptionResponse(t, s), "login", s)

(* Where an answer takes the client; the impatient one stays where it is.  *)
After(p) ==
    IF ~patient THEN clientPc
    ELSE CASE p.type = "statusResponse" -> "ping"
           [] p.type = "pong" -> "done"
           [] p.type = "encryptionRequest" -> "respond"
           [] p.type = "loginSuccess" -> "ack"

ClientReads ==
    /\ toClient # <<>> /\ clientPc # "confused"
    /\ toClient' = Tail(toClient)
    /\ LET m == Head(toClient) IN
         IF Readable(m, clientKey, clientIn)
         THEN /\ clientPc' = After(m.packet)
              /\ clientToken' = IF m.packet.type = "encryptionRequest"
                                THEN m.packet.token ELSE clientToken
              /\ UNCHANGED garbled
         ELSE clientPc' = "confused" /\ garbled' = TRUE /\ UNCHANGED clientToken
    /\ clientIn' = IF clientKey = NoKey THEN clientIn ELSE "middle"
    /\ UNCHANGED <<clientKey, clientOut, clientSent, playerVars, netVars, sendQ>>
    /\ UNCHANGED <<crashed, toServer>>

ClientStep == PatientSends \/ ImpatientSends \/ ClientReads

(* What the socket's closing leaves: a connection the network forgets.     *)
(* Nothing need happen either when the network thread is in a loop.        *)
Over == (crashed \/ ~open \/ netPc = "hung") /\ UNCHANGED vars

Running(Step) == ~crashed /\ Step /\ UNCHANGED patient

Next ==
    \/ Running(NetStep) \/ Running(CurlStep) \/ Running(ClientStep)
    \/ Over

Spec == Init /\ [][Next]_vars

(* The threads run on; of the clients only the patient one must, too, and  *)
(* the session server answers the requests it is sent.                     *)
Fairness ==
    /\ WF_vars(Running(NetStep))
    /\ WF_vars(Running(CurlStep))
    /\ WF_vars(patient /\ Running(ClientStep))

FairSpec == Spec /\ Fairness

(***************************************************************************)
(* Safety.                                                                 *)
(***************************************************************************)

FromClient ==
    {Handshake(v, n) : v \in BOOLEAN, n \in 1..3}
      \cup {LoginStart(n) : n \in Name}
      \cup {EncryptionResponse(t, s) : t \in 0..token, s \in Secret}
      \cup {LoginAck, StatusRequest, Ping}
FromServer ==
    {EncryptionRequest(t) : t \in 1..token}
      \cup {LoginSuccess(n, s) : n \in Name \cup {NoName}, s \in Secret}
      \cup {StatusResponse, Pong}
OnWire(Packets) == [packet : Packets, key : Secret \cup {NoKey}, at : Position]

(* Every variable has its type, and no token is under way that the player  *)
(* has not issued.                                                         *)
TypeOK ==
    /\ state \in {"handshake", "status", "login", "configuration"}
    /\ username \in Name \cup {NoName}
    /\ token \in Nat /\ key \in Secret \cup {NoKey} /\ open \in BOOLEAN
    /\ sendQ \in [Thread -> Seq(FromServer)]
    /\ netPc \in {"recv", "packets", "send", "hung"}
    /\ buffer \in Seq(OnWire(FromClient)) /\ bufferKey \in Secret \cup {NoKey}
    /\ bufferAt \in Position /\ clientOut \in Position /\ clientIn \in Position
    /\ requests \in [Request -> Nat]
    /\ crashed \in BOOLEAN /\ garbled \in BOOLEAN
    /\ toServer \in Seq(OnWire(FromClient)) /\ toClient \in Seq(OnWire(FromServer))
    /\ clientPc \in {"hello", "ask", "waitStatus", "ping", "waitPong", "join",
                     "waitLogin", "respond", "ack", "done", "status", "login",
                     "confused"}
    /\ clientKey \in Secret \cup {NoKey}
    /\ clientToken \in 0..token /\ clientSent \in Nat /\ patient \in BOOLEAN

ElementsOf(q) == {q[i] : i \in DOMAIN q}
QueuedSuccess ==
    {p \in ElementsOf(sendQ["network"]) \cup ElementsOf(sendQ["curl"]) :
        p.type = "loginSuccess"}
SentSuccess == {m \in ElementsOf(toClient) : m.packet.type = "loginSuccess"}

(* A client is only ever told LoginSuccess for a name the session server   *)
(* has vouched for, however it mixes LoginStart and encryption responses   *)
(* while requests are under way.                                           *)
SuccessIsVouched ==
    /\ \A p \in QueuedSuccess : p.name \in Owned
    /\ \A m \in SentSuccess : m.packet.name \in Owned

(* LoginSuccess never leaves unencrypted, though the thread that queues it *)
(* is not the one that enabled the encryption.                             *)
SuccessIsEncrypted == \A m \in SentSuccess : m.key # NoKey

(* "If we're online we want to encrypt the connection" (MCPlayer.cpp:113): *)
(* once requests are under way the connection is encrypted, and it never   *)
(* returns to plain text.                                                  *)
EncryptionIsForGood ==
    [][/\ key # NoKey => key' # NoKey
       /\ \A r \in Request : requests'[r] > 0 => key' # NoKey]_vars

(* With a client that waits for its answers, no packet in either direction *)
(* is read with another key than it was written with, or from another      *)
(* point of the cipher.                                                    *)
Intelligible == patient => ~garbled

(* Such a client is never disconnected by the proxy.                       *)
PatientIsServed == patient => open

(* The secret under which LoginSuccess is sent is the one the session      *)
(* server confirmed.                                                       *)
SuccessUnderItsSecret == patient => \A m \in SentSuccess : m.key = m.packet.secret

(***************************************************************************)
(* Liveness, for the patient client.                                       *)
(***************************************************************************)

(* A login runs to its end: the client has its LoginSuccess and the player *)
(* is in the configuration state, unless the request fails.  The answer    *)
(* comes while the client waits, and so does the network thread: it goes   *)
(* out only if recv lets the tick go on ("Break and we'll check if theres  *)
(* something next time", TCPSocket.cpp:166).                               *)
LoginCompletes ==
    patient /\ clientPc = "join" ~> (clientPc = "done" /\ state = "configuration") \/ crashed

(* A status query gets its response and its ping back.                     *)
StatusCompletes == clientPc = "ask" ~> clientPc = "done"
=============================================================================
