---------------------------- MODULE LoginProofs ----------------------------
(***************************************************************************)
(* Login, proved for every set of names, of secrets and of vouched names,  *)
(* and whatever number of packets a client sends.                          *)
(***************************************************************************)
EXTENDS Login, SequenceTheorems, TLAPS

(* A packet that is queued comes to those in the queue.                    *)
LEMMA AppendElements ==
  ASSUME NEW S, NEW q \in Seq(S), NEW x \in S
  PROVE  /\ Append(q, x) \in Seq(S)
         /\ ElementsOf(Append(q, x)) = ElementsOf(q) \cup {x}
  <1>1. /\ Len(Append(q, x)) = Len(q) + 1 /\ Append(q, x)[Len(q) + 1] = x
        /\ \A i \in 1..Len(q) : Append(q, x)[i] = q[i]
    BY AppendProperties
  <1>2. DOMAIN Append(q, x) = DOMAIN q \cup {Len(q) + 1}
    BY <1>1
  <1>3. QED
    BY <1>1, <1>2 DEF ElementsOf

(* Taking the first packet of a queue adds none.                           *)
LEMMA TailElements ==
  ASSUME NEW S, NEW q \in Seq(S), q # <<>>
  PROVE  /\ Head(q) \in S /\ Head(q) \in ElementsOf(q)
         /\ Tail(q) \in Seq(S) /\ ElementsOf(Tail(q)) \subseteq ElementsOf(q)
  BY DEF ElementsOf

(* The messages there may be only become more.                             *)
LEMMA MessagesGrow ==
  ASSUME token \in Nat, token' \in Nat, token <= token'
  PROVE  /\ FromClient \subseteq FromClient' /\ FromServer \subseteq FromServer'
         /\ Seq(FromServer) \subseteq Seq(FromServer')
         /\ Seq(OnWire(FromClient)) \subseteq Seq(OnWire(FromClient'))
         /\ Seq(OnWire(FromServer)) \subseteq Seq(OnWire(FromServer'))
  <1>1. FromClient \subseteq FromClient' /\ FromServer \subseteq FromServer'
    BY DEF FromClient, FromServer, Handshake, LoginStart, EncryptionResponse,
       EncryptionRequest, LoginAck, StatusRequest, Ping, LoginSuccess,
       StatusResponse, Pong
  <1>2. /\ OnWire(FromClient) \subseteq OnWire(FromClient')
        /\ OnWire(FromServer) \subseteq OnWire(FromServer')
    BY <1>1 DEF OnWire
  <1>3. QED
    BY <1>1, <1>2, SeqMonotonic

(* At first there is no packet anywhere.                                   *)
LEMMA InitType == Init => TypeOK
  <1> SUFFICES ASSUME Init PROVE TypeOK
    OBVIOUS
  <1>1. requests \in [Request -> Nat]
    BY DEF Init
  <1>2. /\ sendQ \in [Thread -> Seq(FromServer)]
        /\ buffer \in Seq(OnWire(FromClient)) /\ toServer \in Seq(OnWire(FromClient))
        /\ toClient \in Seq(OnWire(FromServer))
    BY EmptySeq DEF Init
  <1>3. token \in Nat /\ clientToken \in 0..token /\ clientSent \in Nat
    BY DEF Init
  <1>4. QED
    BY <1>1, <1>2, <1>3, Zenon DEF Init, TypeOK, Position

(* Only an encryption request changes what may be on its way.              *)
LEMMA SameMessages ==
  ASSUME token' = token
  PROVE  FromClient' = FromClient /\ FromServer' = FromServer
  BY DEF FromClient, FromServer

(* What is read from the buffer was sent by the client.                    *)
LEMMA ReadPacket ==
  ASSUME TypeOK, buffer # <<>>
  PROVE  /\ Packet \in FromClient /\ Tail(buffer) \in Seq(OnWire(FromClient))
         /\ Packet.type = "loginStart" => Packet.name \in Name
         /\ Packet.type = "encryptionResponse" => Packet.secret \in Secret
  <1>1. Head(buffer) \in OnWire(FromClient) /\ Tail(buffer) \in Seq(OnWire(FromClient))
    BY HeadTailProperties DEF TypeOK
  <1>2. Packet \in FromClient
    BY <1>1 DEF OnWire, Packet
  <1>3. QED
    BY <1>1, <1>2 DEF FromClient, Handshake, LoginStart, EncryptionResponse,
       LoginAck, StatusRequest, Ping

(* A success for any name and secret is a packet of the server.            *)
LEMMA SuccessIsPacket ==
  ASSUME NEW n \in Name \cup {NoName}, NEW s \in Secret
  PROVE  LoginSuccess(n, s) \in FromServer
  BY DEF FromServer, LoginSuccess

(* What kinds of packets the client may find on the wire.                  *)
LEMMA ServerPacket ==
  ASSUME NEW p \in FromServer
  PROVE  /\ p.type \in {"encryptionRequest", "loginSuccess", "statusResponse", "pong"}
         /\ p.type = "encryptionRequest" => p.token \in 1..token
  BY DEF FromServer, EncryptionRequest, LoginSuccess, StatusResponse, Pong

(* Every step of the network thread keeps the types.                       *)
LEMMA NetKeepsType ==
  ASSUME TypeOK, NetStep, UNCHANGED patient
  PROVE  TypeOK'
  <1> USE DEF TypeOK, Position, playerVars, netVars, clientVars
  <1>1. ASSUME NEW n \in 1..2, Recv(n) PROVE TypeOK'
    <2>1. /\ buffer' \in Seq(OnWire(FromClient))
          /\ toServer' \in Seq(OnWire(FromClient))
      BY <1>1 DEF Recv
    <2>2. QED
      BY <1>1, <2>1, SameMessages DEF Recv
  <1>2. CASE RecvNothing
    BY <1>2, SameMessages DEF RecvNothing
  <1>3. CASE BufferDone
    BY <1>3, SameMessages DEF BufferDone
  <1>4. CASE ReadGarbage
    <2>1. /\ open' \in BOOLEAN /\ buffer' \in Seq(OnWire(FromClient))
          /\ netPc' \in {"packets", "hung"}
      BY <1>4, EmptySeq DEF ReadGarbage
    <2>2. /\ garbled' \in BOOLEAN
          /\ UNCHANGED <<state, username, token, key, requests, bufferKey, bufferAt>>
          /\ UNCHANGED <<sendQ, crashed, toServer, toClient, clientVars>>
      BY <1>4 DEF ReadGarbage
    <2>3. QED
      BY <2>1, <2>2, SameMessages
  <1>5. CASE HandleHandshake \/ HandleLoginAck \/ IgnorePacket
    <2>1. state' \in {"handshake", "status", "login", "configuration"}
      BY <1>5 DEF HandleHandshake, HandleLoginAck, IgnorePacket
    <2>2. /\ buffer' \in Seq(OnWire(FromClient)) /\ bufferAt' \in Position
          /\ UNCHANGED <<username, token, key, requests, sendQ, netPc, bufferKey, open>>
          /\ UNCHANGED <<crashed, toServer, toClient, clientVars, garbled>>
      BY <1>5, ReadPacket
      DEF HandleHandshake, HandleLoginAck, IgnorePacket, Processed, Reading, Legible
    <2>3. QED
      BY <2>1, <2>2, SameMessages
  <1>6. CASE RejectHandshake \/ RejectEncryptionResponse
    <2>1. Rejected
      BY <1>6 DEF RejectHandshake, RejectEncryptionResponse
    <2>2. open' \in BOOLEAN /\ buffer' \in Seq(OnWire(FromClient))
      BY <2>1, EmptySeq DEF Rejected
    <2>3. QED
      BY <2>1, <2>2, SameMessages DEF Rejected
  <1>7. CASE HandleLoginStart
    <2>1. token' = token + 1 /\ username' \in Name
      BY <1>7, ReadPacket DEF HandleLoginStart, RequestsEncryption, Reading, Legible
    <2>2. EncryptionRequest(token + 1) \in FromServer'
      BY <2>1 DEF FromServer, EncryptionRequest
    <2>3. sendQ' \in [Thread -> Seq(FromServer')]
      BY <1>7, <2>1, <2>2, MessagesGrow, AppendProperties
      DEF HandleLoginStart, RequestsEncryption, Queue, Thread
    <2>4. /\ buffer' \in Seq(OnWire(FromClient')) /\ toServer' \in Seq(OnWire(FromClient'))
          /\ toClient' \in Seq(OnWire(FromServer'))
      BY <1>7, <2>1, MessagesGrow, ReadPacket
      DEF HandleLoginStart, RequestsEncryption, Processed, Reading, Legible
    <2>5. token' \in Nat /\ clientToken' \in 0..token'
      BY <1>7, <2>1 DEF HandleLoginStart, RequestsEncryption, Processed
    <2>6. QED
      BY <1>7, <2>1, <2>3, <2>4, <2>5
      DEF HandleLoginStart, RequestsEncryption, Processed
  <1>8. CASE HandleEncryptionResponse
    <2>1. key' \in Secret /\ buffer' \in Seq(OnWire(FromClient))
      BY <1>8, ReadPacket DEF HandleEncryptionResponse, TokenReturned, EnableEncryption,
         Processed, Reading, Legible
    <2>2. requests' \in [Request -> Nat]
      <3>1. [name |-> username, secret |-> Packet.secret] \in Request
        BY <1>8, ReadPacket
        DEF HandleEncryptionResponse, TokenReturned, Reading, Legible, Request
      <3>2. QED
        BY <1>8, <3>1 DEF HandleEncryptionResponse, SendAuthRequest
    <2>3. QED
      BY <1>8, <2>1, <2>2, SameMessages
      DEF HandleEncryptionResponse, TokenReturned, Processed
  <1>9. CASE HandleStatusRequest \/ HandlePing
    <2>1. StatusResponse \in FromServer /\ Pong \in FromServer
      BY DEF FromServer
    <2>2. buffer' \in Seq(OnWire(FromClient))
      BY <1>9, ReadPacket
      DEF HandleStatusRequest, HandlePing, ReadsPing, Processed, Reading, Legible
    <2> DEFINE Appended(p) == [sendQ EXCEPT !["network"] = Append(@, p)]
    <2>3. ASSUME NEW p \in FromServer PROVE Appended(p) \in [Thread -> Seq(FromServer)]
      BY AppendProperties DEF Thread
    <2>4. sendQ' \in {Appended(StatusResponse), Appended(Pong)}
      BY <1>9 DEF HandleStatusRequest, HandlePing, Queue
    <2>5. sendQ' \in [Thread -> Seq(FromServer)]
      BY <2>1, <2>3, <2>4
    <2>6. QED
      BY <1>9, <2>2, <2>5, SameMessages
      DEF HandleStatusRequest, HandlePing, ReadsPing, Processed
  <1>10. ASSUME NEW t \in Thread, Send(t) PROVE TypeOK'
    <2>1. /\ Head(sendQ[t]) \in FromServer /\ Tail(sendQ[t]) \in Seq(FromServer)
      BY <1>10, HeadTailProperties DEF Send, SendWith
    <2>2. sendQ' \in [Thread -> Seq(FromServer)]
      BY <1>10, <2>1 DEF Send, SendWith
    <2>3. [packet |-> Head(sendQ[t]), key |-> key, at |-> "start"] \in OnWire(FromServer)
      BY <2>1 DEF OnWire
    <2>4. toClient' \in Seq(OnWire(FromServer))
      BY <1>10, <2>3, AppendProperties DEF Send, SendWith
    <2>5. QED
      BY <1>10, <2>2, <2>4, SameMessages DEF Send, SendWith
  <1>11. CASE SendsDone
    BY <1>11, SameMessages DEF SendsDone
  <1>12. QED
    BY <1>1, <1>2, <1>3, <1>4, <1>5, <1>6, <1>7, <1>8, <1>9, <1>10, <1>11 DEF NetStep

(* So does every step of the curl thread.                                  *)
LEMMA CurlKeepsType ==
  ASSUME TypeOK, CurlStep, UNCHANGED patient
  PROVE  TypeOK'
  <1> USE DEF TypeOK, Position, playerVars, netVars, clientVars
  <1>1. ASSUME NEW r \in Request, Answer(r) PROVE TypeOK'
    <2>1. requests' \in [Request -> Nat]
      BY <1>1 DEF Answer, Answered
    <2>2. LoginSuccess(r.name, r.secret) \in FromServer
      <3>1. r.name \in Name \cup {NoName} /\ r.secret \in Secret
        BY DEF Request
      <3>2. QED
        BY <3>1, SuccessIsPacket
    <2>3. sendQ' \in [Thread -> Seq(FromServer)]
      BY <1>1, <2>2, AppendProperties DEF Answer, Answered, Queue, Thread
    <2>4. QED
      BY <1>1, <2>1, <2>3, SameMessages DEF Answer, Answered
  <1>2. ASSUME NEW r \in Request, BadAnswer(r) PROVE TypeOK'
    <2>1. crashed' \in BOOLEAN
      BY <1>2 DEF BadAnswer
    <2>2. UNCHANGED <<playerVars, netVars, sendQ, toServer, toClient, clientVars, garbled>>
      BY <1>2 DEF BadAnswer
    <2>3. QED
      BY <2>1, <2>2, SameMessages
  <1>3. QED
    BY <1>1, <1>2 DEF CurlStep

(* And the clients: of tokens they only know those they were sent.         *)
LEMMA ClientKeepsType ==
  ASSUME TypeOK, ClientStep, UNCHANGED patient
  PROVE  TypeOK'
  <1> USE DEF TypeOK, Position, playerVars, netVars, clientVars
  <1> DEFINE ClientPc == {"hello", "ask", "waitStatus", "ping", "waitPong", "join",
                     "waitLogin", "respond", "ack", "done", "status", "login",
                     "confused"}
  <1>1. ASSUME NEW p \in FromClient, NEW next \in ClientPc, NEW k \in Secret \cup {NoKey},
               ClientSends(p, next, k), clientSent' \in Nat
        PROVE  TypeOK'
    <2>1. [packet |-> p, key |-> clientKey, at |-> clientOut] \in OnWire(FromClient)
      BY DEF OnWire
    <2>2. toServer' \in Seq(OnWire(FromClient))
      BY <1>1, <2>1, AppendProperties DEF ClientSends
    <2>3. QED
      BY <1>1, <2>2, SameMessages DEF ClientSends
  <1>2. /\ LoginAck \in FromClient /\ StatusRequest \in FromClient /\ Ping \in FromClient
        /\ \A v \in BOOLEAN, n \in 1..3 : Handshake(v, n) \in FromClient
        /\ \A n \in Name : LoginStart(n) \in FromClient
        /\ \A t \in 0..clientToken, s \in Secret : EncryptionResponse(t, s) \in FromClient
    BY DEF FromClient
  <1>3. CASE PatientSends
    <2>1. \A n \in Owned : LoginStart(n) \in FromClient
      BY <1>2, NameAssumption
    <2>2. \A s \in Secret : EncryptionResponse(clientToken, s) \in FromClient
      BY <1>2
    <2>3. clientSent' \in Nat
      BY <1>3 DEF PatientSends
    <2>4. CASE clientPc \in {"hello", "ask", "ping", "ack"}
      <3>1. Handshake(TRUE, 1) \in FromClient /\ Handshake(TRUE, 2) \in FromClient
        BY <1>2, TRUE \in BOOLEAN, 1 \in 1..3, 2 \in 1..3, Zenon
      <3>2. CASE clientPc = "hello"
        BY <1>1, <1>3, <2>3, <3>1, <3>2 DEF PatientSends
      <3>3. CASE clientPc \in {"ask", "ping", "ack"}
        BY <1>1, <1>2, <1>3, <2>3, <3>3 DEF PatientSends
      <3>4. QED
        BY <2>4, <3>2, <3>3
    <2>5. CASE clientPc = "join"
      BY <1>1, <1>3, <2>1, <2>3, <2>5 DEF PatientSends
    <2>6. CASE clientPc = "respond"
      <3>1. \A s \in Secret : s \in Secret \cup {NoKey}
        OBVIOUS
      <3>2. QED
        BY <1>1, <1>3, <2>2, <2>3, <2>6, <3>1 DEF PatientSends
    <2>7. QED
      BY <1>3, <2>4, <2>5, <2>6 DEF PatientSends
  <1>4. CASE ImpatientSends
    <2>1. clientSent' \in Nat
      BY <1>4 DEF ImpatientSends
    <2>2. CASE clientPc = "hello"
      BY <1>1, <1>2, <1>4, <2>1, <2>2 DEF ImpatientSends
    <2>3. CASE clientPc = "status"
      BY <1>1, <1>2, <1>4, <2>1, <2>3 DEF ImpatientSends
    <2>4. CASE clientPc = "login"
      <3>1. \A s \in Secret : s \in Secret \cup {NoKey}
        OBVIOUS
      <3>2. QED
        BY <1>1, <1>2, <1>4, <2>1, <2>4, <3>1 DEF ImpatientSends
    <2>5. QED
      BY <1>4, <2>2, <2>3, <2>4 DEF ImpatientSends
  <1>5. CASE ClientReads
    <2> DEFINE m == Head(toClient)
    <2>1. m \in OnWire(FromServer) /\ toClient' \in Seq(OnWire(FromServer))
      BY <1>5, HeadTailProperties DEF ClientReads
    <2>2. m.packet \in FromServer
      BY <2>1 DEF OnWire
    <2>3. /\ m.packet.type \in {"encryptionRequest", "loginSuccess", "statusResponse", "pong"}
          /\ m.packet.type = "encryptionRequest" => m.packet.token \in 1..token
      BY <2>2, ServerPacket
    <2>4. After(m.packet) \in ClientPc
      BY <2>3 DEF After
    <2>5. clientPc' \in ClientPc /\ clientToken' \in 0..token /\ garbled' \in BOOLEAN
      <3>1. CASE Readable(m, clientKey, clientIn)
        BY <1>5, <2>3, <2>4, <3>1 DEF ClientReads
      <3>2. CASE ~Readable(m, clientKey, clientIn)
        <4>1. garbled' = TRUE /\ clientPc' = "confused" /\ clientToken' = clientToken
          BY <1>5, <3>2 DEF ClientReads
        <4>2. QED
          BY <4>1
      <3>3. QED
        BY <3>1, <3>2
    <2>6. QED
      BY <1>5, <2>1, <2>5, SameMessages DEF ClientReads
  <1>6. QED
    BY <1>3, <1>4, <1>5 DEF ClientStep

(* Every variable keeps its type, and no verify token is under way, or     *)
(* known to the client, that the player has not issued.                    *)
THEOREM LoginTypeCorrect == Spec => []TypeOK
  <1>1. TypeOK /\ [Next]_vars => TypeOK'
    <2> SUFFICES ASSUME TypeOK, [Next]_vars PROVE TypeOK'
      OBVIOUS
    <2>1. CASE UNCHANGED vars
      BY <2>1, SameMessages DEF vars, playerVars, netVars, clientVars, TypeOK
    <2>2. QED
      BY <2>1, NetKeepsType, CurlKeepsType, ClientKeepsType DEF Next, Running, Over
  <1>2. QED
    BY <1>1, InitType, PTL DEF Spec

(***************************************************************************)
(* What any client is told.                                                *)
(***************************************************************************)

(* Before there is a key nobody has asked the session server, so that      *)
(* nobody waits to be told of success.                                     *)
EncryptedFirst ==
    key = NoKey => (\A r \in Request : requests[r] = 0) /\ QueuedSuccess = {}

SuccessInv == SuccessIsVouched /\ SuccessIsEncrypted /\ EncryptedFirst

(* A step that queues and sends no success and makes no request.           *)
LEMMA NoNewSuccess ==
  ASSUME SuccessInv, QueuedSuccess' \subseteq QueuedSuccess,
         SentSuccess' \subseteq SentSuccess, UNCHANGED <<key, requests>>
  PROVE  SuccessInv'
  BY DEF SuccessInv, SuccessIsVouched, SuccessIsEncrypted, EncryptedFirst

(* The successes in the queues, and those on their way, one by one.        *)
LEMMA SuccessElements ==
  /\ \A p : p \in QueuedSuccess <=>
       p.type = "loginSuccess" /\ \E t \in Thread : p \in ElementsOf(sendQ[t])
  /\ \A p : p \in QueuedSuccess' <=>
       p.type = "loginSuccess" /\ \E t \in Thread : p \in ElementsOf(sendQ'[t])
  /\ \A m : m \in SentSuccess <=>
       m.packet.type = "loginSuccess" /\ m \in ElementsOf(toClient)
  /\ \A m : m \in SentSuccess' <=>
       m.packet.type = "loginSuccess" /\ m \in ElementsOf(toClient')
  BY DEF QueuedSuccess, SentSuccess, ElementsOf, Thread

(* Another packet in a queue.                                              *)
LEMMA QueueAdds ==
  ASSUME NEW S, sendQ \in [Thread -> Seq(S)], NEW t \in Thread, NEW p \in S, Queue(t, p)
  PROVE  QueuedSuccess' \subseteq QueuedSuccess \cup {q \in {p} : q.type = "loginSuccess"}
  <1>1. /\ ElementsOf(sendQ'[t]) = ElementsOf(sendQ[t]) \cup {p}
        /\ \A u \in Thread \ {t} : ElementsOf(sendQ'[u]) = ElementsOf(sendQ[u])
    BY AppendElements DEF Queue
  <1>2. QED
    BY <1>1, SuccessElements

(* A step of the network thread.  It is the one that sends, with the key   *)
(* there is by then.                                                       *)
LEMMA NetKeepsSuccess ==
  ASSUME TypeOK, SuccessInv, NetStep
  PROVE  SuccessInv'
  <1> USE DEF playerVars, netVars, clientVars
  <1>1. ASSUME UNCHANGED <<key, requests, sendQ, toClient>> PROVE SuccessInv'
    BY <1>1, NoNewSuccess DEF QueuedSuccess, SentSuccess
  <1>2. CASE \/ \E n \in 1..2 : Recv(n)
             \/ RecvNothing \/ BufferDone \/ ReadGarbage
             \/ HandleHandshake \/ RejectHandshake \/ RejectEncryptionResponse
             \/ HandleLoginAck \/ IgnorePacket \/ SendsDone
    BY <1>1, <1>2 DEF Recv, RecvNothing, BufferDone, ReadGarbage, HandleHandshake,
       RejectHandshake, RejectEncryptionResponse, HandleLoginAck, IgnorePacket,
       SendsDone, Processed, Rejected
  <1>3. CASE HandleLoginStart \/ HandleStatusRequest \/ HandlePing
    <2>1. PICK p \in FromServer' :
            /\ p.type # "loginSuccess" /\ Queue("network", p)
            /\ UNCHANGED <<key, requests, toClient>> /\ token' \in {token, token + 1}
      <3>1. CASE HandleLoginStart
        <4>1. token' = token + 1
          BY <3>1 DEF HandleLoginStart, RequestsEncryption
        <4>2. EncryptionRequest(token + 1) \in FromServer'
          BY <4>1 DEF FromServer, EncryptionRequest, TypeOK
        <4>3. QED
          BY <3>1, <4>1, <4>2
          DEF HandleLoginStart, RequestsEncryption, Processed, EncryptionRequest
      <3>2. CASE HandleStatusRequest \/ HandlePing
        <4>1. StatusResponse \in FromServer' /\ Pong \in FromServer'
          BY DEF FromServer
        <4>2. QED
          BY <3>2, <4>1 DEF HandleStatusRequest, HandlePing, ReadsPing, Processed,
             StatusResponse, Pong
      <3>3. QED
        BY <1>3, <3>1, <3>2
    <2>2. QueuedSuccess' \subseteq QueuedSuccess
      <3>1. sendQ \in [Thread -> Seq(FromServer')]
        BY <2>1, MessagesGrow DEF TypeOK
      <3>2. QED
        BY <2>1, <3>1, QueueAdds DEF Thread
    <2>3. SentSuccess' = SentSuccess
      BY <2>1 DEF SentSuccess
    <2>4. QED
      BY <2>1, <2>2, <2>3, NoNewSuccess
  <1>4. CASE HandleEncryptionResponse
    <2>1. key' \in Secret /\ UNCHANGED <<sendQ, toClient>>
      BY <1>4, ReadPacket DEF HandleEncryptionResponse, TokenReturned, EnableEncryption,
         Processed, Reading, Legible
    <2>2. QueuedSuccess' = QueuedSuccess /\ SentSuccess' = SentSuccess
      BY <2>1 DEF QueuedSuccess, SentSuccess
    <2>3. QED
      BY <2>1, <2>2, SecretAssumption
      DEF SuccessInv, SuccessIsVouched, SuccessIsEncrypted, EncryptedFirst
  <1>5. ASSUME NEW t \in Thread, Send(t) PROVE SuccessInv'
    <2> DEFINE p == Head(sendQ[t])
               m == [packet |-> p, key |-> key, at |-> "start"]
    <2>1. /\ p \in FromServer /\ p \in ElementsOf(sendQ[t])
          /\ ElementsOf(sendQ'[t]) \subseteq ElementsOf(sendQ[t])
          /\ \A u \in Thread \ {t} : ElementsOf(sendQ'[u]) = ElementsOf(sendQ[u])
      BY <1>5, TailElements DEF Send, SendWith, TypeOK
    <2>2. m \in OnWire(FromServer)
      BY <2>1 DEF OnWire, TypeOK, Position
    <2>3. ElementsOf(toClient') = ElementsOf(toClient) \cup {m}
      BY <1>5, <2>2, AppendElements DEF Send, SendWith, TypeOK
    <2>4. QueuedSuccess' \subseteq QueuedSuccess
      BY <2>1, SuccessElements
    <2>5. \A w \in SentSuccess' :
             w \in SentSuccess \/ (w.packet \in QueuedSuccess /\ w.key = key)
      BY <2>1, <2>3, SuccessElements
    <2>6. QED
      BY <1>5, <2>4, <2>5 DEF Send, SendWith, SuccessInv, SuccessIsVouched,
         SuccessIsEncrypted, EncryptedFirst
  <1>6. QED
    BY <1>2, <1>3, <1>4, <1>5 DEF NetStep

(* A step of the curl thread.  It queues a success for a name that the     *)
(* session server knows.                                                   *)
LEMMA CurlKeepsSuccess ==
  ASSUME TypeOK, SuccessInv, CurlStep
  PROVE  SuccessInv'
  <1> USE DEF playerVars, netVars, clientVars
  <1>1. ASSUME NEW r \in Request, Answer(r) PROVE SuccessInv'
    <2>1. /\ r.name \in Owned /\ requests[r] > 0 /\ UNCHANGED <<key, toClient>>
          /\ Queue("curl", LoginSuccess(r.name, r.secret))
      BY <1>1 DEF Answer, Answered
    <2>2. LoginSuccess(r.name, r.secret) \in FromServer
      BY SuccessIsPacket DEF Request
    <2>3. \A p \in QueuedSuccess' : p \in QueuedSuccess \/ p.name = r.name
      BY <2>1, <2>2, QueueAdds DEF TypeOK, Thread, LoginSuccess
    <2>4. key # NoKey
      BY <2>1 DEF SuccessInv, EncryptedFirst, TypeOK
    <2>5. QED
      BY <2>1, <2>3, <2>4 DEF SentSuccess, SuccessInv, SuccessIsVouched,
         SuccessIsEncrypted, EncryptedFirst
  <1>2. ASSUME NEW r \in Request, BadAnswer(r) PROVE SuccessInv'
    BY <1>2, NoNewSuccess DEF BadAnswer, QueuedSuccess, SentSuccess
  <1>3. QED
    BY <1>1, <1>2 DEF CurlStep

(* A step of the client.                                                   *)
LEMMA ClientKeepsSuccess ==
  ASSUME TypeOK, SuccessInv, ClientStep
  PROVE  SuccessInv'
  <1> USE DEF playerVars, netVars, clientVars
  <1>1. UNCHANGED <<key, requests, sendQ>>
    BY DEF ClientStep, PatientSends, ImpatientSends, ClientReads, ClientSends
  <1>2. ElementsOf(toClient') \subseteq ElementsOf(toClient)
    <2>1. CASE ClientReads
      BY <2>1, TailElements DEF ClientReads, TypeOK
    <2>2. CASE UNCHANGED toClient
      BY <2>2
    <2>3. QED
      BY <2>1, <2>2 DEF ClientStep, PatientSends, ImpatientSends, ClientSends
  <1>3. QueuedSuccess' = QueuedSuccess /\ SentSuccess' \subseteq SentSuccess
    BY <1>1, <1>2, SuccessElements DEF QueuedSuccess
  <1>4. QED
    BY <1>1, <1>3, NoNewSuccess

(* No step of any thread makes a success unvouched or unencrypted.         *)
LEMMA SuccessInductive == Spec => []SuccessInv
  <1>1. Init => SuccessInv
    <2> SUFFICES ASSUME Init PROVE SuccessInv
      OBVIOUS
    <2>1. QueuedSuccess = {} /\ SentSuccess = {}
      BY DEF Init, QueuedSuccess, SentSuccess, ElementsOf, Thread
    <2>2. QED
      BY <2>1 DEF Init, SuccessInv, SuccessIsVouched, SuccessIsEncrypted, EncryptedFirst
  <1>2. TypeOK /\ SuccessInv /\ [Next]_vars => SuccessInv'
    <2> SUFFICES ASSUME TypeOK, SuccessInv, [Next]_vars PROVE SuccessInv'
      OBVIOUS
    <2>1. CASE UNCHANGED vars
      BY <2>1, NoNewSuccess DEF vars, playerVars, QueuedSuccess, SentSuccess
    <2>2. QED
      BY <2>1, NetKeepsSuccess, CurlKeepsSuccess, ClientKeepsSuccess
      DEF Next, Running, Over
  <1>3. QED
    BY <1>1, <1>2, LoginTypeCorrect, PTL DEF Spec

(* A client is only ever told of success under a name the session server   *)
(* vouches for.                                                            *)
THEOREM SuccessVouched == Spec => []SuccessIsVouched
  <1>1. SuccessInv => SuccessIsVouched
    BY DEF SuccessInv
  <1>2. QED
    BY <1>1, SuccessInductive, PTL

(* LoginSuccess never leaves in the clear.                                 *)
THEOREM SuccessEncrypted == Spec => []SuccessIsEncrypted
  <1>1. SuccessInv => SuccessIsEncrypted
    BY DEF SuccessInv
  <1>2. QED
    BY <1>1, SuccessInductive, PTL

(* Once there is a key there is one for ever, and there is one before the  *)
(* session server is asked.                                                *)
THEOREM EncryptionForGood == Spec => EncryptionIsForGood
  <1> DEFINE Good ==
        /\ key # NoKey => key' # NoKey
        /\ \A r \in Request : requests'[r] > 0 => key' # NoKey
  <1>1. ASSUME TypeOK, SuccessInv, SuccessInv', TypeOK', [Next]_vars PROVE Good
    <2>1. key # NoKey => key' # NoKey
      <3>1. ASSUME HandleEncryptionResponse PROVE key' \in Secret
        BY <1>1, <3>1, ReadPacket DEF HandleEncryptionResponse, TokenReturned,
           EnableEncryption, Processed, Reading, Legible
      <3>2. ASSUME ~HandleEncryptionResponse PROVE key' = key
        BY <1>1, <3>2
        DEF Next, Running, Over, vars, playerVars, NetStep, Recv, RecvNothing, BufferDone,
            ReadGarbage, HandleHandshake, RejectHandshake, HandleLoginStart,
            RequestsEncryption, RejectEncryptionResponse, HandleLoginAck,
            HandleStatusRequest, HandlePing, ReadsPing, IgnorePacket, Send, SendWith,
            SendsDone, Rejected, CurlStep, Answer, Answered, BadAnswer, ClientStep,
            PatientSends, ImpatientSends, ClientReads, ClientSends
      <3>3. QED
        BY <3>1, <3>2, SecretAssumption
    <2>2. \A r \in Request : requests'[r] > 0 => key' # NoKey
      BY <1>1 DEF SuccessInv, EncryptedFirst, TypeOK
    <2>3. QED
      BY <2>1, <2>2
  <1>2. QED
    BY <1>1, SuccessInductive, LoginTypeCorrect, PTL DEF Spec, EncryptionIsForGood

(***************************************************************************)
(* The client of Login that waits for its answers: whatever the network    *)
(* thread and the curl thread do meanwhile, it is understood, it           *)
(* understands, and it is not disconnected.  Conversation says where the   *)
(* two are in their conversation and what is under way between them.       *)
(***************************************************************************)

(* What the player has to read, in the receive buffer or on the wire.      *)
Inbound == buffer \o toServer
Plain(p) == [packet |-> p, key |-> NoKey, at |-> "start"]

(* No answer is under way, or exactly one, from either thread.             *)
Quiet == sendQ = [t \in Thread |-> <<>>] /\ toClient = <<>>
Awaiting(p) ==
    \/ /\ \E t \in Thread : sendQ = [u \in Thread |-> IF u = t THEN <<p>> ELSE <<>>]
       /\ toClient = <<>>
    \/ /\ sendQ = [t \in Thread |-> <<>>]
       /\ toClient = <<[packet |-> p, key |-> key, at |-> "start"]>>

NoRequest == \A r \in Request : requests[r] = 0
OneRequest(n) ==
    \A r \in Request :
        requests[r] = IF r = [name |-> n, secret |-> key] THEN 1 ELSE 0

(* The handshake needs no answer: the client's next packet may follow it.  *)
Greeting ==
    /\ state = "handshake" /\ key = NoKey /\ clientKey = NoKey /\ NoRequest /\ Quiet
    /\ \/ clientPc = "hello" /\ Inbound = <<>>
       \/ clientPc = "ask" /\ Inbound = <<Plain(Handshake(TRUE, 1))>>
       \/ /\ clientPc = "waitStatus"
          /\ Inbound = <<Plain(Handshake(TRUE, 1)), Plain(StatusRequest)>>
       \/ clientPc = "join" /\ Inbound = <<Plain(Handshake(TRUE, 2))>>
       \/ /\ clientPc = "waitLogin"
          /\ \E n \in Name :
               Inbound = <<Plain(Handshake(TRUE, 2)), Plain(LoginStart(n))>>

Querying ==
    /\ state = "status" /\ key = NoKey /\ clientKey = NoKey /\ NoRequest
    /\ \/ clientPc = "ask" /\ Inbound = <<>> /\ Quiet
       \/ clientPc = "waitStatus" /\ Inbound = <<Plain(StatusRequest)>> /\ Quiet
       \/ clientPc = "waitStatus" /\ Inbound = <<>> /\ Awaiting(StatusResponse)
       \/ clientPc = "ping" /\ Inbound = <<>> /\ Quiet
       \/ clientPc = "waitPong" /\ Inbound = <<Plain(Ping)>> /\ Quiet
       \/ clientPc = "waitPong" /\ Inbound = <<>> /\ Awaiting(Pong)
       \/ clientPc = "done" /\ Inbound = <<>> /\ Quiet

(* Until the client's secret is known to the player.                       *)
Joining ==
    /\ state = "login" /\ key = NoKey /\ NoRequest
    /\ \/ clientPc = "join" /\ clientKey = NoKey /\ Inbound = <<>> /\ Quiet
       \/ /\ clientPc = "waitLogin" /\ clientKey = NoKey /\ Quiet
          /\ \E n \in Name : Inbound = <<Plain(LoginStart(n))>>
       \/ /\ clientPc = "waitLogin" /\ clientKey = NoKey /\ Inbound = <<>>
          /\ Awaiting(EncryptionRequest(token))
       \/ /\ clientPc = "respond" /\ clientKey = NoKey /\ Inbound = <<>> /\ Quiet
          /\ clientToken = token
       \/ /\ clientPc = "waitLogin" /\ clientKey \in Secret /\ Quiet
          /\ Inbound = <<Plain(EncryptionResponse(token, clientKey))>>

Secured ==
    /\ key \in Secret /\ clientKey = key
    /\ \/ /\ state = "login" /\ clientPc = "waitLogin" /\ Inbound = <<>> /\ Quiet
          /\ \E n \in Name \cup {NoName} : OneRequest(n)
       \/ /\ state = "login" /\ clientPc = "waitLogin" /\ Inbound = <<>> /\ NoRequest
          /\ \E n \in Name \cup {NoName} : Awaiting(LoginSuccess(n, key))
       \/ /\ state = "login" /\ clientPc = "ack" /\ Inbound = <<>> /\ Quiet /\ NoRequest
       \/ /\ state = "login" /\ clientPc = "done" /\ Quiet /\ NoRequest
          /\ Inbound = <<[packet |-> LoginAck, key |-> key, at |-> "start"]>>
       \/ /\ state = "configuration" /\ clientPc = "done" /\ Inbound = <<>>
          /\ Quiet /\ NoRequest

Conversation == Greeting \/ Querying \/ Joining \/ Secured

Understood ==
    /\ open /\ ~garbled
    /\ buffer # <<>> =>
         /\ netPc = "packets" /\ bufferKey = key
         /\ key # NoKey => bufferAt = "start"

(* Of the client's ciphers the one is first used after the other.          *)
CiphersOK ==
    /\ clientKey = NoKey \/ clientPc \in {"waitLogin", "ack"} => clientOut = "start"
    /\ clientKey = NoKey \/ clientPc = "waitLogin" => clientIn = "start"

PatientInv == patient => Conversation /\ Understood /\ CiphersOK

(***************************************************************************)
(* What the steps do to the inbound packets and to the answers.            *)
(***************************************************************************)

(* There are never more than two packets under way to the player.          *)
LEMMA ShortQueues ==
  /\ \A x : /\ <<x>> # <<>> /\ Append(<<>>, x) = <<x>>
            /\ Head(<<x>>) = x /\ Tail(<<x>>) = <<>>
  /\ \A x, y : /\ <<x, y>> # <<>> /\ Append(<<x>>, y) = <<x, y>>
               /\ Head(<<x, y>>) = x /\ Tail(<<x, y>>) = <<y>>
  <1>2. \A x : /\ <<x>> # <<>> /\ Append(<<>>, x) = <<x>>
              /\ Head(<<x>>) = x /\ Tail(<<x>>) = <<>>
    OBVIOUS
  <1>3. \A x, y : /\ <<x, y>> # <<>>
                 /\ Head(<<x, y>>) = x /\ Tail(<<x, y>>) = <<y>>
    OBVIOUS
  <1>4. \A x, y : Append(<<x>>, y) = <<x, y>>
    <2> TAKE x, y
    <2>1. <<x>> \in Seq({x, y}) /\ <<x, y>> \in Seq({x, y})
      OBVIOUS
    <2>2. /\ Append(<<x>>, y) \in Seq({x, y}) /\ Len(Append(<<x>>, y)) = 2
          /\ Append(<<x>>, y)[1] = x /\ Append(<<x>>, y)[2] = y
      BY <2>1, AppendProperties
    <2>3. Len(<<x, y>>) = 2 /\ <<x, y>>[1] = x /\ <<x, y>>[2] = y
      OBVIOUS
    <2>4. \A i \in 1..2 : Append(<<x>>, y)[i] = <<x, y>>[i]
      <3>1. \A i \in 1..2 : i = 1 \/ i = 2
        OBVIOUS
      <3>2. QED
        BY <2>2, <2>3, <3>1
    <2>5. QED
      BY <2>1, <2>2, <2>3, <2>4, SeqEqual
  <1>5. QED
    BY <1>2, <1>3, <1>4

(* Receiving moves packets from the wire to the buffer.                    *)
LEMMA RecvInbound ==
  ASSUME TypeOK, buffer = <<>>, NEW n \in 1..2, Recv(n)
  PROVE  Inbound' = Inbound
  <1>1. toServer \in Seq(OnWire(FromClient)) /\ n \in 1..Len(toServer)
    BY DEF TypeOK, Recv
  <1>2. Inbound = toServer
    BY <1>1 DEF Inbound
  <1>3. SubSeq(toServer, 1, n) \o SubSeq(toServer, n + 1, Len(toServer)) = toServer
    <2>1. n \in 0..Len(toServer) /\ 1 \in 1..(Len(toServer) + 1)
          /\ Len(toServer) \in n..Len(toServer)
      BY <1>1
    <2>2. SubSeq(toServer, 1, n) \o SubSeq(toServer, n + 1, Len(toServer))
            = SubSeq(toServer, 1, Len(toServer))
      BY <1>1, <2>1, ConcatAdjacentSubSeq
    <2>3. QED
      BY <1>1, <2>2, SubSeqFull
  <1>4. QED
    BY <1>2, <1>3 DEF Inbound, Recv

(* Reading takes the first of them.                                        *)
LEMMA ReadInbound ==
  ASSUME TypeOK, buffer # <<>>, buffer' = Tail(buffer), UNCHANGED toServer
  PROVE  /\ Inbound # <<>> /\ Head(Inbound) = Head(buffer)
         /\ Inbound' = Tail(Inbound) /\ (Inbound' = <<>> => buffer' = <<>>)
  <1>1. buffer \in Seq(OnWire(FromClient)) /\ toServer \in Seq(OnWire(FromClient))
    BY DEF TypeOK
  <1>2. QED
    BY <1>1 DEF Inbound

(* What the client sends comes last.                                       *)
LEMMA SendInbound ==
  ASSUME TypeOK, NEW m \in OnWire(FromClient), toServer' = Append(toServer, m),
         UNCHANGED buffer
  PROVE  Inbound' = Append(Inbound, m)
  <1>1. buffer \in Seq(OnWire(FromClient)) /\ toServer \in Seq(OnWire(FromClient))
    BY DEF TypeOK
  <1>2. QED
    BY <1>1 DEF Inbound

(* A step that only moves packets between the wire, the buffer and the     *)
(* player's hands.                                                         *)
LEMMA SameConversation ==
  ASSUME Conversation, UNCHANGED <<state, token, key, requests, sendQ, toClient>>,
         UNCHANGED <<clientPc, clientKey, clientToken>>, Inbound' = Inbound
  PROVE  Conversation'
  <1>1. /\ Quiet' = Quiet /\ NoRequest' = NoRequest
        /\ \A n : OneRequest(n)' = OneRequest(n)
        /\ \A p : Awaiting(p)' = Awaiting(p)
    BY DEF Quiet, NoRequest, OneRequest, Awaiting
  <1>2. QED
    BY <1>1, ZenonT(40) DEF Conversation, Greeting, Querying, Joining, Secured

(* What the head of the inbound packets is, the state tells.               *)
LEMMA NextPacket ==
  ASSUME TypeOK, Conversation, Understood, buffer # <<>>
  PROVE  /\ Legible
         /\ Quiet
         /\ state = "handshake" => HandshakeOK(Packet)
         /\ state = "status" => Packet \in {StatusRequest, Ping}
         /\ state = "login" /\ key = NoKey =>
              \/ \E n \in Name : Packet = LoginStart(n)
              \/ \E s \in Secret : Packet = EncryptionResponse(token, s)
         /\ state = "login" /\ key # NoKey => Packet = LoginAck
         /\ state # "configuration"
  <1> DEFINE m == Head(Inbound)
  <1>1. m = Head(buffer) /\ Inbound # <<>>
    <2>1. buffer \in Seq(OnWire(FromClient)) /\ toServer \in Seq(OnWire(FromClient))
      BY DEF TypeOK
    <2>2. QED
      BY <2>1 DEF Inbound
  <1>2. CASE Greeting
    <2>1. m \in {Plain(Handshake(TRUE, 1)), Plain(Handshake(TRUE, 2))}
      BY <1>1, <1>2, ShortQueues, ZenonT(40) DEF Greeting
    <2>2. HandshakeOK(m.packet) /\ m.key = NoKey
      <3>1. /\ Plain(Handshake(TRUE, 1)).packet = Handshake(TRUE, 1)
            /\ Plain(Handshake(TRUE, 2)).packet = Handshake(TRUE, 2)
            /\ m.key = NoKey
        BY <2>1 DEF Plain
      <3>2. m.packet \in {Handshake(TRUE, 1), Handshake(TRUE, 2)}
        BY <2>1, <3>1
      <3>3. HandshakeOK(Handshake(TRUE, 1)) /\ HandshakeOK(Handshake(TRUE, 2))
        BY DEF HandshakeOK, Handshake
      <3>4. QED
        BY <3>1, <3>2, <3>3
    <2>3. QED
      BY <1>1, <1>2, <2>2 DEF Greeting, Packet, Legible, Readable, Understood
  <1>3. CASE Querying
    <2>1. m \in {Plain(StatusRequest), Plain(Ping)} /\ Quiet
      BY <1>1, <1>3, ShortQueues DEF Querying
    <2>2. QED
      BY <1>1, <1>3, <2>1 DEF Querying, Packet, Legible, Readable, Understood, Plain
  <1>4. CASE Joining
    <2>1. /\ \/ \E n \in Name : m = Plain(LoginStart(n))
             \/ \E s \in Secret : m = Plain(EncryptionResponse(token, s))
          /\ Quiet
      BY <1>1, <1>4, ShortQueues DEF Joining
    <2>2. QED
      BY <1>1, <1>4, <2>1 DEF Joining, Packet, Legible, Readable, Understood, Plain
  <1>5. CASE Secured
    <2>1. m = [packet |-> LoginAck, key |-> key, at |-> "start"] /\ Quiet /\ state = "login"
      BY <1>1, <1>5, ShortQueues DEF Secured
    <2>2. QED
      BY <1>1, <1>5, <2>1, SecretAssumption DEF Secured, Packet, Legible, Readable, Understood
  <1>6. QED
    BY <1>2, <1>3, <1>4, <1>5 DEF Conversation

(* The player reads the packet and goes on.                                *)
LEMMA PlayerReads ==
  ASSUME TypeOK, Conversation, Understood, Legible, Processed
  PROVE  /\ Inbound # <<>> /\ Packet = Head(Inbound).packet /\ Quiet
         /\ Inbound' = Tail(Inbound) /\ (Inbound' = <<>> => buffer' = <<>>)
         /\ UNCHANGED <<toClient, clientPc, clientKey, clientToken>>
         /\ (key = NoKey /\ UNCHANGED key => Understood')
         /\ (Inbound' = <<>> => Understood')
  <1>1. /\ buffer # <<>> /\ buffer' = Tail(buffer) /\ netPc = "packets"
        /\ UNCHANGED <<toServer, toClient, clientVars, netPc, bufferKey, open, garbled>>
    BY DEF Legible, Processed
  <1>2. /\ Inbound # <<>> /\ Packet = Head(Inbound).packet
        /\ Inbound' = Tail(Inbound) /\ (Inbound' = <<>> => buffer' = <<>>)
    BY <1>1, ReadInbound DEF Packet
  <1>3. Quiet
    BY <1>1, NextPacket
  <1>4. /\ (key = NoKey /\ UNCHANGED key => Understood')
        /\ (Inbound' = <<>> => Understood')
    BY <1>1, <1>2 DEF Understood
  <1>5. QED
    BY <1>1, <1>2, <1>3, <1>4 DEF clientVars

(* The network thread keeps to the conversation.                           *)
LEMMA NetConverses ==
  ASSUME TypeOK, Conversation, Understood, NetStep
  PROVE  (Conversation /\ Understood)'
  <1> USE DEF playerVars, netVars, clientVars
  <1>1. ASSUME NEW n \in 1..2, Recv(n) PROVE (Conversation /\ Understood)'
    BY <1>1, RecvInbound, SameConversation DEF Recv, Understood
  <1>2. CASE RecvNothing \/ BufferDone \/ SendsDone
    <2>1. Inbound' = Inbound
      BY <1>2 DEF RecvNothing, BufferDone, SendsDone, Inbound
    <2>2. /\ buffer = <<>> /\ buffer' = <<>>
          /\ UNCHANGED <<open, garbled, key>>
      BY <1>2 DEF RecvNothing, BufferDone, SendsDone, Understood
    <2>3. Understood'
      BY <2>2 DEF Understood
    <2>4. QED
      BY <1>2, <2>1, <2>3, SameConversation DEF RecvNothing, BufferDone, SendsDone
  <1>3. CASE ReadGarbage \/ RejectHandshake \/ RejectEncryptionResponse
    BY <1>3, NextPacket DEF ReadGarbage, RejectHandshake, RejectEncryptionResponse,
       Reading, Legible, EncryptionResponse, LoginStart, LoginAck
  <1>5. CASE HandleHandshake
    <2>1. /\ state = "handshake" /\ Greeting /\ Inbound # <<>> /\ Quiet
          /\ Inbound' = Tail(Inbound) /\ Packet = Head(Inbound).packet
          /\ state' = IF Packet.next = 1 THEN "status" ELSE "login"
          /\ UNCHANGED <<key, requests, sendQ, toClient, clientPc, clientKey>>
          /\ (key = NoKey => Understood')
      BY <1>5, PlayerReads
      DEF HandleHandshake, Reading, Legible, Packet, Processed, Conversation, Querying, Joining, Secured
    <2>2. Quiet' /\ NoRequest' /\ Understood'
      BY <2>1 DEF Quiet, NoRequest, Greeting
    <2>3. /\ Plain(Handshake(TRUE, 1)).packet.next = 1
          /\ Plain(Handshake(TRUE, 2)).packet.next = 2
      BY DEF Plain, Handshake
    <2>4. CASE clientPc \in {"ask", "waitStatus"}
      <3>1. state' = "status" /\ Inbound' \in {<<>>, <<Plain(StatusRequest)>>}
        BY <2>1, <2>3, <2>4, ShortQueues, ZenonT(40) DEF Greeting
      <3>2. Querying'
        BY <2>1, <2>2, <2>3, <2>4, <3>1, ShortQueues, ZenonT(40) DEF Greeting, Querying, Plain, StatusRequest
      <3>3. QED
        BY <2>2, <3>2 DEF Conversation
    <2>5. CASE clientPc \in {"join", "waitLogin"}
      <3>1. /\ state' = "login" /\ key = NoKey /\ clientKey = NoKey
            /\ \/ clientPc = "join" /\ Inbound' = <<>>
               \/ /\ clientPc = "waitLogin"
                  /\ \E n \in Name : Inbound' = <<Plain(LoginStart(n))>>
        <4>1. CASE clientPc = "join"
          <5>1. Inbound = <<Plain(Handshake(TRUE, 2))>>
            BY <2>1, <4>1 DEF Greeting
          <5>2. /\ Head(Inbound) = Plain(Handshake(TRUE, 2)) /\ Inbound' = <<>>
            BY <2>1, <5>1, ShortQueues
          <5>3. Packet.next = 2
            BY <2>1, <2>3, <5>2, Zenon
          <5>4. QED
            BY <2>1, <4>1, <5>2, <5>3 DEF Greeting
        <4>2. CASE clientPc = "waitLogin"
          <5>1. PICK n \in Name :
                  Inbound = <<Plain(Handshake(TRUE, 2)), Plain(LoginStart(n))>>
            BY <2>1, <4>2 DEF Greeting
          <5>2. /\ Head(Inbound) = Plain(Handshake(TRUE, 2))
                /\ Inbound' = <<Plain(LoginStart(n))>>
            BY <2>1, <5>1, ShortQueues
          <5>3. Packet.next = 2
            BY <2>1, <2>3, <5>2, Zenon
          <5>4. state' = "login" /\ key = NoKey /\ clientKey = NoKey
            BY <2>1, <5>3 DEF Greeting
          <5>5. QED
            BY <4>2, <5>2, <5>4, Zenon
        <4>3. QED
          BY <2>5, <4>1, <4>2
      <3>2. \A n \in Name : Plain(LoginStart(n))' = Plain(LoginStart(n))
        BY DEF Plain, LoginStart
      <3>3. Joining'
        BY <2>1, <2>2, <3>1, <3>2 DEF Joining
      <3>4. QED
        BY <2>2, <3>3 DEF Conversation
    <2>6. QED
      BY <2>1, <2>4, <2>5 DEF Greeting
  <1>6. CASE HandleLoginStart
    <2>1. /\ state = "login" /\ Joining /\ Inbound # <<>> /\ Quiet
          /\ Inbound' = Tail(Inbound) /\ Packet = Head(Inbound).packet
          /\ Packet.type = "loginStart" /\ token' = token + 1
          /\ UNCHANGED <<state, key, requests, toClient, clientPc, clientKey>>
          /\ sendQ' = [sendQ EXCEPT !["network"] = Append(@, EncryptionRequest(token'))]
          /\ Understood'
      BY <1>6, PlayerReads, NextPacket
      DEF HandleLoginStart, RequestsEncryption, Queue, Reading, Legible, Packet, Processed,
          Conversation, Greeting, Querying, Secured, LoginAck
    <2>2. clientPc = "waitLogin" /\ clientKey = NoKey /\ Inbound' = <<>>
      <3>1. \A s : Head(<<Plain(EncryptionResponse(token, s))>>).packet.type # "loginStart"
        BY ShortQueues DEF Plain, EncryptionResponse
      <3>2. /\ clientPc = "waitLogin" /\ clientKey = NoKey
            /\ \E n \in Name : Inbound = <<Plain(LoginStart(n))>>
        BY <2>1, <3>1 DEF Joining
      <3>3. QED
        BY <2>1, <3>2, ShortQueues
    <2>3. Awaiting(EncryptionRequest(token))'
      BY <2>1, ShortQueues, ZenonT(40) DEF Quiet, Awaiting, Thread, EncryptionRequest
    <2>4. NoRequest' /\ key = NoKey
      BY <2>1 DEF NoRequest, Joining
    <2>5. QED
      BY <2>1, <2>2, <2>3, <2>4 DEF Conversation, Joining
  <1>7. CASE HandleEncryptionResponse
    <2>1. /\ state = "login" /\ Joining /\ Inbound # <<>> /\ Quiet
          /\ Inbound' = Tail(Inbound) /\ Packet = Head(Inbound).packet
          /\ Packet.type = "encryptionResponse" /\ key' = Packet.secret
          /\ UNCHANGED <<state, token, sendQ, toClient, clientPc, clientKey>>
          /\ requests' = [requests EXCEPT
                ![[name |-> username, secret |-> Packet.secret]] = @ + 1]
      BY <1>7, PlayerReads, NextPacket
      DEF HandleEncryptionResponse, TokenReturned, EnableEncryption, SendAuthRequest,
          Reading, Legible, Packet, Processed, Conversation, Greeting, Querying, Secured, LoginAck
    <2>2. /\ clientPc = "waitLogin" /\ clientKey \in Secret /\ Inbound' = <<>>
          /\ Packet.secret = clientKey
      <3>1. \A n : Head(<<Plain(LoginStart(n))>>).packet.type # "encryptionResponse"
        BY ShortQueues DEF Plain, LoginStart
      <3>2. \A s : Head(<<Plain(EncryptionResponse(token, s))>>).packet.secret = s
        BY ShortQueues DEF Plain, EncryptionResponse
      <3>3. /\ clientPc = "waitLogin" /\ clientKey \in Secret
            /\ Inbound = <<Plain(EncryptionResponse(token, clientKey))>>
        BY <2>1, <3>1 DEF Joining
      <3>4. QED
        BY <2>1, <3>2, <3>3, ShortQueues
    <2>3. \E n \in Name \cup {NoName} : OneRequest(n)'
      <3>1. [name |-> username, secret |-> clientKey] \in Request
        BY <2>2 DEF TypeOK, Request
      <3>2. NoRequest /\ UNCHANGED username
        BY <1>7, <2>1 DEF Joining, HandleEncryptionResponse, TokenReturned
      <3>3. \A r \in Request :
              requests'[r] = IF r = [name |-> username, secret |-> key'] THEN 1 ELSE 0
        BY <2>1, <2>2, <3>1, <3>2 DEF NoRequest, TypeOK
      <3>4. QED
        BY <3>3 DEF OneRequest, TypeOK
    <2>4. Quiet'
      BY <2>1 DEF Quiet
    <2>5. Understood'
      BY <1>7, <2>2, PlayerReads DEF HandleEncryptionResponse, TokenReturned, Reading
    <2>6. Secured'
      BY <2>1, <2>2, <2>3, <2>4 DEF Secured
    <2>7. QED
      BY <2>5, <2>6 DEF Conversation
  <1>8. CASE HandleLoginAck
    <2>1. /\ state = "login" /\ Inbound # <<>> /\ Quiet /\ Inbound' = Tail(Inbound)
          /\ state' = "configuration" /\ Packet.type = "loginAck" /\ buffer # <<>>
          /\ UNCHANGED <<key, requests, sendQ, toClient, clientPc, clientKey>>
          /\ (Inbound' = <<>> => Understood')
      BY <1>8, PlayerReads DEF HandleLoginAck, Reading, Legible
    <2>2. Secured
      <3>1. key # NoKey
        BY <2>1, NextPacket DEF LoginStart, EncryptionResponse
      <3>2. QED
        BY <2>1, <3>1 DEF Conversation, Greeting, Querying, Joining
    <2>3. clientPc = "done" /\ NoRequest /\ Inbound' = <<>>
      BY <2>1, <2>2, ShortQueues DEF Secured
    <2>4. Quiet' /\ NoRequest'
      BY <2>1, <2>3 DEF Quiet, NoRequest
    <2>5. QED
      BY <2>1, <2>2, <2>3, <2>4 DEF Conversation, Secured
  <1>9. CASE HandleStatusRequest \/ HandlePing
    <2>1. /\ state = "status" /\ Querying /\ Inbound # <<>> /\ Quiet
          /\ Inbound' = Tail(Inbound) /\ Packet = Head(Inbound).packet
          /\ UNCHANGED <<state, key, requests, toClient, clientPc, clientKey>>
          /\ (key = NoKey => Understood')
      BY <1>9, PlayerReads, NextPacket
      DEF HandleStatusRequest, HandlePing, ReadsPing, Reading, Legible, Packet, Processed,
          Conversation, Greeting, Joining, Secured
    <2>2. \/ /\ clientPc = "waitStatus"
             /\ sendQ' = [sendQ EXCEPT !["network"] = Append(@, StatusResponse)]
          \/ /\ clientPc = "waitPong"
             /\ sendQ' = [sendQ EXCEPT !["network"] = Append(@, Pong)]
      BY <1>9, <2>1, ShortQueues
      DEF HandleStatusRequest, HandlePing, ReadsPing, Queue, Reading, Querying, Plain,
          StatusRequest, Ping
    <2>3. Inbound' = <<>> /\ NoRequest' /\ key = NoKey /\ clientKey = NoKey
      BY <2>1, ShortQueues DEF Querying, NoRequest
    <2>4. \/ clientPc = "waitStatus" /\ Awaiting(StatusResponse)'
          \/ clientPc = "waitPong" /\ Awaiting(Pong)'
      BY <2>1, <2>2, ShortQueues DEF Quiet, Awaiting, Thread
    <2>5. QED
      BY <2>1, <2>3, <2>4 DEF Conversation, Querying
  <1>11. CASE IgnorePacket
    BY <1>11, NextPacket DEF IgnorePacket, Legible
  <1>12. ASSUME NEW t \in Thread, Send(t) PROVE (Conversation /\ Understood)'
    <2>1. sendQ[t] # <<>> /\ ~Quiet /\ Inbound' = Inbound /\ Understood'
      BY <1>12, ShortQueues DEF Send, SendWith, Quiet, Inbound, Understood
    <2>2. ASSUME NEW p, Awaiting(p) PROVE Awaiting(p)'
      <3>1. sendQ = [u \in Thread |-> IF u = t THEN <<p>> ELSE <<>>] /\ toClient = <<>>
        BY <2>1, <2>2 DEF Awaiting
      <3>2. sendQ' = [u \in Thread |-> <<>>]
            /\ toClient' = <<[packet |-> p, key |-> key, at |-> "start"]>>
        BY <1>12, <3>1, ShortQueues DEF Send, SendWith
      <3>3. QED
        BY <1>12, <3>2 DEF Awaiting, Send, SendWith
    <2>3. /\ UNCHANGED <<state, key, token, requests, clientPc, clientKey, clientToken>>
          /\ NoRequest' = NoRequest
      BY <1>12 DEF Send, SendWith, NoRequest
    <2>4. CASE Querying
      BY <2>1, <2>2, <2>3, <2>4 DEF Conversation, Querying
    <2>5. CASE Joining
      <3>1. Awaiting(EncryptionRequest(token))
        BY <2>1, <2>5 DEF Joining
      <3>2. Awaiting(EncryptionRequest(token))'
        <4>1. PICK p : p = EncryptionRequest(token)
          OBVIOUS
        <4>2. Awaiting(p)'
          BY <2>2, <3>1, <4>1
        <4>3. EncryptionRequest(token)' = p
          BY <2>3, <4>1 DEF EncryptionRequest
        <4>4. QED
          BY <4>2, <4>3 DEF Awaiting
      <3>3. QED
        BY <2>1, <2>3, <2>5, <3>1, <3>2 DEF Conversation, Joining
    <2>6. CASE Secured
      BY <2>1, <2>2, <2>3, <2>6 DEF Conversation, Secured
    <2>7. QED
      BY <2>1, <2>4, <2>5, <2>6 DEF Conversation, Greeting
  <1>13. QED
    BY <1>1, <1>2, <1>3, <1>5, <1>6, <1>7, <1>8, <1>9, <1>11, <1>12 DEF NetStep

(* The curl thread answers the one request there is.                       *)
LEMMA CurlConverses ==
  ASSUME TypeOK, Conversation, Understood, NEW r \in Request, Answer(r)
  PROVE  (Conversation /\ Understood)'
  <1> USE DEF playerVars, netVars, clientVars
  <1>2. /\ requests[r] > 0 /\ requests' = [requests EXCEPT ![r] = @ - 1]
        /\ sendQ' = [sendQ EXCEPT !["curl"] = Append(@, LoginSuccess(r.name, r.secret))]
        /\ UNCHANGED <<state, key, buffer, toServer, toClient, clientPc, clientKey>>
        /\ UNCHANGED <<open, garbled, netPc, bufferKey, bufferAt>>
    BY DEF Answer, Answered, Queue
  <1>3. ~NoRequest
    BY <1>2 DEF NoRequest
  <1>4. /\ Secured /\ state = "login" /\ clientPc = "waitLogin" /\ Inbound = <<>> /\ Quiet
        /\ \E n \in Name \cup {NoName} : OneRequest(n)
    BY <1>3 DEF Conversation, Greeting, Querying, Joining, Secured
  <1>5. r.secret = key /\ r.name \in Name \cup {NoName}
    BY <1>2, <1>4 DEF OneRequest, Request
  <1>6. NoRequest'
    <2>1. ASSUME NEW q \in Request PROVE requests'[q] = 0
      BY <1>2, <1>4 DEF OneRequest, TypeOK
    <2>2. QED
      BY <2>1 DEF NoRequest
  <1>7. \E n \in Name \cup {NoName} : Awaiting(LoginSuccess(n, key))'
    <2>1. /\ sendQ' = [u \in Thread |-> IF u = "curl" THEN <<LoginSuccess(r.name, key)>> ELSE <<>>]
          /\ toClient' = <<>>
      BY <1>2, <1>4, <1>5, ShortQueues DEF Quiet, Thread
    <2>2. LoginSuccess(r.name, key)' = LoginSuccess(r.name, key)
      BY <1>2
    <2>3. QED
      BY <1>2, <1>5, <2>1 DEF Awaiting, Thread, LoginSuccess
  <1>8. Inbound' = Inbound /\ Understood'
    BY <1>2 DEF Inbound, Understood
  <1>9. Secured'
    BY <1>2, <1>4, <1>6, <1>7, <1>8 DEF Secured
  <1>10. QED
    BY <1>8, <1>9 DEF Conversation

(* The client says the next thing, or hears the answer to the last.        *)
LEMMA ClientConverses ==
  ASSUME TypeOK, Conversation, Understood, CiphersOK, patient, ClientStep
  PROVE  (Conversation /\ Understood /\ CiphersOK)'
  <1> USE DEF playerVars, netVars, clientVars
  <1>1. UNCHANGED <<state, key, token, open, requests, netPc, buffer, bufferKey, bufferAt, sendQ>>
    BY DEF ClientStep, PatientSends, ImpatientSends, ClientReads, ClientSends
  <1>2. /\ NoRequest' = NoRequest /\ \A n : OneRequest(n)' = OneRequest(n)
        /\ UNCHANGED toClient => Quiet' = Quiet
    BY <1>1 DEF NoRequest, OneRequest, Quiet
  <1>3. CASE PatientSends
    <2> DEFINE m(p) == [packet |-> p, key |-> clientKey, at |-> clientOut]
    <2>1. /\ Quiet' = Quiet /\ UNCHANGED <<garbled, clientToken, toClient>>
          /\ Understood'
      <3>1. \E p, next, k : ClientSends(p, next, k)
        BY <1>3, Zenon DEF PatientSends
      <3>2. UNCHANGED <<garbled, clientToken, toClient>>
        BY <3>1 DEF ClientSends
      <3>3. QED
        BY <1>1, <1>2, <3>2 DEF Understood
    <2>2. ASSUME NEW p \in FromClient, NEW next, NEW k, ClientSends(p, next, k)
          PROVE  /\ Inbound' = Append(Inbound, m(p))
                 /\ clientPc' = next /\ clientKey' = k
                 /\ p.type = "encryptionResponse" =>
                      clientOut' = "start" /\ clientIn' = "start"
                 /\ p.type # "encryptionResponse" /\ clientKey = NoKey =>
                      UNCHANGED <<clientOut, clientIn>>
      <3>1. m(p) \in OnWire(FromClient)
        BY <2>2 DEF TypeOK, OnWire
      <3>2. UNCHANGED buffer /\ toServer' = Append(toServer, m(p))
        BY <2>2 DEF ClientSends
      <3>3. QED
        BY <2>2, <3>1, <3>2, SendInbound DEF ClientSends
    <2>3. CASE clientPc = "hello"
      <3>1. PICK i \in {1, 2} :
              ClientSends(Handshake(TRUE, i), IF i = 1 THEN "ask" ELSE "join", NoKey)
        <4>1. \/ ClientSends(Handshake(TRUE, 1), "ask", NoKey)
              \/ ClientSends(Handshake(TRUE, 2), "join", NoKey)
          BY <1>3, <2>3 DEF PatientSends
        <4>2. /\ (IF 1 = 1 THEN "ask" ELSE "join") = "ask"
              /\ (IF 2 = 1 THEN "ask" ELSE "join") = "join"
          OBVIOUS
        <4>3. QED
          BY <4>1, <4>2, Zenon
      <3>2. Handshake(TRUE, i) \in FromClient
        <4>1. PICK v \in BOOLEAN : v = TRUE
          OBVIOUS
        <4>2. i \in 1..3
          OBVIOUS
        <4>3. Handshake(v, i) \in FromClient
          BY <4>2 DEF FromClient
        <4>4. QED
          BY <4>1, <4>3, Zenon
      <3>3. Greeting /\ Inbound = <<>>
        BY <2>3 DEF Conversation, Greeting, Querying, Joining, Secured
      <3>4. /\ Inbound' = <<Plain(Handshake(TRUE, i))>>
            /\ clientPc' = IF i = 1 THEN "ask" ELSE "join"
            /\ clientKey' = NoKey /\ CiphersOK'
        BY <2>2, <3>1, <3>2, <3>3, ShortQueues DEF Greeting, Plain, CiphersOK, Handshake
      <3>5. Greeting'
        BY <1>1, <1>2, <2>1, <3>3, <3>4 DEF Greeting, Plain, Handshake
      <3>6. QED
        BY <2>1, <3>4, <3>5 DEF Conversation
    <2>4. CASE clientPc = "ask"
      <3>1. ClientSends(StatusRequest, "waitStatus", NoKey)
        BY <1>3, <2>4 DEF PatientSends
      <3>2. StatusRequest \in FromClient
        BY DEF FromClient
      <3>3. clientKey = NoKey /\ (Greeting \/ Querying)
        BY <2>4 DEF Conversation, Greeting, Querying, Joining, Secured
      <3>4. /\ Inbound' = Append(Inbound, Plain(StatusRequest))
            /\ clientPc' = "waitStatus" /\ clientKey' = NoKey /\ CiphersOK'
        BY <2>2, <3>1, <3>2, <3>3 DEF Plain, CiphersOK, StatusRequest
      <3>5. CASE Greeting
        <4>1. Inbound' = <<Plain(Handshake(TRUE, 1)), Plain(StatusRequest)>>
          BY <2>4, <3>4, <3>5, ShortQueues DEF Greeting
        <4>2. Greeting'
          BY <1>1, <1>2, <2>1, <3>4, <3>5, <4>1
          DEF Greeting, Plain, Handshake, StatusRequest
        <4>3. QED
          BY <2>1, <3>4, <4>2 DEF Conversation
      <3>6. CASE Querying
        <4>1. Inbound' = <<Plain(StatusRequest)>>
          BY <2>4, <3>4, <3>6, ShortQueues DEF Querying
        <4>2. Querying'
          BY <1>1, <1>2, <2>1, <2>4, <3>4, <3>6, <4>1
          DEF Querying, Plain, StatusRequest
        <4>3. QED
          BY <2>1, <3>4, <4>2 DEF Conversation
      <3>7. QED
        BY <3>3, <3>5, <3>6
    <2>5. CASE clientPc = "ping"
      <3>1. ClientSends(Ping, "waitPong", NoKey)
        BY <1>3, <2>5 DEF PatientSends
      <3>2. Ping \in FromClient
        BY DEF FromClient
      <3>3. Querying /\ clientKey = NoKey /\ Inbound = <<>> /\ Quiet
        BY <2>5 DEF Conversation, Greeting, Querying, Joining, Secured
      <3>4. /\ Inbound' = <<Plain(Ping)>> /\ clientPc' = "waitPong" /\ clientKey' = NoKey
            /\ CiphersOK'
        BY <2>2, <3>1, <3>2, <3>3, ShortQueues DEF Plain, CiphersOK, Ping
      <3>5. Querying'
        BY <1>1, <1>2, <2>1, <3>3, <3>4 DEF Querying, Plain, Ping
      <3>6. QED
        BY <2>1, <3>4, <3>5 DEF Conversation
    <2>6. CASE clientPc = "join"
      <3>1. PICK n \in Name : ClientSends(LoginStart(n), "waitLogin", NoKey)
        BY <1>3, <2>6, NameAssumption DEF PatientSends
      <3>2. LoginStart(n) \in FromClient
        BY DEF FromClient
      <3>3. clientKey = NoKey /\ (Greeting \/ Joining) /\ Quiet
        BY <2>6 DEF Conversation, Greeting, Querying, Joining, Secured
      <3>4. /\ Inbound' = Append(Inbound, Plain(LoginStart(n)))
            /\ clientPc' = "waitLogin" /\ clientKey' = NoKey /\ CiphersOK'
        BY <2>2, <3>1, <3>2, <3>3 DEF Plain, CiphersOK, LoginStart
      <3>5. CASE Greeting
        <4>1. Inbound' = <<Plain(Handshake(TRUE, 2)), Plain(LoginStart(n))>>
          BY <2>6, <3>4, <3>5, ShortQueues DEF Greeting
        <4>2. Greeting'
          BY <1>1, <1>2, <2>1, <3>4, <3>5, <4>1
          DEF Greeting, Plain, Handshake, LoginStart
        <4>3. QED
          BY <2>1, <3>4, <4>2 DEF Conversation
      <3>6. CASE Joining
        <4>1. Inbound' = <<Plain(LoginStart(n))>>
          BY <2>6, <3>4, <3>6, ShortQueues DEF Joining
        <4>2. Joining'
          BY <1>1, <1>2, <2>1, <3>3, <3>4, <3>6, <4>1
          DEF Joining, Plain, LoginStart
        <4>3. QED
          BY <2>1, <3>4, <4>2 DEF Conversation
      <3>7. QED
        BY <3>3, <3>5, <3>6
    <2>7. CASE clientPc = "respond"
      <3>1. PICK s \in Secret :
              ClientSends(EncryptionResponse(clientToken, s), "waitLogin", s)
        BY <1>3, <2>7 DEF PatientSends
      <3>2. EncryptionResponse(clientToken, s) \in FromClient
        BY DEF FromClient, TypeOK
      <3>3. /\ Joining /\ clientKey = NoKey /\ Inbound = <<>> /\ Quiet
            /\ clientToken = token
        BY <2>7 DEF Conversation, Greeting, Querying, Joining, Secured
      <3>4. /\ Inbound' = <<Plain(EncryptionResponse(token, s))>>
            /\ clientPc' = "waitLogin" /\ clientKey' = s /\ CiphersOK'
        BY <2>2, <3>1, <3>2, <3>3, ShortQueues DEF Plain, CiphersOK, EncryptionResponse
      <3>5. Joining'
        BY <1>1, <1>2, <2>1, <3>3, <3>4 DEF Joining, Plain, EncryptionResponse
      <3>6. QED
        BY <2>1, <3>4, <3>5 DEF Conversation
    <2>8. CASE clientPc = "ack"
      <3>1. ClientSends(LoginAck, "done", clientKey)
        BY <1>3, <2>8 DEF PatientSends
      <3>2. LoginAck \in FromClient
        BY DEF FromClient
      <3>3. Secured /\ clientKey = key /\ Inbound = <<>> /\ Quiet
        BY <2>8 DEF Conversation, Greeting, Querying, Joining, Secured
      <3>4. /\ Inbound' = <<[packet |-> LoginAck, key |-> key, at |-> "start"]>>
            /\ clientPc' = "done" /\ clientKey' = key /\ CiphersOK'
        BY <2>2, <2>8, <3>1, <3>2, <3>3, SecretAssumption, ShortQueues
        DEF CiphersOK, LoginAck, Secured
      <3>5. Secured'
        BY <1>1, <1>2, <2>1, <2>8, <3>3, <3>4 DEF Secured, LoginAck
      <3>6. QED
        BY <2>1, <3>4, <3>5 DEF Conversation
    <2>9. QED
      BY <1>3, <2>3, <2>4, <2>5, <2>6, <2>7, <2>8 DEF PatientSends
  <1>4. CASE ClientReads
    <2> DEFINE m == Head(toClient)
    <2>1. toClient # <<>> /\ toClient' = Tail(toClient) /\ ~Quiet
      BY <1>4 DEF ClientReads, Quiet
    <2>2. ASSUME NEW p, Awaiting(p) PROVE m = [packet |-> p, key |-> key, at |-> "start"] /\ Quiet'
      BY <1>1, <2>1, <2>2, ShortQueues DEF Awaiting, Quiet
    <2>3. Inbound' = Inbound /\ UNCHANGED clientKey
      BY <1>4 DEF ClientReads, Inbound
    <2>4. ASSUME NEW p, Awaiting(p), clientKey = key,
                 clientKey = NoKey \/ clientPc = "waitLogin"
          PROVE  /\ Quiet' /\ Understood' /\ clientPc' = After(p)
                 /\ clientToken' = IF p.type = "encryptionRequest"
                                   THEN p.token ELSE clientToken
      <3>1. Readable(m, clientKey, clientIn)
        BY <2>2, <2>4 DEF Readable, CiphersOK
      <3>2. QED
        BY <1>1, <1>4, <2>2, <2>4, <3>1 DEF ClientReads, Understood
    <2>9. ASSUME clientKey = NoKey \/ clientPc = "waitLogin",
                 clientPc' \notin {"waitLogin"}
          PROVE  CiphersOK'
      BY <1>4, <2>9 DEF ClientReads, CiphersOK
    <2>5. CASE Querying
      <3>1. \/ clientPc = "waitStatus" /\ Awaiting(StatusResponse)
            \/ clientPc = "waitPong" /\ Awaiting(Pong)
        BY <2>1, <2>5 DEF Querying
      <3>2. After(StatusResponse) = "ping" /\ After(Pong) = "done"
        BY DEF After, StatusResponse, Pong
      <3>3. clientPc' \in {"ping", "done"} /\ Inbound' = <<>> /\ Quiet' /\ Understood'
            /\ clientKey = NoKey
        <4>1. clientKey = key /\ clientKey = NoKey /\ Inbound = <<>>
          BY <2>1, <2>5 DEF Querying
        <4>2. CASE Awaiting(StatusResponse)
          BY <2>3, <2>4, <3>2, <4>1, <4>2
        <4>3. CASE Awaiting(Pong)
          BY <2>3, <2>4, <3>2, <4>1, <4>3
        <4>4. QED
          BY <3>1, <4>2, <4>3
      <3>4. Querying'
        BY <1>1, <1>2, <2>3, <2>5, <3>3 DEF Querying
      <3>5. QED
        BY <2>9, <3>3, <3>4 DEF Conversation
    <2>6. CASE Joining
      <3>1. Awaiting(EncryptionRequest(token)) /\ clientKey = NoKey /\ key = NoKey
            /\ Inbound = <<>>
        BY <2>1, <2>6 DEF Joining
      <3>2. /\ After(EncryptionRequest(token)) = "respond"
            /\ EncryptionRequest(token).type = "encryptionRequest"
            /\ EncryptionRequest(token).token = token
        BY DEF After, EncryptionRequest
      <3>3. /\ clientPc' = "respond" /\ clientToken' = token /\ Quiet' /\ Understood'
            /\ clientKey = NoKey
        BY <2>4, <3>1, <3>2
      <3>4. Joining'
        BY <1>1, <1>2, <2>3, <2>6, <3>1, <3>3 DEF Joining
      <3>5. QED
        BY <2>9, <3>3, <3>4 DEF Conversation
    <2>7. CASE Secured
      <3>1. PICK n \in Name \cup {NoName} : Awaiting(LoginSuccess(n, key))
        BY <2>1, <2>7 DEF Secured
      <3>2. After(LoginSuccess(n, key)) = "ack"
        BY DEF After, LoginSuccess
      <3>3. /\ clientPc' = "ack" /\ Quiet' /\ Understood' /\ clientPc = "waitLogin"
            /\ state = "login" /\ Inbound = <<>> /\ NoRequest
        BY <2>1, <2>4, <2>7, <3>1, <3>2 DEF Secured
      <3>4. Secured'
        BY <1>1, <1>2, <2>3, <2>7, <3>3 DEF Secured
      <3>5. QED
        BY <2>9, <3>3, <3>4 DEF Conversation
    <2>8. QED
      BY <2>1, <2>5, <2>6, <2>7 DEF Conversation, Greeting
  <1>5. QED
    BY <1>3, <1>4 DEF ClientStep, ImpatientSends

(***************************************************************************)
(* The conversation is an invariant, and what it promises.                 *)
(***************************************************************************)

(* No step of any thread takes a patient client out of its conversation.   *)
LEMMA PatientInductive ==
  ASSUME TypeOK, PatientInv, [Next]_vars
  PROVE  PatientInv'
  <1> SUFFICES ASSUME patient' PROVE (Conversation /\ Understood /\ CiphersOK)'
    BY DEF PatientInv
  <1>1. UNCHANGED patient
    BY DEF Next, Running, Over, vars
  <1>2. TypeOK /\ Conversation /\ Understood /\ CiphersOK /\ patient
    BY <1>1 DEF PatientInv
  <1>3. ASSUME UNCHANGED <<state, token, key, requests, sendQ, toClient, toServer>>,
               UNCHANGED <<clientPc, clientKey, clientToken>>,
               UNCHANGED <<open, garbled, buffer, bufferKey, bufferAt, netPc>>
        PROVE  (Conversation /\ Understood)'
    BY <1>2, <1>3, SameConversation DEF Inbound, Understood
  <1>9. ASSUME UNCHANGED <<clientPc, clientKey, clientOut, clientIn>>
        PROVE  CiphersOK'
    BY <1>2, <1>9 DEF CiphersOK
  <1>10. NetStep \/ CurlStep => UNCHANGED <<clientPc, clientKey, clientOut, clientIn>>
    BY DEF NetStep, Recv, RecvNothing, BufferDone, ReadGarbage, HandleHandshake,
       RejectHandshake, HandleLoginStart, RequestsEncryption, HandleEncryptionResponse,
       TokenReturned, RejectEncryptionResponse, HandleLoginAck, HandleStatusRequest,
       HandlePing, ReadsPing, IgnorePacket, Send, SendWith, SendsDone, Rejected,
       Processed, CurlStep, Answer, Answered, BadAnswer, clientVars
  <1>4. CASE Running(NetStep)
    BY <1>2, <1>4, <1>9, <1>10, NetConverses DEF Running
  <1>5. CASE Running(CurlStep)
    BY <1>2, <1>3, <1>5, <1>9, <1>10, CurlConverses
    DEF Running, CurlStep, BadAnswer, playerVars, netVars, clientVars
  <1>6. CASE Running(ClientStep)
    BY <1>2, <1>6, ClientConverses DEF Running
  <1>7. CASE UNCHANGED vars
    BY <1>3, <1>7, <1>9 DEF vars, playerVars, netVars, clientVars
  <1>8. QED
    BY <1>4, <1>5, <1>6, <1>7 DEF Next, Over

(* A patient client is always somewhere in its conversation.               *)
THEOREM PatientConverses == Spec => []PatientInv
  <1>1. Init => PatientInv
    <2> SUFFICES ASSUME Init PROVE Greeting /\ Understood /\ CiphersOK
      BY DEF PatientInv, Conversation
    <2>1. Inbound = <<>>
      BY DEF Init, Inbound
    <2>2. NoRequest /\ Quiet
      BY DEF Init, NoRequest, Quiet
    <2>3. QED
      BY <2>1, <2>2 DEF Init, Greeting, Understood, CiphersOK
  <1>2. TypeOK /\ PatientInv /\ [Next]_vars => PatientInv'
    BY PatientInductive
  <1>3. QED
    BY <1>1, <1>2, LoginTypeCorrect, PTL DEF Spec

(* No packet between a patient client and the proxy is read with another   *)
(* key than it was written with, or from another point of the cipher,      *)
(* whenever either side turns encryption on.                               *)
THEOREM PatientIntelligible == Spec => []Intelligible
  <1>1. PatientInv => Intelligible
    BY DEF PatientInv, Understood, Intelligible
  <1>2. QED
    BY <1>1, PatientConverses, PTL

(* The proxy never disconnects a patient client.                           *)
THEOREM PatientServed == Spec => []PatientIsServed
  <1>1. PatientInv => PatientIsServed
    BY DEF PatientInv, Understood, PatientIsServed
  <1>2. QED
    BY <1>1, PatientConverses, PTL

(* What is on the wire to a patient client is at most one packet, and a    *)
(* LoginSuccess is written with the secret it confirms.                    *)
THEOREM PatientSuccessSecret == Spec => []SuccessUnderItsSecret
  <1>1. TypeOK /\ PatientInv => SuccessUnderItsSecret
    <2> SUFFICES ASSUME PatientInv, patient, NEW m \in SentSuccess
                 PROVE  m.key = m.packet.secret
      BY DEF SuccessUnderItsSecret
    <2>1. Conversation /\ m \in ElementsOf(toClient) /\ m.packet.type = "loginSuccess"
      BY DEF PatientInv, SentSuccess
    <2>2. ~Quiet
      BY <2>1 DEF Quiet, ElementsOf
    <2>3. ASSUME NEW p, Awaiting(p) PROVE m = [packet |-> p, key |-> key, at |-> "start"]
      BY <2>1, <2>3 DEF Awaiting, ElementsOf
    <2>4. Secured
      <3>1. ASSUME NEW p, Awaiting(p) PROVE p.type = "loginSuccess"
        BY <2>1, <2>3, <3>1
      <3>2. /\ ~Awaiting(StatusResponse) /\ ~Awaiting(Pong)
            /\ ~Awaiting(EncryptionRequest(token))
        BY <3>1 DEF StatusResponse, Pong, EncryptionRequest
      <3>3. QED
        BY <2>1, <2>2, <3>2 DEF Conversation, Greeting, Querying, Joining
    <2>5. PICK n \in Name \cup {NoName} : Awaiting(LoginSuccess(n, key))
      BY <2>2, <2>4 DEF Secured
    <2>6. QED
      BY <2>3, <2>5 DEF LoginSuccess
  <1>2. QED
    BY <1>1, PatientConverses, LoginTypeCorrect, PTL
=============================================================================
