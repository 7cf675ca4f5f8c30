# Verification of MCPP

MCPP (`src/`) is a Minecraft proxy in C++: it listens for game clients, speaks
the handshake, status and login parts of the protocol with them, encrypts the
connection, and asks Mojang's session server over HTTPS whether the user is who
he says he is. This directory holds TLA+ models of it, the TLC runs that check
them and the proofs TLAPS checks.

## 1. Inventory

All paths below are under `src/src/`.

| Component | State it keeps | Operations | Talks to |
|---|---|---|---|
| Launcher, System (`Launcher/main.cpp`, `System/System.cpp`) | the services it owns, in the order of declaration | `Init`, `Run`, destruction in reverse order | builds everything; polls `HasShutdown` |
| Network thread (`Network/Network.cpp`) | `m_connectionCallbacks`, `m_packetHandlers` (weak), `m_activeConnections`, `m_shutdown`, `m_networkLock` | `NetworkTick`, `RegisterConnectionCallback`, `RegisterPacketHandler` | calls the server's callback, then players and connections, 120 times a second |
| TCP socket (`Network/TCPSocket.*`) | `m_socket`, `m_flags` | `Start`, `Accept`, `Recv`, `Send`, `Stop` | the kernel |
| Client connection (`Network/ClientConnection.cpp`, `Common/PacketPayload.h`) | receive buffer, `m_queuedSends` (a concurrent queue of payloads that own their buffers), `m_secret`, `m_encryptionEnabled` | `RecvPackets`, `QueuePacket`, `SendQueuedPackets`, `EnableEncryption`, `SetAESKey` | reads and writes the socket; calls `IPacketHandler::ProcessPacket` |
| Player (`Core/MCPlayer.cpp`) | `m_state`, `m_username`, `m_uuid`, `m_verifyToken` | `ProcessPacket` and its handlers; the callback of the authentication request | connection, key pair, HTTP client |
| Proxy server (`Core/ProxyServer.cpp`) | `m_players`, `m_playerLock` | `Init`, the connection callback, `Run` (the sweep) | network, players |
| Curl processor (`System/CurlProcessor.cpp`) | `m_workQueue`, `m_runningRequests`, `m_shutdown` | `QueueHttpGet`, `ThreadUpdate` | session server; runs callbacks on its own thread |
| Global environment (`System/GlobalEnvironment.*`) | pointers to the services | setters, getters | everybody, through `gEnv` |
| RSA key pair, shared secret (`Network/Encryption`) | key, AES contexts | generate, decrypt, encrypt | player, connection |
| Authentication digest (`Network/Encryption/AuthHash.cpp`) | SHA-1 context | `Update`, `Finalise` | player, through `CNetwork::GenerateHexDigest` |
| Packets and codec (`Common/Packets`, `Common/PacketUtils.h`) | a buffer and a position | read, write and size of fields | player, connection |
| Configuration (`System/ConfigurationManager.cpp`, `Common/IConfigurationManager.h`) | `m_configTable`, `m_registeredConfigs`, the file `config.toml` | `Init`, `RegisterConfigGroup`, `GetConfigGroup` | system; the network looks for its group, and reads nothing from it |

UUID text conversion (`Common/Uuid.h`), interfaces and platform headers and the
unit tests hold no state of the running program. All but the configuration file
is lost when the process ends.

**How they interact.** Three threads run. The *main thread* builds the
services, then once per frame removes players whose socket is closed. The
*network thread* accepts, lets every packet handler receive, and sends; the
accept runs the server's callback, which makes the player. The *curl thread*
takes authentication requests from a queue that the network thread fills and
runs their callbacks, which use the player through a raw pointer and put packets
in the connection's send queue. What they share is guarded by `m_playerLock`, by the
two concurrent queues - or by nothing: `m_networkLock` is only ever taken by the network
thread, and so neither guards anything nor can be waited for.

**What is hard.** Objects known to three registries that two threads clean at
different times; a raw pointer that outlives its owner; services that start in
an order; a switch to encryption while packets are queued in both directions;
answers that come after the state they were asked for has moved on; one blocking
call in a thread that serves all clients; a listener that fails; buffers that are
cut, by TCP or by `send`; ciphers that start anew with each packet sent and each
buffer received; sizes that may be misread; payloads
that move from owner to owner; a file that is truncated before it is written. The
list, line by line, is "hazards" in `PROJECT.json`.

**What makes each part correct.**

* Registries: an open connection has a player exactly if something receives
  for it; a player is only released after its socket is closed; what is left of
  a closed connection is released in the end, and never referred to again.
* Start-up and shutdown: no player exists without key pair, network and HTTP
  client; a listener that cannot start ends the program.
* Scheduling: one client's silence does not stop the others.
* Login: `LoginSuccess` is only for users that the session server vouched for and
  only sent encrypted; both ends always use the same key; a client that follows
  the protocol is served.
* Codec: reader, writer and size calculation agree, for every value and every
  length of a string.
* Byte stream: either end is given the packets that were sent, in their order,
  however TCP groups them, encrypted or not. (The code keeps this only as long as
  nothing is cut, see `PacketChannel`, `Framing` and `Sending`.)
* Payloads: each buffer is deleted once, and not used after that.
* Digest: the text is the hash as a signed number, as the session server expects.
* Configuration: what the user has set is never lost, and what the program runs
  with is what the file says.

## 2. Plan

Written so far:

1. `ConnectionLifetime` - abstract specification: what a client connection goes
   through. `Lifecycle` - the three threads, implementing it.
   `LifecycleProofs` - its theorems.
2. `Login` - player, encryption, authentication request, client. `LoginProofs` -
   what is true for any client, and what a patient one can rely on.
3. `PacketChannel` - abstract specification: one direction of a connection.
   `Framing` - the receiving half, a byte stream cut anywhere and decrypted by
   pieces, and `Sending` - the
   sending half, payloads, cipher and partial sends; both implement it until
   something is cut. This channel is what `Login` assumes. `FramingProofs` and
   `SendingProofs` prove that, with the safety of both.
4. `PacketCodec` - size calculation, writer and reader of whole packets, with
   `PacketCodecProofs`.
5. `Config` - the configuration file over starts, kills and edits, with `ConfigProofs`.
6. `AuthDigest` - the signed hexadecimal of a hash, with `AuthDigestProofs`.
7. `Numerals` - powers of a base, the number that digits denote and the digits of a
   number, for both. `DataProofs` - what is proved about these, and the lemmas for
   induction and recursion over data, and on parts of sequences, that the proofs share.
8. `MCLifecycle`, `MCLogin`, `MCFraming`, `MCSending`, `MCConfig` - the instances
   that TLC checks.

To come, in this order:

9. `CurlProcessor` - multi handle, completion messages and easy-handle map,
   implementing the abstract service that `Lifecycle` and `Login` assume.
10. The UUID of the session server's answer: hyphens and byte permutations.

## 3. The models

### ConnectionLifetime

What the code promises of one connection: *absent* (not yet accepted, or
accepted and not yet handed to anybody), *served* (a player is there for it) or
*orphaned* (no callback was registered when it was accepted), *closing* (its
socket is closed, something still refers to it), *released*. A served connection
cannot lose its player before its socket is closed, and nothing comes back to life.
(That closing leads to released, while the network thread is up and runs, is
`ConnectionReleased` of `Lifecycle`.)

### Lifecycle

| Model | Code |
|---|---|
| `mainPc`, `LoadConfig` ... `EndRegister` | `CSystem::Init`, the constructors of `CNetwork` and `CCurlProcessor`, `CProxyServer::Init` |
| `Frame`, `SweepPlayer`, `EndSweep` | `CSystem::Run`, `CProxyServer::Run`; `m_playerLock` is held exactly while `mainPc = "sweep"` |
| `StopCurl` ... `JoinNetwork` | destruction of `CSystem`'s members |
| `netPc`, `NetStart` ... `SendsDone` | `CNetwork::NetworkTick` loop by loop |
| `AcceptConn`, `AcceptNothing`, `RecvData`, `RecvClosed`, `RecvNothing`, `Flush`, `SendFails`, `SendKilled` | `CTCPSocket::Accept`/`Recv`/`Send` by outcome, together with what their callers do on each |
| `curlPc`, `Dequeue` ... `CurlSleep` | `CCurlProcessor::ThreadUpdate` |
| `Hang` | `CPacketSizeCalc::OnVarInt` on a negative size, from `RecvPackets` |
| `EndCallback` | the lambda of `CMCPlayer::HandleLogin` that captures `this` (`MCPlayer.cpp:168`) |
| `players`, `handlers`, `active` | `m_players`, `m_packetHandlers`, `m_activeConnections` |

Each loop of the network thread keeps the elements it has still to visit in
`netTodo`, so the other threads may act between any two of them. Registering the
callback is two steps, because the `std::map` is written without the lock that
the reader holds; between them the reader may see the element, miss it or crash,
which is what a data race on the map may do. The use of a destroyed player by
the callback likewise either crashes or has no effect on what is modelled.

Abstractions: registries are sets (no property depends on their order); a unit of
data is what one `recv` returns. `RecvPackets` gives the player each packet in it,
so that it leads to replies or none, to any number of authentication requests up to
`MaxAuth`, and to the rejection of the client or not, at TLC's choice (`Login` says
which). It may also lead nowhere: a packet whose size is read as negative keeps
the network thread in a loop (`Hang`; `Framing` says when), and with it the player
it holds. A failed `recv` is the client's close; partial sends and a full send
buffer are left to `Sending`. `MaxData`, how many units a client sends in its
life, and `MaxAuth` are the bounds of the model; each client connects once. What
must happen in the end is excused where the network thread is gone or hangs
(`Down`).

`Platform` is there for one difference: an accepted socket is non-blocking on
Windows, where it inherits the listener's mode, and blocking on Linux, where it
does not and nothing sets it.

### Login

One client, online: `isOnline` is true from the start and nothing ever clears it,
so the branch that logs in without asking the session server is dead code and is
left out. `HandleHandshake`, `HandleLoginStart`, `HandleEncryptionResponse`,
`HandleLoginAck`, `HandleStatusRequest`, `HandlePing` and their rejections are the
branches of `CMCPlayer`'s handlers; `Recv`, `BufferDone`, `Send`, `SendsDone` are
`CClientConnection`'s two passes; `Answer` and `BadAnswer` are the callback of the
authentication request on the curl thread. A packet on the wire carries the key it
was encrypted with and where in its cipher the writer was, at the start or behind
it. A receive buffer is decrypted with one key as a whole, by a cipher started for
it, and each packet the player sends has a cipher started for it; the client's two
ciphers go on (`Readable`). Read with another key or from another point, a packet is
garbage from its first bytes, where its size is. The send queue is
FIFO per enqueuing thread and unordered between the two, which is what the
concurrent queue guarantees; the key of a packet is the one of the moment of
sending. The verify token is the number of times 64 characters were appended to
`m_verifyToken`, which the code never clears.

The client is external, and `patient` says from the start which of two kinds it is.
A *patient* one sends each packet after the answer to the
one before. An *impatient* one sends up to `MaxSend` packets of the branch it
chose, in any order, without waiting. Packets arrive whole and in order
(`Framing` and `Sending` say when that is so); what garbage parses to is
abstracted to "the rest of the buffer is dropped, with or without disconnection, or
the network thread hangs". In the login of a patient client there is one encrypted
packet in each direction, so that both are read from the start of a cipher; this is
what `Intelligible` says.

`Platform` is there for `RecvNothing`, as in `Lifecycle`: on Linux `recv` waits for the
client. A patient client then waits for a `LoginSuccess` which the network thread,
waiting for the client, does not send.

### PacketChannel

One direction of a connection as those who use it see it: producers put whole
packets, the other end gets them, each once and those of one producer in their
order; under fairness all of them, unless something is cut. After a cut
(`whole = FALSE`) nothing is promised. The code tells nobody of a cut, so that
`whole` is a variable of the specification and a ghost in its implementations.

### Framing

The receiving half of `CClientConnection`. A packet is its bytes: its size, its
id, its body. The client appends packets to a stream; `Recv(n)` takes any
number of the bytes that have arrived, up to `BufLen`, which is all that TCP
promises. `ProcessPacket` is one round of the loop of `RecvPackets`:
`ReadUnencryptedPacket` reads the size at the current offset (`ReadVarInt`,
`PayloadSize`), calculates how long the size itself is (`SizeLength`), compares the sum
with the size of the whole buffer - not with what is left of it - and hands the
packet to the player. `Break` is the round in which that comparison fails, `Hang` the
one in which the size is negative, on which the calculation shifts a signed integer
for ever; `BufferRead` is the loop's end. Reading does not stop at the end of what was
received: behind it lie zeros that `Recv` left, and anything behind the end of
its buffer or of the decrypted one (`Memory`). Integers are two's complement and scaled
as in `PacketCodec`; a size has up to `Segments` bytes, each with a continue bit.

The client answers the encryption request once, and encrypts what it sends from then
on as one stream; `clear` says how many bytes came before that. The stream holds
the bytes as they were before encryption, and `Legible(i)` says which of them the
proxy gets back: those in the clear while it does not decrypt, and, when it does,
those of a buffer that starts where the client's cipher started, or of which the
`Block` bytes before are in the same buffer. The others are decrypted to anything. The
proxy decrypts from the `recv` after the one in which it handled the
EncryptionResponse on (`Enable`).

Nothing is kept from one call to the next, neither bytes nor the state of the cipher.
So a packet of which one `recv` returned only a part is misread: what was received of
it is dropped (`ClientConnection.cpp:36`), and the next `recv` starts in its middle. And
of all the client encrypts, only what comes in the first `recv` is read from its first
byte on; the packets of later ones, whole as they may be, have the size in front
garbled. `cut` is a ghost variable that says one of these has happened, or that
clear and encrypted bytes came together. Until then `Framing` implements
`PacketChannel`, with the packets that are under way or in the buffer as pending.
What the player does with a misread packet is left open: it takes it or disconnects.
`delivered` only goes on until a cut, behind which no property looks at it.

### Sending

The sending half, with the life of the buffers. `heap` says what became of each
`char[]`; a payload is a pointer and a size. The three payloads that matter are
the one `RecvPackets` hands to a handler (`received`), those in `m_queuedSends`
(`queue`) and the local one of `SendQueuedPackets` (`current`).

| Model | Code |
|---|---|
| `Receive` | `ReadUnencryptedPacket`: a new buffer for a packet |
| `Ignore`, `Reply`, `Echo`, `EnableEncryption` | what a handler does with it, and the destructor at the end of the loop's round |
| `Callback` | the curl thread's `QueuePacket`, at any time |
| `BeginSend`, `SendNext`, `SendFails`, `EndSend` | `SendQueuedPackets`; each `try_dequeue` is one step, so that the curl thread may act between any two |
| `Destroy` | the connection with its queue, after its socket is closed |

`SendNext(t, n)` assigns to `current`, which forgets the buffer it had, and lets
the socket take any `n` of the bytes. The echo of a ping is two bytes longer than
its buffer (`MCPlayer.cpp:260`): what `send` reads there is anything. Encryption is
CFB8 with a register of `Block` bytes and any function for AES; adding modulo
`Base` stands for exclusive or. The client decrypts one stream (`ClientReads`), and
takes the packets from it as their sizes say (`Packets`), which is what it needs for
the channel.

Four things cut the channel: a partial send; a packet after an echoed ping,
whose two bytes come before it; a second encrypted packet, for which the cipher is
started again; and a closed socket. None of these is unlikely, but in the login of
a patient client there is only one encrypted packet in that direction. Until one of
them happens `Sending` implements `PacketChannel`, with the two threads as
producers. After the third, exactly the first `Block` bytes of a packet are garbled
(`GarbledOnlyAfterRestart`): 16 in the program, more than most packets have.

### PacketCodec

`SerializePacket` runs a packet's `Serialize` twice, once with
`CPacketSizeCalc` and once with `CPacketWriter`; the other end runs it with
`CPacketReader`. The three share no code, only the sequence of visits. The model
is one machine that does the three passes, one visit at a time and one round of
a VarInt loop at a time, over every packet that the proxy or the unit tests send:
`pass` is the visitor, `visits` what is still to visit, `rest` and `count` the
locals of the VarInt loop; the others are members of the visitors. All visits are
records of one shape (`Visit`): a string is two, the VarInt of its length and its
body, and both know the limit, so that each visitor can do with them what its
`OnString` does. The writer leaves out both (`WriteSkip`); the size calculation has
counted the length when it compares it (`SizeBody`).

Integers are two's complement, scaled down: `Base` values per segment, `Segments`
segments, `Top` values in the last (128, 5 and 16 in the code). Shifts and masks are
divisions by powers of the base (`Numerals`). `LengthAssumption` says that limits are
positive (the least in the code is 16 or more) and that the size of a packet fits an
`int`: in the code's numbers, that no string is longer than about 2^30. The difference
between a signed `>>` in one loop and an unsigned one in another is
in the model, and shows: for a negative integer the size
calculation never ends. (No packet the proxy sends holds one, so `Completes` is
stated for the others; that nothing of such a packet is written is proved,
`NegativesAreNotWritten`. Sizes that are received go through the same calculation,
and may well be negative: `Framing`.) A string that is too long is skipped by the
writer, while the size calculation stops counting after it; `SerializePacket`
does not ask for the failure, so the writer may then pass the end of its buffer.
The model follows the writer and says nothing of what is read after that. (Strings
of so many bytes are contents that can be told apart by position, `Content`.)

### Config

`config.toml` is the only thing that outlives the process. `file` is what is on
disk, `configTable` what was parsed, `values` what the groups hold. A start is
`Start`, then `FindConfig` where the file can be opened for reading or
`GenerateDefault` where it cannot, `LoadConfig`, `RegisterConfigGroup` for each
group in any order (that of static initialisation over source files, which is
unspecified), each perhaps followed by `Truncate` and `Flush`, then `Run`, the
point at which `CNetwork` looks for its group. `Stop` ends the process at any
point, `Edit` saves another file at any point but between the two halves of a
write.

Nodes are records with a type; `FilesAssumption` says that what a user saves is no
file, no TOML, or a table. `Put` is `insert_or_assign`. The two groups of the program are modelled with
their members: an integer, a boolean, and an array of structs. `Read` and `Written`
are what `config_detail::Visit` does with `CConfigReader` and `DefaultWriter` on
them: in particular an array with a bad element is read up to it, the vector having
been resized, so that `Servers` may end with defaults in the place of what the user
wrote.

`GenerateDefault` does not tell a file that is missing from one that cannot be opened
for reading (`ConfigurationManager.cpp:227`): it truncates either, unless that fails
too. This is the second way in which the program loses settings, besides a write that
is cut off. `undisturbed`, under which the properties are stated, ends with both.

A file whose group is no table loses what stands in its place
(`ConfigurationManager.cpp:171`), and what the user saves between the loading and
the writing is overwritten; no document says otherwise, and `SettingsSurvive`
excludes the first and is not about the second.

### AuthDigest

`SAuthHash::Finalise`, one action per operation on the big number: the hash as a
number, its sign bit, complement and increment, conversion to hexadecimal with an
even number of digits, and the loop that strips zeros. Hashes are scaled to
`Bytes` bytes of two digits of base `Base`, an even one, so that the highest bit is
the sign. `DigestIsSigned` compares the text with the signed number that the bytes
denote, for every hash but zero. Of that nothing is left, although the comment at
`AuthHash.cpp:62` keeps the last zero (`auth_zero`).

## 4. Runs

| Run | Question | Instance |
|---|---|---|
| `lifecycle_safe` | types, callback pointers, registries, services, `recv` on closed sockets, refinement of `ConnectionLifetime` | 2 clients, 1 unit each with up to 2 requests, Linux, symmetric |
| `lifecycle_live` | what is left of closed connections is released; an idle client does not starve another; replies are sent; a failed start exits | 2 clients, one idle, one with 1 unit, Windows |
| `lifecycle_blocking` | ... but does on Linux (violation) | 2 clients, one idle, Linux |
| `lifecycle_listener` | a closed listener ends the program (violation) | 1 client |
| `lifecycle_stale` | connections of departed clients are removed (violation) | 1 client |
| `login` | a patient client is understood, served and completes; for any client `LoginSuccess` is vouched and encrypted, and encryption is for good | 2 names, 1 owned, 2 secrets, 6 packets of an impatient client, Windows |
| `framing` | until a cut, receiving implements `PacketChannel`; the stream is read unless the thread hangs | packets of 2, 3 and 6 bytes, 3 of them, integers of 4 bits, a buffer of 6, a register of 2, 4 patterns of noise |
| `sending` | buffers have one owner; what leaks; what is garbled; until a cut, sending implements `PacketChannel` | packets of 2 and 3 bytes in base 3, 3 buffers, a register of 2 |
| `packet_codec` | the buffer is as long as what is written; size prefix, reader and writer agree; serialization ends | VarInts of 4 segments of base 4, 7 bits; strings of up to 6 characters |
| `config` | settings survive; the next start reads the same; a complete file is left alone | 50 files a user may save, at any time |
| `auth_digest` | the text is the signed number | all hashes of 3 bytes in base 4 |
| `auth_zero` | the last zero is kept (violation) | the same |

**Why the bounds are enough.** Two clients are the fewest for which registries
can be confused, a loop can be left half-way by one element and another client
can be starved; no action refers to more than two connections. One unit of
data lets a request be under way when its client leaves, and meet a reply; two requests
from it are the fewest of which one is queued behind another. The proofs lift safety to
any number of clients, units and requests. Six packets of the impatient client are a
handshake, two `LoginStart`s, two encryption responses and an acknowledgement: enough for a second
login to overlap the request of the first, and for the secret to change under it.
A receive buffer of 6 bytes holds two or three packets, one packet and a part of the
next, and is smaller than what three packets may come to; the packet of 6 bytes, one of
which has the continue bit in its size, can be cut so that its tail looks like a packet
of its own. What memory holds and what bytes decrypt to is one of four patterns: zeros,
sizes that never end, negative sizes, small ones. A register of two bytes is as long
as one packet and shorter than the others. Three packets let the EncryptionResponse come
before two encrypted ones, in one `recv` or several. Three payloads' buffers let one packet be
handled, one queued by the other thread and one be sent, or three be sent in one
call, so that a payload is assigned to twice; a register of two bytes is shorter
than one packet and as long as the other, so that garbling ends within a packet and
with it. The files have each group's table, none or a scalar in its place, members
of the right type, of a wrong one or missing, and arrays that are empty, good, or
bad in their first or second element; a start, a kill and another start need no
counter. Three bytes in base 4 have every combination of sign, leading zero digits
and leading zero bytes. Four segments of which the last is
narrower make a VarInt loop run once, several times and to its limit, for every
value of the type; the strings' limits lie below, at and above `Base`, so that
their length takes one byte or two, and every string is tried one longer than its
limit.

**What the violations show** ("findings" in `PROJECT.json`):

1. On Linux accepted sockets block, so `recv` on an idle client stops the network
   thread for all (`TCPSocket.h:84`; `TCPSocket.cpp:166` expects otherwise).
2. A listening socket closed by a failed accept ends the network thread, and
   nothing tells the main thread (`Network.cpp:98`; `Network.cpp:97` says the
   application exits).
3. A connection accepted before the callback is registered is never received from
   and stays active after its client has gone (`Network.cpp:138` against
   `Network.cpp:134`).
4. Of the hash zero the digest keeps no digit (`AuthHash.cpp:64`; `:62` says that the last
   zero stays).

**What the properties leave open.** Three behaviours of the code have no run of their
own, but their properties had to be stated around them:

* For the same reason as 1, on Linux the login of a single client that waits for its
  `LoginSuccess` does not complete: `LoginCompletes` is checked on Windows.
* A received size that reads as negative is never done with
  (`ClientConnection.cpp:100`). It need not be sent: a cut packet or the restart of the
  cipher may make one of any size. `NothingLostUntilCut` says that before a cut it does
  not happen; after one, `StreamIsRead` and what must happen in the end in
  `Lifecycle` are excused by it.
* A configuration file that cannot be opened for reading is truncated as if there were
  none (`ConfigurationManager.cpp:227`): `SettingsSurvive` and `SettledIsDurable` exclude it.

**Fairness.** Each of the three threads keeps taking steps (`WF` on the whole
thread, not on its actions: which of the possible outcomes of `recv` or `accept`
comes is never assumed). The network thread takes `m_playerLock`, which the main
thread holds for part of every frame; a mutex that is released again and again is
taken in the end, hence `SF` on `RegisterPlayer`. Nothing is assumed of clients,
of the session server, or of failures. Threads in the endless loop of `Hang` take no steps, and none
are assumed. In `Login` the network thread runs on, which on Linux it only does when there
is something to receive (`LoginCompletes` is checked on Windows), the patient client
does its next step, and the session server answers a request
(without this no login can complete; requests have no timeout in the code). In
`Framing` and `Sending` the network thread runs on and nothing is assumed of the
client or of the curl thread, nor that the socket takes a whole packet; in `Config`
and `AuthDigest` nothing is assumed; in `PacketCodec` the machine is one thread in loops.

## 5. Proofs

| Module | Theorem | What it establishes |
|---|---|---|
| `LifecycleProofs` | `Inductive`, `TypeCorrect`, `CallbackSafety`, `RegistryAgreement`, `ServicesOutlive`, `RecvOnOpen` | the invariants of `lifecycle_safe` |
| | `LifetimeRefined` | `Lifecycle` implements `ConnectionLifetime`'s `Spec` |
| `LoginProofs` | `LoginTypeCorrect`, `SuccessVouched`, `SuccessEncrypted`, `EncryptionForGood` | what `login` checks for any client |
| | `PatientConverses`, `PatientIntelligible`, `PatientServed`, `PatientSuccessSecret` | what it checks for a patient one |
| `FramingProofs` | `FramingTypeCorrect`, `NothingIsLost` | the invariants of `framing` |
| | `FramingIsChannel` | `Framing` implements `PacketChannel`'s `Spec` |
| `SendingProofs` | `SendingTypeCorrect`, `BuffersOwnedOnce`, `OnlySentBuffersLeak`, `GarblesOnlyRestarts` | the invariants of `sending` |
| | `SendingIsChannel` | `Sending` implements `PacketChannel`'s `Spec` |
| `ConfigProofs` | `ConfigTypeCorrect`, `SettingsAreKept`, `ReadsAgree`, `CompleteForGood` | all of `config` |
| `PacketCodecProofs` | `CodecTyped`, `FailsForLength`, `BufferIsFilled`, `PacketsAreFramed`, `PacketsAreKept`, `NegativesAreNotWritten` | the invariants of `packet_codec`, and that its size calculation never ends for a negative integer |
| `AuthDigestProofs` | `TextIsSigned` | all of `auth_digest` |
| `DataProofs` | lemmas only | sequences, recursion, numerals |

All hold for every value of the constants that the named assumptions allow, which
are these: in `Lifecycle`, `NoConn` is no connection, `MaxData` maps connections to
naturals, `MaxAuth` is a number, there are two platforms; in `Login`, `NoName` and `NoKey`
are no name and no secret, `MaxSend` is a number, and there are the platforms; in
`Framing`, packets are bytes that begin with their size as a VarInt, integers have two
segments or more of two values or more, noise is bytes, and the bounds are numbers; in
`Sending`, packets are bytes of which the first is their size, the bounds
are numbers, `Base` is positive, the key fills the register and the pad is a byte; in
`Config`, what a user may make of the file is none, no TOML, or a table; in
`PacketCodec`, there are two segments or more of two values or more, limits are
positive and a packet's size is an `int`; in `AuthDigest`, the base is even and a hash
has a byte. Nothing is assumed finite, so that they hold for any number of connections, packets, buffers and
files, and for AES as for any other function.

**Lifecycle.** None of the invariants is inductive alone. `CallbackFindsPlayer` is
preserved by the sweep because the sweep only takes players with closed sockets; it is
preserved by the arrival of data because a socket that is received on belongs to
a handler, and an open connection with a handler has a player
(`RegistriesAgree`); that in turn holds when a player is registered because the
connection in hand is not yet known to anybody (`CurOK`), which holds because a
connection that was not accepted is in no registry (`OwnershipOK`). The requests
that are under way are never negative because the curl thread's callback belongs
to one of them (`CallingOK`). That nothing is torn down under a player's feet needs
the order of start-up (`StartupOK`), and that the program only winds down when the
listener never started, so that no connection was ever accepted (`ShutdownOK`).
`IndInv` is the conjunction. The proof has one lemma per thread (`Main-`, `Net-`,
`CurlPreservesIndInv`, `ClientsPreserveIndInv`), with one step per action.

The refinement proof uses `IndInv` before and after each step and three lemmas:
a step that moves the phase of one connection as the abstract specification
allows and leaves the others alone is a step of it (`OneMoves`, `OthersStay`), and
one that moves none is a stutter (`Stutters`).

**Login, any client.** `SuccessInv` adds one conjunct to `SuccessIsVouched` and
`SuccessIsEncrypted`: before there is a key, no request is under way and no success
is queued (`EncryptedFirst`). It is what relates the two threads: the curl thread
queues a success only for a request, and the network thread sends it under the key
that was set before the request was made. Without it a success that was queued
before encryption would be sent in the clear.

**Login, a patient client.** `PatientInv` says that the conversation is at one point
of a list (`Greeting`, `Querying`, `Joining`, `Secured`), each of which determines what
is on the wire in both directions, queued, requested, and known to either end. No
less is inductive: that a buffer is read with the key it was written with holds because
nothing else is on its way when the key changes, and that because the client waits.
`Inbound` joins the wire, the buffer and the packet in hand, so that moving a packet
among them is a stutter of the conversation.

**Framing.** `FramingInv` says that what is under way is the end of what was sent
(`UnderWay`) and that, until a cut, what was given to the player are the first
packets and the buffer begins with the next and ends with one, each byte as it was sent
(`Aligned`). The last holds because the proxy decrypts exactly if it was given the
EncryptionResponse, and until a cut takes what follows in one `recv`, from where the
client's cipher starts: `clear` is where the packets up to the EncryptionResponse end
(`ClearIs`). From it follows that the packet
at the offset lies within the buffer, so that what is read as its size - whatever lies
behind it - is its size (`SizeOfPacket`: the first byte without the continue bit is one
of its own, `FirstEnds`), and neither `Break` nor `Hang` is taken. The proof rests on
lemmas on `FlattenSeq` for sequences
of any elements: where packets begin (`Boundaries`, `OneMore`), and that the bytes of
fewer packets are the first of those of more, and fewer (`Nested`).
For the refinement, `ProcessPacket` is a `Get`, `ClientSend` a `Put`, a `Recv`
that ends within a packet a `Cut`, everything else a stutter (`StepOfChannel`).

**Sending.** `Ownership` strengthens the ownership properties: a payload in the
queue has a buffer of its own (`QueueOwns`), so have the two in the hands of the network
thread (`HandsOwn`), which it has only while it handles or sends (`HandsInPhase`); each
payload is as long as its buffer, or two bytes longer in the queue (`BuffersFilled`);
what is live has an owner or was given to `send` (`LiveIsOwned`).

`EncryptionBytes` says what the loop of the cipher computes for packets of any length.
`CipherInv` says of every encrypted byte on the wire that it was made with the register
which some start of the cipher, and the cipher text since then, have left. After `Block`
bytes the register holds nothing older (`RegisterForgets`), so that the client's
register is the same from there on: `GarblesOnlyRestarts`. Partial sends make no
difference to that, since only what was sent enters a register.

For the refinement, `WholeInv` says that until a cut the socket is open, the cipher was
started once at most, and the plain text sent consists of packets. The client then
reads the plain text (`ReadsPlain`) and in it those packets (`ReadAsSent`, for the
recursive `Packets`). `SendNext` is a `Get`, `Reply`, `Echo` and `Callback` are `Put`s,
what clears `whole` is a `Cut` (`SendingSteps`).

**Config.** Neither property is inductive alone. `SettingsSurvive` needs that the
table which is written still has what was loaded (`Survival`), and that needs files to
be tables as `FilesAssumption` says, kept by registration (`WellFormed`).
`NextStartAgrees` needs that a group's values are what the table says even after
other groups have added their defaults, and that the file, as long as nobody has
disturbed it, says the same as the table, written or not (`Agreement`); that a default
is read back as itself is `DefaultsReadBack`. `SettledIsDurable` needs that a
registration which finds nothing missing does not lead to `write` (`Durability`).

**PacketCodec.** `Segs(v)` is the number of segments of `v` and `VarIntBytes(v)` its
bytes. `RoundIs` says what all three loops rest on: in the round after `j` others the
remaining value is `v` divided by a power of the base, it is the last round exactly if
one segment holds that, and what was read so far is `v` modulo that power. From these come the
bytes of a visit (`Bytes`), of the first `k` items of a packet (`Flat`, a recursive
function: `FlatIs`) and of the packet with its size in front (`Stream`).

`CodecInv` has one part per pass. `SizeInv`: after `k` visits the size is the length of
`Flat` so far, and inside a loop `count` segments are done - or the integer is negative
and stays so, and the loop never ends (`NegativeStays`), so that every packet which
leaves this pass has none (`AllPass`). `WriteInv`: what was written is `Stream` so far,
and inside a loop the segments that are done. `ReadInv`: what was read are the values of
the first `k` visits, the reader stands where `Stream` of them ends, and `rest` is the
value modulo what is missing. `DoneInv` is the result. None of the properties is
inductive alone: that the buffer is long enough needs that both loops make the same
number of segments, that the reader stays in step needs every byte of what was
written, and that nothing too long went unnoticed needs what `SizeInv` says of the
strings already visited.

That the size of a packet is an `int` is shown by bounds on parts of a packet
(`Bounds`, `Part`, `PartsJoined`), which `PacketIs` puts together for each kind of
packet: it is what makes the VarInt of the size come back positive. That the stream
of a packet starts with that of fewer visits (`StreamStarts`) puts each visit's bytes
where the reader looks for them (`BytesFound`).

**AuthDigest.** The big number is followed through `Finalise` (`DigestInv`). Its bytes
are its digits in base `Radix` and denote it (`DigitsDenote`); the complement of each of
them denotes what is missing to the highest number of so many bytes
(`ComplementDenotes`) - of all `Bytes` bytes, since the number is only complemented when
its sign bit is set, so that no leading byte is zero. Two hexadecimal digits per byte are
the digits in base `Base` (`PowersOfSquare`). A leading zero adds nothing, which makes
`StripZero` harmless, and what begins with another digit is not zero (`LeadingDigit`).

**Induction over data.** `DataProofs` proves that a set with 0 and with the
successor of each of its members has all naturals (`SetInduction`, from the well-founded
order of the naturals), and from it that a loop computes something (`LoopExists`), and
nothing else (`LoopUnique`). These are statements about sets and functions, not
operators, and so can be used for what recursive functions compute on data of every
length (`EncryptionBytes`, `FlattenIs`, `PacketsRead`, `PowerIs`, `ValueIs`, `FlatIs`).

**Only model-checked.** Everything about liveness, because the prover has neither
fairness nor `ENABLED`: `ChannelUntilCut` with its fairness,
`StreamIsRead`, the completion of logins and of serialization (`Completes`), the release
of what is left of a connection, the replies and the end of a failed start. Every
invariant and every action property that a run checks is also proved.

## 6. Not modelled, and why

* The data race on the callback map, beyond its three outcomes: `RegisterConnectionCallback`
  writes the map without the lock under which the network thread iterates it
  (`Network.cpp:68` against `Network.cpp:101`).
* Namespaces of configuration groups, null members and groups registered twice,
  of which the program has none, and `LoadConfig`'s loop over registered groups:
  it runs before any is registered. The manager's destructor erases from the map it
  iterates over; whatever that does, the process is gone.
* A failure of OpenSSL to decrypt, of which `RecvPackets` would not take notice
  (`SharedSecret.cpp:18`), and of `new`.
* A failure of `WSAStartup`, after which the network thread is never started.
* OpenSSL, libcurl's transfers, the kernel: by the outcomes their callers tell
  apart. `eSF_Connect`, the list of backend servers, `m_quit` and
  `UnregisterConnectionCallback` have no users in the code.
* UUID conversion is mostly vendored SIMD code, a permutation of bytes without
  state; planned last. Logging and formatting do not influence any property.
