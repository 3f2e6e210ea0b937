# Specifications of the RCNET game server template

This directory holds TLA+ models of the server in `src/`, the TLC
configurations that check them on small instances, and proofs, checked by
TLAPS, that their main properties hold for every value of the constants.
`PROJECT.json` lists the components, the runs, the theorems, the source lines
every definition stands for, and the hazards the properties are aimed at.

    tlc -workers 2 -config GameServer_reuse.cfg MCGameServer.tla     # a run
    tlapm GameServer_proofs.tla                                      # a proof

## 1. The system

The server is a program on the RCNET engine (threads, ticks, logging) and ENet
(transport), both outside the repository. The engine calls the callbacks of
`core/callbacks.cpp` from four threads; NATS calls one more from its own.

| Thread | Runs | Owns |
|---|---|---|
| network | `network/transport/incoming` for each ENet event, `.../outgoing` at each outgoing tick, the encryption and compression callbacks of ENet | the connection tables of `NetworkState`, `ENetPeer::data` |
| simulation | `simulation/entrypoint.cpp` at each tick: drain, process, match flow, world, snapshots | creation and erasure of sessions, `GameState` |
| HTTP | `services/http/entrypoint.cpp`, waiting for requests | nothing but its batch |
| NATS | `services/nats/entrypoint.cpp`, waiting for messages | whether it subscribed |

They communicate over queues (a mutex and a deque each; consumers swap the
whole deque out and process it without the mutex) and share `NetworkState`:
the sessions, under `sessionsMutex`, and the connection tables.

    client --ENet--> incoming --CONNECT, HELLO, AUTH, READY, INPUT, DISCONNECT--> simulation
    client <--ENet-- outgoing <--answers, match packets, snapshots--------------- simulation
                     simulation --validate token--> HTTP thread --answer--> simulation
                     simulation --publish--> NATS thread;  NATS callback --message--> simulation

The life of a client: ENet connects it and the network thread gives it a
connection identifier, never used again; the simulation creates its session;
the client says hello with a key and the simulation answers with a signed one;
**when ENet reports that this answer was acknowledged** the network thread
switches the encryption of the connection on; the client sends its token, the
HTTP thread has it validated, and the client is told; a refused client is
disconnected **when it has acknowledged the refusal**; an accepted one may
announce it is ready, plays in the match, and leaves at any moment.

### Inventory

| Component | State | Operations | Hard behaviour | Correct when | Module |
|---|---|---|---|---|---|
| connections, incoming packets | `nextConnectionId`, `connectionIdToEnetPeer`, `connectionIdToEncryptionEnabled`, `peer->data` | connect, disconnect, validation, channel guards, push | slots are reused; the guard is read before the push | tables inverse, packets framed by CONNECT and DISCONNECT | NetworkIncoming |
| reliable answers | contexts attached to packets in ENet | drain, send, ACK callback, free callback | late ACKs, sends that fail half-way | a context acts on its own connection only, and an order to disconnect is not lost | NetworkOutgoing |
| sessions | `sessions` | the handlers of the simulation | repeated and overtaken messages | no session without connection, one validation at a time, no way back | Simulation |
| HTTP service | its batch | drain, validate | answers after the client left | every request is answered | HttpService |
| match flow | `GameState`, flags and start tick | `CheckMatchFlow` | sessions come and go between the stages | stages once and in order, one start tick | MatchFlow |
| snapshots and inputs | snapshot identifiers and pending inputs of a session | produce, coalesce, number, send; handle input | two threads write the identifiers, packets are lost | clients never go back, acknowledgements are of snapshots sent | SnapshotFlow |
| wakeable queues, shutdown, NATS pass | deque, `stopped`, condition variable | push, wait and drain, stop | lost wake-ups | nothing lost, nothing reordered, the engine can end | WakeableQueue |
| packet encryption, compression | keys and flag of the session, read at each datagram | ENet datagram callbacks | keys and flag change while datagrams are on the way and are sent again | each side can open what the other sends, nothing leaves in clear again, the handshake ends | DatagramFilters, SecureTransport |
| serialisation, signatures | the cursor of the reader | read and write fields, sign the attestation, patch a snapshot | lengths that lie, bytes left over, layouts written in two places | never past the end, accepted bytes are whole, the attestation can be verified | PacketCodec |
| metrics publication | `nextPublishAtNs` | one function, its call commented out | windows that were missed | at most one message per window | not modelled |
| world, game data | entities | empty functions; `SpawnPlayer` is never called | | | not modelled |
| build, containers, cluster files | | | | | not modelled |

## 2. The modules

    ServerState --+-- NetworkIncoming --+
                  +-- NetworkOutgoing --+-- GameServer --refines--> ClientLifecycle
                  +-- Simulation -------+                               ^      ^
                  +-- HttpService ------+                          MatchFlow  SnapshotFlow
    DatagramFilters --- SecureTransport         (the handshake, on the wire)
    PacketCodec                                 (packets, as bytes)
    WakeableQueue --refines--> Mailbox
    MCxxx: instances for TLC.   xxx_proofs: theorems and proofs.

**ServerState** declares what the threads share: `NetworkState`, the queues,
and the part of ENet the callbacks see. An `unordered_map` is a function whose
domain is its set of keys. A queue is a sequence, followed by the batch its
consumer swapped out. ENet is external and modelled from how the code uses it:
a slot is free, connected or closing; `unacked` holds the contexts of reliable
packets in flight. ENet may acknowledge a packet late, after its slot was
reused: the guard of the ACK callback exists for that.

**NetworkIncoming**, **NetworkOutgoing**, **Simulation**, **HttpService** have
one action per handler. A packet that the code refuses changes nothing, so
refusals are guards. The clients are unconstrained: any packet may come at any
time. **GameServer** composes the four; its next-state relation has one
disjunct per thread.

How steps are cut:

- A handler is one step. It updates the session under the mutex and pushes its
  messages afterwards; a message pushed a moment later is only one that lands
  in the consumer's next batch, which the drain, at any moment, gives anyway.
- Receiving AUTH or READY is two steps, guard and push (`accepted`): between
  them `sessionsMutex` is free and the session may change.
- The network thread takes no event while it works through an outgoing batch
  or pushes; the simulation drains only when its batches are empty.
- Two drains at the head of a tick are one step: nothing is processed between.

**ClientLifecycle** is the abstract specification: absent, connected,
validating, valid or invalid, gone. GameServer implements it under
`stage <- Stage, ready <- Ready`, and MatchFlow and SnapshotFlow take it as
their environment in place of the whole server.

**MatchFlow** is `CheckMatchFlow` and the sending of what it queued. The
outgoing queue is split by client: the order between clients matters to no
one. Ticks are counted from MATCH_START on, earlier ones being alike. A client
joins only while the host has a free slot (`SessionsFitTheHost` in GameServer
justifies it). `SendCanFail` covers a failing ENet call, a peer that left and
whose DISCONNECT is not processed, and a session whose handshake was redone.
The two acquisitions of `sessionsMutex` inside `CheckMatchFlow` see the same
set of sessions, for only the simulation thread, which runs it, changes the set.

**SnapshotFlow** has the production tick, the coalescing, the numbering under
the mutex and the sending after it (two steps, the session may change between),
and the inputs that acknowledge. `departed` are clients whose transport ended
while the simulation does not know. Assumed of the outside: ENet loses
unreliable packets but neither duplicates nor reorders them, and a client
acknowledges what it received.

**DatagramFilters** has the callbacks ENet applies to every datagram, as
functions: what they return for bytes of some size and form (the content of a
packet, an LZ4 block, bytes sealed with a key), or `Nothing` where the code
returns 0. **SecureTransport** puts them into the handshake of one slot. The
keys of a session are named by the connection and the hello they come from; a
datagram carries one command and is what the callbacks made of it at the moment
it left. Hellos, answers and acknowledgements are what the other modules treat
as single steps; here ENet sends them again and again, and the wire loses and
reorders. The sets `toServer` and `toClient` merge equal datagrams: a second
copy is what a further transmission gives. Assumed of ENet, from how the
callbacks are used: a packet is sent again until acknowledged and handed over
once and in order; datagrams of a former connection are dropped; a datagram is
compressed first and encrypted last; its buffers hold the largest datagram with
header and tag. Assumed of the client, which is not in the repository: it
derives its keys from the answer to its hello, after its ENet acknowledged it,
and encrypts from the first encrypted datagram that it could read. HELLO is
guarded here by the connection alone, as in the code.

**PacketCodec** reads the bytes of one channel as the `deserialize` functions
do, a field a step, with the cursor of `ByteReader` and the checks of its
`readX`; a layout is a list of fields with their widths, and reading and
writing have their own where the code has two. Two things are written from what
was read: the snapshot, which is deserialised, numbered and serialised again on
its way out, and the attested answer to a hello, whose signed message
(`signing.cpp`) and packet (`serialize`) are built by different functions and
must agree byte for byte.

**WakeableQueue** is the queue class of the HTTP and NATS threads with the pass
that uses it (`MustSubscribe` distinguishes the two). A section under the mutex
is a step, the notification after it another; `wait` releases and sleeps in one
step and may wake spuriously. **Mailbox** is what it promises: a sequence
handled from the head. GameServer's HTTP queue, a sequence drained at some
moment, relies on that.

## 3. The runs

Passing runs:

| Run | Instance | Shows |
|---|---|---|
| `reuse` | 1 slot, 2 connections, a good and a refused key, load 3, signature and sends may fail | sessions belong to a connection or to its DISCONNECT on the way, bound connections are served, both encryption flags agree, ready implies valid, authentication implies encryption, one validation at a time, messages framed, sessions fit the host; the ACK that enables encryption is the connection's own |
| `concurrent` | 2 slots, 2 connections, load 2 | tables inverse; refinement of ClientLifecycle |
| `live` | 1 slot, 2 connections, load 2, sends succeed | validations end, refused clients leave, ended connections are forgotten |
| `match` | 3 clients, match of 2, countdown 2, sends succeed | flow in order and once, one start tick, the inductive invariant; MATCH_START reaches the players that stay; an announced match starts |
| `handshake` | 2 connections of a slot, 1 hello each, hellos may be refused, losses | what the server encrypts its client can read; the server reads all its client sends; no way back to clear; every hello ends in encryption both ways or in the end of the connection |
| `codec` | samples of every packet on every channel, cut at each byte, extended, mixed up | the cursor stays in bounds; accepted bytes are exactly a packet; what clients write is accepted; the attestation can be verified from the answer; numbering a snapshot changes nothing else |
| `snapshot` | 1 client, 4 ticks, 3 inputs, losses | clients never go back; acknowledgements were sent and never go back; the newest state is sent |
| `queue` | 2 messages, 4 pushes, the NATS pass | no lost wake-up; Mailbox implemented; messages served while the engine runs; the engine can end |

Runs that find a disagreement between the code and one of its comments (the
findings of `PROJECT.json`):

| Run | Found |
|---|---|
| `lost_refusal` | if `enet_packet_create` fails, the order to disconnect a refused client is lost (`enet_send_packets.cpp:310`), though `:390` keeps it when the send fails |
| `rehello` | a second hello replaces the keys of an encrypted connection at once: the answer from which the client would derive them is sealed with them, against the reason `enet_send_packets.cpp:464` gives for waiting for the acknowledgement |
| `match_uninitialised` | MATCH_INIT is queued when the last *connection* arrives, authenticated or not, and dropped by the guard of the network thread: a player may be told the start without it |
| `snapshot_lastsent` | `serverLastSentSnapshotId` names snapshots that were never sent |

### Bounds, and why they are enough

- `MaxConnections = 2` with one slot: the hazards of reuse need one former and
  one present connection of a slot; with two slots the same two are concurrent.
- `MaxLoad` bounds what clients have under way (messages, answers, packets not
  acknowledged). With 3, a hello, its repetition and a token are in the
  pipelines together; 2 suffices for an interleaving of two packets.
- Keys of hellos: one accepted and one that libsodium refuses.
- `MatchFlow`: three clients for a match of two, so one leaves and another
  takes its place at every stage; `MaxTick` (4) lies past the countdown.
  The run has sends that succeed, as its liveness needs; the proofs of the same
  safety properties cover sends that fail.
- `SnapshotFlow`: the identifiers of a client do not depend on other clients,
  so one client suffices for the order; four ticks allow two to be coalesced
  before and after one that is lost. `FreshStateIsSent` is about what passes the
  guard: a lost packet is not resent by anyone.
- `SecureTransport`: two connections, so that datagrams, answers and messages
  of the former are on their way when the slot is used again; one hello each,
  because a second one breaks the properties (`rehello`). The largest datagram
  with header and tag fills the buffer exactly, the case a size check gets
  wrong first; the hello is compressed, other packets are not.
- `PacketCodec`: a byte has 8 values, so that numbers of 8 bytes fit TLC's
  integers; samples have distinct digits, so an exchange of bytes or fields
  shows; keys, nonces and tokens have two bytes, and a token may have none, the
  limit, or one more.
- `WakeableQueue`: four pushes fill queue and batch together. The pass of the
  HTTP thread is that of the NATS thread once it has subscribed.

Deadlock is not checked: with bounded connections, ticks and pushes every
behaviour of an instance comes to rest, and an idle server waits by design.

### Fairness

- GameServer: each thread runs (weak fairness of simulation, HTTP and the push
  and sends of the network thread). A poll of the ENet host handles all that
  arrived, and the outgoing tick comes between polls, so no traffic keeps the
  network thread from one kind of work for ever: strong fairness of the
  outgoing drain and of the report that a closed slot ended. ENet acknowledges
  a reliable packet or times its peer out. Clients need not do anything.
- `ValidationsEnd` rests on the timeouts of the HTTP client: a request without
  an answer is an answer (a refusal).
- SecureTransport: the threads run; ENet sends again what is not acknowledged
  and what it sends again and again arrives at last (strong fairness of the
  receipts, for losses may come between: without it ENet would time the
  connection out, which is allowed as well); a slot being closed is freed; a
  client reads the answers it received.
- MatchFlow, SnapshotFlow: the periodic ticks. WakeableQueue: the threads and
  due notifications go on, a subscription tried again and again succeeds, and
  an engine that quits calls `rcnet_wake_blocking_threads`.

## 4. The proofs

Assumptions: only the named ASSUMEs on the constants, which TLC evaluates on
the instances. Bounds are naturals, the refused keys are keys, the switches are
Booleans; `PeersAssumption`: the slots of the host are finitely many
(`enet_host_create` allocates them); `LZ4Assumption`: what LZ4 makes of a packet
has a size; `TransportAssumption`: ENet's buffers hold the largest datagram with
header and tag. `CodecAssumption`: what arrives are bytes, keys and
signatures have their length, identifiers and times are naturals. Hypotheses
stated in the theorems themselves: the three on who understands whom in
SecureTransport have `ASSUME MaxHellos = 1`, for with two hellos on a connection
the code breaks them (run `rehello`); `ClientsAreUnderstood` says what a client
writes (below).

**GameServer** (`GameServerTypes_proofs`, `GameServer_proofs`). `TypeOK` is
inductive by itself. The safety properties are not: whether a session is
served or orphaned depends on messages in two queues, whether a validation is
unique on four. `IInv` adds to the properties:

- `SlotsAgree`: a slot is free exactly when it carries no identifier, and the
  two tables have the same keys;
- `PendingFits`: what the messages waiting for the simulation say is still
  true when it matters: a connection whose CONNECT waits has left no trace
  (`Unborn`), one whose DISCONNECT waits is unbound, one whose AUTH waits is
  encrypted, one whose READY waits is valid. This is what closes the gap
  between guard and handler: nothing takes encryption or validity back;
- `AcceptedFits`: the same for the packet between guard and push;
- `IdentifiersIssued`: no part of the server knows an identifier not handed out.

The proof has one lemma per action. The three pipelines (to the simulation,
through the HTTP thread, out to the client) are read through the predicates
`Waiting`, `Validating`, `AnswerUnderWay`, and lemmas say once what a push, a
take and a drain do to them; actions that do not touch the tables or sessions
are handled by a frame lemma. From `InvariantHolds` follow the theorems on
`SessionsAreOwned`, `ConnectionsAreServed`, `BindingsAgree`, `MessagesFramed`,
`ReadyClientsAreValid`, `AuthenticationIsEncrypted`, `EncryptionReplicaAgrees`,
`OneValidationAtATime`, and the action property `EncryptionNeedsOwnAck`.

**GameServer implements ClientLifecycle** (`GameServerLifecycle_proofs`).
`LifecycleIsImplemented` is the refinement, step by step. The stage of a client
depends on its session, the next identifier and the CONNECT that waits;
`StageFrame` says that a step which leaves these alone for all clients but one
moves at most that one. Then there is one lemma per action: the handlers of
CONNECT, DISCONNECT, AUTH, READY and of the answer of the HTTP thread are the
abstract steps of the same names, and every other step goes unnoticed, `Connect`
among them: a client that the simulation has not seen is still absent.

`SessionsStayWithinTheHost` counts. The simulation learns late that a slot was
reused, so sessions cannot be matched with what is in the slots now. The
invariant `Hosted` names for every connection the slot it ever had, and says
that of two connections of one slot the DISCONNECT of the first comes before
the CONNECT of the second in the queue. So no two sessions are of one slot, and
an injection into the finite set of slots bounds their number. MatchFlow lets
clients join within that bound.

**MatchFlow** (`MatchFlow_proofs`). `IInv` adds that what is queued for a
client continues what was sent to it, and that a packet exists only if its flag
is set and carries the stored start tick. A tick appends packets whose flags
were not set, so they come after all that exist (`ConcatIncreasing`).

**SnapshotFlow** (`SnapshotFlow_proofs`). The snapshots of one client are in
order all along their way: seen by it, on the wire, handed to ENet, numbered,
kept by the coalescing, queued. `IInv` compares neighbouring stages
(`WireInOrder`, `ServerInOrder`), so a step disturbs one or two of them, and
says of the way back (`AcksInOrder`) that what an input acknowledges was seen
and that the inputs on their way acknowledge in order. `AcksWereSent` and the
action properties `SnapshotsAdvance` and `AcksAdvance` follow.

**SecureTransport** (`SecureTransport_proofs`). `TransportTypes` holds for any
number of hellos: whatever of ENet's state names a connection names the one
that has the slot. For one hello, `HandshakeInv` follows that connection
through the two queues, the session and the client:

- `Framed`, `Untouched`: of its messages the simulation has still to process
  the CONNECT, then the one HELLO, never a DISCONNECT; until that HELLO is
  processed the session is new and no answer exists. So the keys change once,
  before anyone uses them;
- `KeysKept`: a good answer, queued or sent, means that the session has the
  keys of the hello; the flag means that, and that the client has the answer;
- `ClientFollows`: a client that encrypts does it with these keys, and the
  server's flag is set;
- `DatagramsFit`: every datagram under way is what the filters make of its
  command in clear, or under these keys, and then the flag is set;
- `Issued`: identifiers are new, so a connection starts from nothing.

The steps on the wire leave queues and session alone (`WireStep`), a message of
a former connection leaves everything of the present one alone
(`FitsElsewhere`); what remains is one lemma per action. About the filters three
lemmas are enough: a packet is packed into something that unpacks to it, a
sealed one opens with its key, and with no other key.

**WakeableQueue** (`WakeableQueue_proofs`). `TypeOK /\ NoLostWakeup` is
inductive: the thread falls asleep only in the step that saw the predicate
false. `QueueIsMailbox` proves the refinement of `Mailbox`, step by step: a push
appends to the box, a handled message leaves its head, all else stutters.

**PacketCodec** (`PacketCodec_proofs`). `TypeOK`, which has the cursor within
the bytes that arrived, is inductive by itself: the proof is that each check of
`ByteReader` is made before the cursor moves by the same number of bytes, for
any bytes, widths and limits. The other four theorems are about what the bytes
say, and rest on lemmas about writer and reader:

- `NumberRoundTrip`: a number of any width that is read and written again is
  the same bytes; `FieldIsWritten` is this for a field of any kind, strings
  included; `ShortLength`: the length of a string that fits two bytes is read as
  it was written;
- `ReaderInv`: the fields read so far, written again, are the bytes before the
  cursor (`ReadSoFar`), the values read are values of their kinds
  (`ValuesHeld`), and nothing is left when a packet is accepted (`NothingLeft`).
  `AcceptedBytesAreTheFields` follows at once;
- `SameButIdentifier`: two snapshots whose values differ in the identifier
  differ in the bytes of the identifier; with `ReaderInv` this gives
  `SnapshotsKeepTheirBytes`;
- `ResponseIs` and `Middle` give the place of every field in the bytes of the
  answer, hence `ClientsCanVerify`;
- `OnTrack`: while bytes that a client wrote are read, the cursor stands where
  one of its fields ends, so no check of `ByteReader` fails. Hence
  `ClientsAreUnderstood`, under two hypotheses that name what the property is
  about: what counts as well formed was written, by the layout of a packet of
  that channel, from values of the right kinds and a token within the limit
  (`IsWritten`); and the limit is a number that two bytes can say, as
  `kMaxAuthTokenLength` is. The samples of the run `codec` are such.

The induction theorems of the library take a predicate as a parameter, which the
provers cannot instantiate. The inductions here are over the length of a
sequence, so they are made with sets: `NatMinimum` gives the least element of a
set of counterexamples, `InductionOnNat` follows from it, and each lemma states
its claim as a set of naturals. `ShiftedIs`, `NumbersIs` and `PrefixesAre`
unfold the recursive functions once.

Model-checked only: every liveness property; the prover does not treat fairness.

## 5. What is left out, and the plan

Not modelled, and why:

- the match packets' and the authentication answer's layouts: they are only
  written, field by field without a condition; the throw of `writeString` on a
  text that is too long, since no caller has one;
- the nonces of the encryption and the primitives of libsodium (a sealed
  datagram opens with its key and no other), the loading of the signing seed
  and the rest of the start-up, which runs before any thread;
- time: timeouts are steps that may happen; clock synchronisation, whose calls
  are commented out;
- the wrap of `nextConnectionId`, a `uint32_t`; the inputs, which pile up in
  `pendingInputPacketsQueue` because nothing consumes them yet;
- the metrics publication: its call is commented out, so the program never runs
  its schedule;
- world, entities and game data: stubs and constant tables; the logs; build and
  deployment.

Next: the shared queues without wake-up, refining Mailbox, so that all queues
rest on one abstract specification; the NATS callback as a second producer.
