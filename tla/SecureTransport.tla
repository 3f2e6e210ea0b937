--------------------------- MODULE SecureTransport ----------------------------
(***************************************************************************)
(* The handshake of the secure session seen from the wire: which datagrams *)
(* of one slot of the ENet host are encrypted, under which keys, and who   *)
(* can read them, while keys and flag change on both sides and ENet sends  *)
(* again what was not acknowledged.                                        *)
(*                                                                         *)
(* The keys and the flag of a session are read when a datagram leaves or   *)
(* comes in, not when the packet in it was queued: a packet that is sent   *)
(* again may leave in clear the first time and encrypted the second.       *)
(*                                                                         *)
(* ENet and the client are outside the repository.  Of ENet is assumed:    *)
(* packets are sent again until acknowledged, handed over once and in      *)
(* order; datagrams of a former connection are ignored; a datagram is      *)
(* compressed first and encrypted last.  Of the client: it derives its     *)
(* keys from the answer to its hello, after its ENet acknowledged it, and  *)
(* encrypts from the first encrypted datagram on that it could read.       *)
(***************************************************************************)
EXTENDS DatagramFilters, Sequences

CONSTANTS
  MaxConnections, \* how many connections the slot sees, one after the other
  MaxHellos,      \* how many hellos a client sends on one connection
  CanRefuse,      \* may a hello be refused (its key, or the signature)?
  PayloadSize,    \* bytes of the payload of a packet
  BufferSize      \* size of the buffers ENet gives to the callbacks

MaxDatagram == 1 + PayloadSize

(* The buffers of ENet hold the largest datagram with what encryption adds.*)
ASSUME TransportAssumption ==
  /\ MaxConnections \in Nat /\ MaxHellos \in Nat /\ PayloadSize \in Nat
  /\ CanRefuse \in BOOLEAN
  /\ BufferSize \in Nat /\ BufferSize >= HeaderSize + MaxDatagram + TagSize

VARIABLES
  nextConnectionId, peerData, closing, \* the slot
  sessions,                            \* networkState.sessions
  netToSim, simToNet,                  \* the two queues of the handshake
  helloCount, unacked,                 \* ENet: hellos handed over, answers not acknowledged
  toServer, toClient,                  \* datagrams under way
  client                               \* the client of each connection

slot  == <<nextConnectionId, peerData, closing>>
queues == <<netToSim, simToNet>>
enet  == <<helloCount, unacked>>
wire  == <<toServer, toClient>>
vars  == <<slot, sessions, queues, enet, wire, client>>

-----------------------------------------------------------------------------
(* Values.                                                                 *)

Connections == 1 .. MaxConnections
Hellos == 1 .. MaxHellos

(* crypto_kx_server_session_keys: one key for each direction, of the       *)
(* connection and hello they were derived from; hello 0 stands for zeros.  *)
Key(c, n, direction) == [connection |-> c, hello |-> n, direction |-> direction]

NewSession ==
  [isSecureSessionEstablished |-> FALSE, isPacketEncryptionEnabled |-> FALSE, hello |-> 0]

Session ==
  [isSecureSessionEstablished : BOOLEAN, isPacketEncryptionEnabled : BOOLEAN,
   hello : {0} \cup Hellos]

Answer == [connection : Connections, hello : Hellos, success : BOOLEAN]

(* What a datagram carries: a hello or its answer, the acknowledgement of  *)
(* an answer, any later packet, a ping.                                    *)
Command(type, n, success) == [type |-> type, hello |-> n, success |-> success]
Later == Command("packet", 0, TRUE)
Ping  == Command("ping", 0, TRUE)

Commands ==
  [type : {"hello", "answer", "ack", "packet", "ping"},
   hello : {0} \cup Hellos, success : BOOLEAN]

(* Acknowledgements and pings are headers, the others have a payload too.  *)
Plain(cmd) == Content(cmd, IF cmd.type \in {"ack", "ping"} THEN 1 ELSE 1 + PayloadSize)

(* LZ4_compress_HC brings them to some size, or fails with 0.              *)
ASSUME LZ4Assumption == \A cmd \in Commands : LZ4Size(Plain(cmd)) \in Nat

NewClient ==
  [hellos |-> 0, received |-> 0, answers |-> <<>>, owes |-> {}, keys |-> 0, encrypts |-> FALSE]

Connected(c) == c # 0 /\ peerData = c /\ ~closing

-----------------------------------------------------------------------------
(* The datagrams of the server.                                            *)

(* Mutant of SessionKey: one key for both directions.                      *)
SessionKeyOfSending(c, forOutgoing) == Key(c, sessions[c].hello, "toClient")

SessionKey(c, forOutgoing) ==
  Key(c, sessions[c].hello, IF forOutgoing THEN "toClient" ELSE "toServer")

(* TryLoadSessionKeyIfEnabled finds a key.                                 *)
KeyEnabled(c) == c \in DOMAIN sessions /\ sessions[c].isPacketEncryptionEnabled

EncryptCallback(c, fragments) ==
  IF KeyEnabled(c)
  THEN Encrypt(SessionKey(c, TRUE), fragments, fragments.size, BufferSize)
  ELSE Nothing

DecryptCallback(c, data) ==
  IF KeyEnabled(c) THEN Decrypt(SessionKey(c, FALSE), data, BufferSize) ELSE Nothing

(* ENet: one command in a datagram, compressed if that is shorter.         *)
Packed(cmd) ==
  LET block == Compress(Plain(cmd), Plain(cmd).size, BufferSize)
  IN  IF block = Nothing THEN Plain(cmd) ELSE block

(* ENet: the datagram leaves as the encryption made it, or as it was.      *)
Datagram(c, cmd, cipher) ==
  [connection |-> c, command |-> cmd,
   compressed |-> Packed(cmd).form = "lz4", encrypted |-> cipher # Nothing,
   data |-> IF cipher = Nothing THEN Packed(cmd) ELSE cipher]

(* ENet: what comes out of a datagram, deciphered if that was needed.      *)
Opened(d, deciphered) ==
  LET data == IF d.encrypted THEN deciphered ELSE d.data
  IN  IF d.compressed THEN Decompress(data, BufferSize) ELSE data

ServerDatagram(c, cmd) == Datagram(c, cmd, EncryptCallback(c, Packed(cmd)))
OpenedByServer(d) == Opened(d, DecryptCallback(d.connection, d.data))

(* The client does the same with the keys on its side.                     *)
ClientDatagram(c, cmd) ==
  Datagram(c, cmd,
           IF client[c].encrypts
           THEN Encrypt(Key(c, client[c].keys, "toServer"), Packed(cmd), Packed(cmd).size,
                        BufferSize)
           ELSE Nothing)

OpenedByClientWith(d, n) ==
  Opened(d, IF n = 0 THEN Nothing
            ELSE Decrypt(Key(d.connection, n, "toClient"), d.data, BufferSize))

OpenedByClient(d) == OpenedByClientWith(d, client[d.connection].keys)

-----------------------------------------------------------------------------
(* The slot (network thread).                                              *)

Connect ==
  /\ peerData = 0 /\ nextConnectionId <= MaxConnections
  /\ peerData' = nextConnectionId
  /\ nextConnectionId' = nextConnectionId + 1
  /\ netToSim' = Append(netToSim, [type |-> "CONNECT", connection |-> nextConnectionId])
  /\ UNCHANGED <<closing, sessions, simToNet, enet, wire, client>>

(* The client left, timed out, or was told to leave.  ENet forgets what    *)
(* was on its way.                                                         *)
Disconnect ==
  /\ peerData # 0
  /\ netToSim' = Append(netToSim, [type |-> "DISCONNECT", connection |-> peerData])
  /\ client' = [client EXCEPT ![peerData] = NewClient]
  /\ peerData' = 0 /\ closing' = FALSE
  /\ helloCount' = 0 /\ unacked' = {}
  /\ toServer' = {} /\ toClient' = {}
  /\ UNCHANGED <<nextConnectionId, sessions, simToNet>>

(* Mutant of Deliverable: the connection is not looked up.                *)
DeliverableToAnyone(answer) == peerData # 0

(* FindPeerByConnectionId finds the peer the answer is for.                *)
Deliverable(answer) == Connected(answer.connection)

(* The outgoing tick hands an answer to ENet, if its connection is there.  *)
SendAnswer ==
  /\ simToNet # <<>>
  /\ simToNet' = Tail(simToNet)
  /\ unacked' = unacked \cup {a \in {Head(simToNet)} : Deliverable(a)}
  /\ UNCHANGED <<slot, sessions, netToSim, helloCount, wire, client>>

-----------------------------------------------------------------------------
(* The simulation.                                                         *)

Take(type) ==
  /\ netToSim # <<>> /\ Head(netToSim).type = type
  /\ netToSim' = Tail(netToSim)
  /\ UNCHANGED <<slot, enet, wire, client>>

HandleConnect ==
  /\ Take("CONNECT")
  /\ sessions' = [c \in DOMAIN sessions \cup {Head(netToSim).connection} |->
                    IF c = Head(netToSim).connection THEN NewSession ELSE sessions[c]]
  /\ UNCHANGED simToNet

HandleDisconnect ==
  /\ Take("DISCONNECT")
  /\ sessions' = [c \in DOMAIN sessions \ {Head(netToSim).connection} |-> sessions[c]]
  /\ UNCHANGED simToNet

(* Mutant of KeysAccepted: the flag is set together with the keys.         *)
KeysAcceptedAndUsed(s, n) ==
  [isSecureSessionEstablished |-> TRUE, isPacketEncryptionEnabled |-> TRUE, hello |-> n]

KeysAccepted(s, n) == [s EXCEPT !.isSecureSessionEstablished = TRUE, !.hello = n]

KeysCleared(s)     == [s EXCEPT !.isSecureSessionEstablished = FALSE, !.hello = 0]

(* The keys are stored at once, the flag waits for the acknowledgement of  *)
(* the answer.  A key that is refused leaves the session as it was, a      *)
(* signature that fails clears its keys.                                   *)
HandleHello ==
  LET c == Head(netToSim).connection
      n == Head(netToSim).hello
      Answered(success) ==
        simToNet' = Append(simToNet, [connection |-> c, hello |-> n, success |-> success])
  IN
  /\ Take("HELLO")
  /\ \/ /\ c \notin DOMAIN sessions
        /\ UNCHANGED <<sessions, simToNet>>
     \/ /\ c \in DOMAIN sessions
        /\ sessions' = [sessions EXCEPT ![c] = KeysAccepted(@, n)]
        /\ Answered(TRUE)
     \/ /\ c \in DOMAIN sessions /\ CanRefuse
        /\ \/ UNCHANGED sessions
           \/ sessions' = [sessions EXCEPT ![c] = KeysCleared(@)]
        /\ Answered(FALSE)

Simulate == HandleConnect \/ HandleDisconnect \/ HandleHello

-----------------------------------------------------------------------------
(* Datagrams leaving and coming in at the server.                          *)

ServerCommands ==
  {Later, Ping} \cup {Command("answer", a.hello, a.success) : a \in unacked}

(* ENet sends what is not acknowledged, and sends it again.                *)
ServerEmits(type) ==
  /\ Connected(peerData)
  /\ \E cmd \in ServerCommands :
       /\ cmd.type = type
       /\ toClient' = toClient \cup {ServerDatagram(peerData, cmd)}
  /\ UNCHANGED <<slot, sessions, queues, enet, toServer, client>>

(* ENet hands a hello over once, however often it comes.  One of another   *)
(* version of the protocol ends the connection: see Disconnect.            *)
ReceiveHello(n) ==
  /\ IF n = helloCount + 1
     THEN /\ helloCount' = n
          /\ netToSim' = Append(netToSim, [type |-> "HELLO", connection |-> peerData,
                                           hello |-> n])
     ELSE UNCHANGED <<helloCount, netToSim>>
  /\ UNCHANGED <<closing, sessions, unacked>>

(* Mutant of SetPeerEncryptionEnabled: the session is not told.            *)
EncryptionEnabledInTableOnly(c) == sessions

(* The session of the connection, if there is one, is told.                *)
SetPeerEncryptionEnabled(c) ==
  IF c \in DOMAIN sessions
  THEN [sessions EXCEPT ![c].isPacketEncryptionEnabled = TRUE]
  ELSE sessions

(* The acknowledgement of an answer runs the actions of its context.       *)
ReceiveAck(n) ==
  /\ IF \E a \in unacked : a.hello = n
     THEN LET a == CHOOSE a \in unacked : a.hello = n IN
          /\ unacked' = unacked \ {a}
          /\ sessions' = IF a.success THEN SetPeerEncryptionEnabled(a.connection) ELSE sessions
          /\ closing' = ~a.success
     ELSE UNCHANGED <<unacked, sessions, closing>>
  /\ UNCHANGED <<helloCount, netToSim>>

(* A datagram arrives.  One that cannot be opened is dropped.              *)
ServerReceives(type) ==
  /\ Connected(peerData)
  /\ \E d \in toServer :
       /\ d.command.type = type
       /\ toServer' = toServer \ {d}
       /\ \/ OpenedByServer(d) = Plain(d.command) /\ type = "hello"
             /\ ReceiveHello(d.command.hello)
          \/ OpenedByServer(d) = Plain(d.command) /\ type = "ack"
             /\ ReceiveAck(d.command.hello)
          \/ /\ OpenedByServer(d) # Plain(d.command) \/ type = "packet"
             /\ UNCHANGED <<closing, sessions, netToSim, enet>>
  /\ UNCHANGED <<nextConnectionId, peerData, simToNet, toClient, client>>

-----------------------------------------------------------------------------
(* The client.                                                             *)

(* The application says hello, for the first time or again.                *)
SayHello ==
  /\ Connected(peerData)
  /\ client[peerData].hellos < MaxHellos
  /\ client' = [client EXCEPT ![peerData].hellos = @ + 1]
  /\ UNCHANGED <<slot, sessions, queues, enet, wire>>

(* Its ENet sends a hello until the answer comes, and acknowledges every   *)
(* answer as often as it comes.                                            *)
ClientCommands(k) ==
  {Later} \cup {Command("ack", n, TRUE) : n \in k.owes}
          \cup {Command("hello", n, TRUE) : n \in k.received + 1 .. k.hellos}

ClientEmits(type) ==
  /\ Connected(peerData)
  /\ \E cmd \in ClientCommands(client[peerData]) :
       /\ cmd.type = type
       /\ toServer' = toServer \cup {ClientDatagram(peerData, cmd)}
       /\ client' = [client EXCEPT ![peerData].owes = IF type = "ack" THEN @ \ {cmd.hello} ELSE @]
  /\ UNCHANGED <<slot, sessions, queues, enet, toClient>>

(* What a datagram that could be opened does to the client.                *)
AfterDatagram(k, d) ==
  LET n == d.command.hello
      heard == [k EXCEPT !.encrypts = @ \/ d.encrypted]
  IN  IF d.command.type = "answer" /\ n <= k.received + 1
      THEN [heard EXCEPT !.owes = @ \cup {n},
                         !.received = IF n > @ THEN n ELSE @,
                         !.answers = IF n > k.received THEN Append(@, d.command) ELSE @]
      ELSE heard

ClientReceives(type) ==
  /\ Connected(peerData)
  /\ \E d \in toClient :
       /\ d.command.type = type
       /\ toClient' = toClient \ {d}
       /\ client' = [client EXCEPT ![peerData] =
                       IF OpenedByClient(d) = Plain(d.command) THEN AfterDatagram(@, d) ELSE @]
  /\ UNCHANGED <<slot, sessions, queues, enet, toServer>>

(* The application reads an answer; with a good one it derives its keys.   *)
ReadAnswer ==
  /\ Connected(peerData)
  /\ client[peerData].answers # <<>>
  /\ LET answer == Head(client[peerData].answers) IN
       client' = [client EXCEPT ![peerData].answers = Tail(@),
                                ![peerData].keys = IF answer.success THEN answer.hello ELSE @]
  /\ UNCHANGED <<slot, sessions, queues, enet, wire>>

(* The wire loses what it likes.                                           *)
Lose ==
  /\ \/ \E d \in toServer : toServer' = toServer \ {d} /\ UNCHANGED toClient
     \/ \E d \in toClient : toClient' = toClient \ {d} /\ UNCHANGED toServer
  /\ UNCHANGED <<slot, sessions, queues, enet, client>>

-----------------------------------------------------------------------------

Init ==
  /\ nextConnectionId = 1 /\ peerData = 0 /\ closing = FALSE
  /\ sessions = [c \in {} |-> NewSession]
  /\ netToSim = <<>> /\ simToNet = <<>>
  /\ helloCount = 0 /\ unacked = {}
  /\ toServer = {} /\ toClient = {}
  /\ client = [c \in Connections |-> NewClient]

ToServer == {"hello", "ack", "packet"}
ToClient == {"answer", "packet", "ping"}

Next ==
  \/ Connect \/ Disconnect \/ SendAnswer
  \/ Simulate
  \/ \E type \in ToClient : ServerEmits(type) \/ ClientReceives(type)
  \/ \E type \in ToServer : ClientEmits(type) \/ ServerReceives(type)
  \/ SayHello \/ ReadAnswer
  \/ Lose

Spec == Init /\ [][Next]_vars

(* The threads run, ENet sends again until it is acknowledged, what is     *)
(* sent again and again arrives, and a connection that is being closed     *)
(* ends.                                                                   *)
FairSpec ==
  /\ Spec
  /\ WF_vars(SendAnswer) /\ WF_vars(Simulate)
  /\ WF_vars(closing /\ Disconnect)
  /\ WF_vars(ReadAnswer)
  /\ \A type \in ToClient : WF_vars(ServerEmits(type)) /\ SF_vars(ClientReceives(type))
  /\ \A type \in ToServer : WF_vars(ClientEmits(type)) /\ SF_vars(ServerReceives(type))

-----------------------------------------------------------------------------

(* Every variable holds what the code, or ENet, keeps in it; answers and   *)
(* datagrams are those of the connection that has the slot.                *)
TypeOK ==
  /\ nextConnectionId \in 1 .. MaxConnections + 1
  /\ peerData \in {0} \cup Connections /\ closing \in BOOLEAN
  /\ DOMAIN sessions \subseteq Connections
  /\ \A c \in DOMAIN sessions : sessions[c] \in Session
  /\ \A i \in DOMAIN netToSim : netToSim[i].connection \in Connections
  /\ simToNet \in Seq(Answer)
  /\ helloCount \in {0} \cup Hellos /\ unacked \subseteq Answer
  /\ \A m \in unacked \cup toServer \cup toClient : m.connection = peerData

(* What the server encrypts can be read by its client: it is sealed with   *)
(* keys of an answer that the client has received, and comes out as it     *)
(* went in.  enet_send_packets.cpp:464 gives this as the reason for which  *)
(* the encryption waits for the acknowledgement.                           *)
ServerIsUnderstood ==
  \A d \in toClient : d.encrypted =>
    \E n \in 1 .. client[d.connection].received : OpenedByClientWith(d, n) = Plain(d.command)

(* The server can open whatever its client sends, in clear or encrypted,   *)
(* early or late: no packet is lost to the change of the flag.             *)
ClientIsUnderstood ==
  \A d \in toServer : OpenedByServer(d) = Plain(d.command)

(* Once the server has encrypted a datagram of a connection it sends none  *)
(* in clear any more, packets that are sent again included.                *)
NeverBackToClear ==
  [][\A d \in toClient' \ toClient :
       (client[d.connection].encrypts \/ \E e \in toClient : e.encrypted) => d.encrypted]_vars

(* Every hello leads to a connection that is encrypted in both directions, *)
(* or to its end, whatever datagrams are lost on the way.                  *)
HandshakeCompletes ==
  \A c \in Connections :
    (peerData = c /\ client[c].hellos > 0)
      ~> (peerData # c \/ (client[c].encrypts /\ KeyEnabled(c)))
=============================================================================
