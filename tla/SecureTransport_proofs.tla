---------------------- MODULE SecureTransport_proofs --------------------------
(***************************************************************************)
(* The handshake of the secure session, for any number of connections and  *)
(* any sizes: the types hold however many hellos a client sends, and with  *)
(* one hello on a connection both sides can read each other throughout the *)
(* switch to encryption.  (With two they cannot: the run rehello.)         *)
(*                                                                         *)
(* The invariant follows the connection that has the slot through the two  *)
(* queues, the session and the client: the flag of the session is set only *)
(* when the keys are those of the hello and the client has the answer; no  *)
(* step takes either away again; and every datagram under way is in clear, *)
(* or was made with those keys.                                            *)
(***************************************************************************)
EXTENDS SecureTransport, SequenceTheorems, TLAPS

-----------------------------------------------------------------------------
(* Types.                                                                  *)

Message ==
  [type : {"CONNECT", "DISCONNECT"}, connection : Connections]
    \cup [type : {"HELLO"}, connection : Connections, hello : Hellos]

ServerCommand == {Later, Ping} \cup [type : {"answer"}, hello : Hellos, success : BOOLEAN]
ClientCommand == {Later} \cup [type : {"ack", "hello"}, hello : Hellos, success : {TRUE}]

Client ==
  [hellos : {0} \cup Hellos, received : {0} \cup Hellos, owes : SUBSET Hellos,
   answers : Seq([type : {"answer"}, hello : Hellos, success : BOOLEAN]),
   keys : {0} \cup Hellos, encrypts : BOOLEAN]

TypeInv ==
  /\ TypeOK
  /\ netToSim \in Seq(Message)
  /\ client \in [Connections -> Client]
  /\ \A d \in toServer : d.command \in ClientCommand
  /\ \A d \in toClient : d.command \in ServerCommand
  /\ peerData = 0 => unacked = {} /\ toServer = {} /\ toClient = {}

-----------------------------------------------------------------------------
(* One hello on a connection.                                              *)

(* A datagram of one side, in clear or under the keys of the hello.        *)
Clear(c, cmd) == Datagram(c, cmd, Nothing)
Ciphered(c, cmd, direction) ==
  Datagram(c, cmd, Sealed(Packed(cmd), HeaderSize + Packed(cmd).size + TagSize,
                          Key(c, 1, direction)))

Waits(type, c) ==
  \E i \in 1 .. Len(netToSim) : netToSim[i].type = type /\ netToSim[i].connection = c

(* No answer to the connection that has the slot, queued or sent.          *)
NoAnswer ==
  /\ \A i \in 1 .. Len(simToNet) : simToNet[i].connection # peerData
  /\ unacked = {}

(* Identifiers are handed out once.                                        *)
Issued ==
  /\ peerData < nextConnectionId
  /\ \A c \in DOMAIN sessions : c < nextConnectionId
  /\ \A i \in 1 .. Len(netToSim) : netToSim[i].connection < nextConnectionId
  /\ \A i \in 1 .. Len(simToNet) : simToNet[i].connection < nextConnectionId
  /\ \A c \in Connections : c # peerData => client[c] = NewClient

(* Of the connection that has the slot the simulation has still to process *)
(* its beginning, then one hello, and no end.                              *)
Framed ==
  /\ ~Waits("DISCONNECT", peerData)
  /\ \A i, j \in 1 .. Len(netToSim) :
       (i < j /\ netToSim[i].connection = peerData /\ netToSim[j].connection = peerData)
         => netToSim[i].type = "CONNECT" /\ netToSim[j].type = "HELLO"
  /\ Waits("CONNECT", peerData) => peerData \notin DOMAIN sessions /\ NoAnswer
  /\ Waits("HELLO", peerData) => helloCount = 1

(* Until its hello is processed, nothing happened to the session.          *)
Untouched ==
  helloCount = 0 \/ Waits("HELLO", peerData) =>
    /\ NoAnswer
    /\ peerData \in DOMAIN sessions => sessions[peerData] = NewSession

(* A good answer promises keys that the session has; the flag says that    *)
(* the client has received it.                                             *)
KeysKept ==
  peerData \in DOMAIN sessions =>
    /\ \A i \in 1 .. Len(simToNet) :
         simToNet[i].connection = peerData /\ simToNet[i].success => sessions[peerData].hello = 1
    /\ \A a \in unacked : a.success => sessions[peerData].hello = 1
    /\ KeyEnabled(peerData) =>
         sessions[peerData].hello = 1 /\ client[peerData].received = 1

(* The client acknowledges what it received, and encrypts with the keys    *)
(* that the server uses.                                                   *)
ClientFollows ==
  peerData # 0 =>
    /\ client[peerData].owes # {} => client[peerData].received = 1
    /\ client[peerData].encrypts => client[peerData].keys = 1 /\ KeyEnabled(peerData)

DatagramsFit ==
  /\ \A d \in toClient :
       \/ d = Clear(peerData, d.command)
       \/ d = Ciphered(peerData, d.command, "toClient") /\ KeyEnabled(peerData)
  /\ \A d \in toServer :
       /\ \/ d = Clear(peerData, d.command)
          \/ d = Ciphered(peerData, d.command, "toServer") /\ KeyEnabled(peerData)
       /\ d.command.type = "ack" => client[peerData].received = 1

HandshakeInv ==
  /\ TypeInv /\ Issued /\ Framed /\ Untouched /\ KeysKept /\ ClientFollows /\ DatagramsFit

-----------------------------------------------------------------------------
(* Datagrams.                                                              *)

LEMMA PackedFacts ==
  ASSUME NEW cmd \in Commands
  PROVE  /\ Packed(cmd).size \in Nat /\ Packed(cmd).size <= MaxDatagram
         /\ Packed(cmd).form \in {"content", "lz4"}
         /\ Packed(cmd) # Nothing
         /\ CopyInBuffers(Packed(cmd), Packed(cmd).size) = Packed(cmd)
         /\ IF Packed(cmd).form = "lz4"
            THEN Decompress(Packed(cmd), BufferSize) = Plain(cmd)
            ELSE Packed(cmd) = Plain(cmd)
<1> DEFINE plain == Plain(cmd)
<1>1. /\ plain = Content(cmd, plain.size) /\ plain.form = "content"
      /\ plain.size \in Nat /\ plain.size > 0 /\ plain.size <= MaxDatagram
      /\ MaxDatagram \in Nat /\ MaxDatagram <= BufferSize /\ BufferSize \in Nat
  BY TransportAssumption, FiltersAssumption DEF Plain, Content, MaxDatagram
<1>2. LZ4Size(plain) \in Nat
  BY LZ4Assumption
<1> HIDE DEF plain
<1>3. CopyInBuffers(plain, plain.size) = plain /\ plain # Nothing
  BY <1>1 DEF CopyInBuffers, Content, Nothing
<1> DEFINE block == Compress(plain, plain.size, BufferSize)
<1>4. block = Nothing \/ (block = Block(plain, LZ4Size(plain)) /\ LZ4Size(plain) < plain.size)
  BY <1>3 DEF Compress
<1>5. Packed(cmd) = IF block = Nothing THEN plain ELSE block
  BY DEF Packed, plain
<1>6. CASE Packed(cmd) = plain
  BY <1>1, <1>3, <1>6 DEF plain
<1>7. CASE Packed(cmd) = Block(plain, LZ4Size(plain)) /\ LZ4Size(plain) < plain.size
  <2> DEFINE b == Block(plain, LZ4Size(plain))
  <2>1. /\ b.size = LZ4Size(plain) /\ b.form = "lz4" /\ b.of = plain
        /\ CopyInBuffers(b, b.size) = b /\ b # Nothing
    BY <1>1, <1>2 DEF Block, CopyInBuffers, Nothing
  <2>2. Decompress(b, BufferSize) = plain
    BY <1>1, <2>1 DEF Decompress
  <2> HIDE DEF b
  <2> QED  BY <1>1, <1>2, <1>7, <2>1, <2>2 DEF b, plain
<1> QED  BY <1>4, <1>5, <1>6, <1>7

(* A command under one key is opened with this key and with no other.      *)
LEMMA CipherFacts ==
  ASSUME NEW cmd \in Commands, NEW key
  PROVE  LET sealed == Sealed(Packed(cmd), HeaderSize + Packed(cmd).size + TagSize, key) IN
         /\ Encrypt(key, Packed(cmd), Packed(cmd).size, BufferSize) = sealed
         /\ sealed # Nothing
         /\ \A other : Decrypt(other, sealed, BufferSize) =
                         IF key = other THEN Packed(cmd) ELSE Nothing
<1> DEFINE p == Packed(cmd)
           sealed == Sealed(p, HeaderSize + p.size + TagSize, key)
<1>1. /\ p.size \in Nat /\ p.size <= MaxDatagram /\ p # Nothing
      /\ CopyInBuffers(p, p.size) = p
  BY PackedFacts
<1>2. /\ HeaderSize \in Nat /\ TagSize \in Nat /\ MaxDatagram \in Nat /\ BufferSize \in Nat
      /\ HeaderSize + MaxDatagram + TagSize <= BufferSize
  BY FiltersAssumption, TransportAssumption DEF MaxDatagram
<1> HIDE DEF p
<1>3. HeaderSize + p.size + TagSize <= BufferSize
  BY <1>1, <1>2
<1>4. Encrypt(key, p, p.size, BufferSize) = sealed
  BY <1>1, <1>3 DEF Encrypt
<1>5. /\ sealed.form = "sealed" /\ sealed.key = key /\ sealed.of = p
      /\ sealed.size = HeaderSize + p.size + TagSize
      /\ sealed # Nothing
  BY DEF Sealed, Nothing
<1> HIDE DEF sealed
<1>6. sealed.size >= HeaderSize + TagSize /\ sealed.size - HeaderSize - TagSize <= BufferSize
  BY <1>1, <1>2, <1>3, <1>5
<1>7. \A other : Decrypt(other, sealed, BufferSize) = IF key = other THEN p ELSE Nothing
  BY <1>5, <1>6 DEF Decrypt
<1> QED  BY <1>4, <1>5, <1>7 DEF sealed, p

LEMMA OpenedFacts ==
  ASSUME NEW cmd \in Commands, NEW c, NEW cipher, cipher # Nothing
  PROVE  /\ Opened(Datagram(c, cmd, cipher), Packed(cmd)) = Plain(cmd)
         /\ Opened(Datagram(c, cmd, cipher), Nothing) # Plain(cmd)
<1>1. /\ Packed(cmd).form \in {"content", "lz4"}
      /\ IF Packed(cmd).form = "lz4"
            THEN Decompress(Packed(cmd), BufferSize) = Plain(cmd)
            ELSE Packed(cmd) = Plain(cmd)
  BY PackedFacts
<1>2. Plain(cmd) # Nothing /\ Decompress(Nothing, BufferSize) = Nothing
  BY DEF Plain, Content, Nothing, Decompress
<1> QED  BY <1>1, <1>2 DEF Opened, Datagram

LEMMA DatagramFields ==
  ASSUME NEW cmd, NEW c, NEW cipher
  PROVE  /\ Datagram(c, cmd, cipher).connection = c /\ Datagram(c, cmd, cipher).command = cmd
         /\ Datagram(c, cmd, cipher).encrypted = (cipher # Nothing)
         /\ Datagram(c, cmd, cipher).data = IF cipher = Nothing THEN Packed(cmd) ELSE cipher
BY DEF Datagram

LEMMA CommandTypes ==
  /\ ServerCommand \subseteq Commands /\ ClientCommand \subseteq Commands
  /\ Later \in Commands /\ Ping \in Commands
<1>1. Later \in Commands /\ Ping \in Commands
  BY DEF Commands, Later, Ping, Command
<1>2. [type : {"answer"}, hello : Hellos, success : BOOLEAN] \subseteq Commands
  BY DEF Commands
<1>3. [type : {"ack", "hello"}, hello : Hellos, success : {TRUE}] \subseteq Commands
  BY DEF Commands
<1> QED  BY <1>1, <1>2, <1>3 DEF ServerCommand, ClientCommand

-----------------------------------------------------------------------------
(* Type correctness.                                                       *)

LEMMA NewClientType == NewClient \in Client
BY DEF NewClient, Client

LEMMA TypeInit == Init => TypeInv
<1> SUFFICES ASSUME Init PROVE TypeInv
  OBVIOUS
<1>1. client \in [Connections -> Client]
  BY NewClientType DEF Init
<1>2. /\ nextConnectionId \in 1 .. MaxConnections + 1
      /\ DOMAIN sessions = {} /\ DOMAIN netToSim = {}
  BY TransportAssumption DEF Init
<1>3. netToSim \in Seq(Message) /\ simToNet \in Seq(Answer)
  BY DEF Init
<1> QED  BY <1>1, <1>2, <1>3 DEF Init, TypeInv, TypeOK

LEMMA MessageConnections ==
  ASSUME NEW q \in Seq(Message)
  PROVE  \A i \in DOMAIN q : q[i].connection \in Connections
<1>1. DOMAIN q = 1 .. Len(q) /\ \A i \in 1 .. Len(q) : q[i] \in Message
  BY LenProperties, ElementOfSeq
<1> QED  BY <1>1 DEF Message

LEMMA MessagePushed ==
  ASSUME TypeInv, NEW m \in Message
  PROVE  Append(netToSim, m) \in Seq(Message)
BY AppendProperties DEF TypeInv

LEMMA TypeConnect ==
  ASSUME TypeInv, Connect
  PROVE  TypeInv'
<1> USE TransportAssumption
<1>1. nextConnectionId \in Connections /\ nextConnectionId' \in 1 .. MaxConnections + 1
  BY DEF Connect, TypeInv, TypeOK, Connections
<1> DEFINE m == [type |-> "CONNECT", connection |-> nextConnectionId]
<1>2. m \in Message /\ netToSim' = Append(netToSim, m)
  BY <1>1 DEF Message, Connect
<1> HIDE DEF m
<1>3. netToSim' \in Seq(Message)
  BY <1>2, MessagePushed
<1>4. unacked = {} /\ toServer = {} /\ toClient = {}
  BY DEF Connect, TypeInv
<1>5. peerData' # 0
  BY <1>1 DEF Connect, Connections
<1>6. \A i \in DOMAIN netToSim' : netToSim'[i].connection \in Connections
  BY <1>3, MessageConnections
<1> QED
  BY <1>1, <1>3, <1>4, <1>5, <1>6 DEF Connect, TypeInv, TypeOK, enet, wire

LEMMA TypeDisconnect ==
  ASSUME TypeInv, Disconnect
  PROVE  TypeInv'
<1>1. peerData \in Connections
  BY DEF Disconnect, TypeInv, TypeOK
<1> DEFINE m == [type |-> "DISCONNECT", connection |-> peerData]
<1>2. m \in Message /\ netToSim' = Append(netToSim, m)
  BY <1>1 DEF Message, Disconnect
<1> HIDE DEF m
<1>3. netToSim' \in Seq(Message)
  BY <1>2, MessagePushed
<1>4. \A i \in DOMAIN netToSim' : netToSim'[i].connection \in Connections
  BY <1>3, MessageConnections
<1>5. client' \in [Connections -> Client]
  BY NewClientType DEF Disconnect, TypeInv
<1> QED
  BY <1>3, <1>4, <1>5 DEF Disconnect, TypeInv, TypeOK

LEMMA TypeSendAnswer ==
  ASSUME TypeInv, SendAnswer
  PROVE  TypeInv'
<1>1. Head(simToNet) \in Answer /\ simToNet' \in Seq(Answer)
  BY HeadTailProperties DEF SendAnswer, TypeInv, TypeOK
<1>2. /\ unacked' \subseteq Answer
      /\ \A a \in unacked' : a.connection = peerData /\ peerData # 0
  BY <1>1 DEF SendAnswer, Deliverable, Connected, TypeInv, TypeOK
<1> QED
  BY <1>1, <1>2 DEF SendAnswer, TypeInv, TypeOK, slot, wire

LEMMA TypeSimulate ==
  ASSUME TypeInv, Simulate
  PROVE  TypeInv'
<1> DEFINE m == Head(netToSim)
           c == Head(netToSim).connection
<1>1. /\ netToSim # <<>> /\ netToSim' = Tail(netToSim)
      /\ UNCHANGED <<slot, enet, wire, client>>
  BY DEF Simulate, HandleConnect, HandleDisconnect, HandleHello, Take
<1>2. m \in Message /\ netToSim' \in Seq(Message)
  BY <1>1, HeadTailProperties DEF TypeInv
<1>3. c \in Connections
  BY <1>2 DEF Message
<1>4. \A i \in DOMAIN netToSim' : netToSim'[i].connection \in Connections
  BY <1>2, MessageConnections
<1>5. ASSUME DOMAIN sessions' \subseteq Connections,
             \A d \in DOMAIN sessions' : sessions'[d] \in Session,
             simToNet' \in Seq(Answer)
      PROVE  TypeInv'
  BY <1>1, <1>2, <1>4, <1>5 DEF TypeInv, TypeOK, slot, enet, wire
<1>6. simToNet \in Seq(Answer) /\ \A d \in DOMAIN sessions : sessions[d] \in Session
      /\ DOMAIN sessions \subseteq Connections
  BY DEF TypeInv, TypeOK
<1>7. CASE HandleConnect
  <2>1. NewSession \in Session  BY DEF NewSession, Session
  <2> QED  BY <1>3, <1>5, <1>6, <1>7, <2>1 DEF HandleConnect
<1>8. CASE HandleDisconnect
  BY <1>5, <1>6, <1>8 DEF HandleDisconnect
<1>9. CASE HandleHello
  <2> DEFINE n == m.hello
  <2>1. n \in Hellos
    BY <1>2, <1>9 DEF HandleHello, Take, Message
  <2>2. ASSUME NEW success \in BOOLEAN
        PROVE  Append(simToNet, [connection |-> c, hello |-> n, success |-> success]) \in Seq(Answer)
    <3>1. [connection |-> c, hello |-> n, success |-> success] \in Answer
      BY <1>3, <2>1 DEF Answer
    <3> HIDE DEF c, n
    <3> QED  BY <1>6, <3>1, AppendProperties
  <2>3. \A s \in Session : KeysAccepted(s, n) \in Session /\ KeysCleared(s) \in Session
    BY <2>1 DEF Session, KeysAccepted, KeysCleared
  <2>4. /\ \/ sessions' = sessions
           \/ c \in DOMAIN sessions /\ sessions' = [sessions EXCEPT ![c] = KeysAccepted(sessions[c], n)]
           \/ c \in DOMAIN sessions /\ sessions' = [sessions EXCEPT ![c] = KeysCleared(sessions[c])]
        /\ \/ simToNet' = simToNet
           \/ \E success \in BOOLEAN :
                simToNet' = Append(simToNet, [connection |-> c, hello |-> n, success |-> success])
    BY <1>9 DEF HandleHello
  <2>5. simToNet' \in Seq(Answer)
    BY <1>6, <2>2, <2>4
  <2> HIDE DEF c, n
  <2>6. DOMAIN sessions' \subseteq Connections /\ \A d \in DOMAIN sessions' : sessions'[d] \in Session
    BY <1>6, <2>3, <2>4
  <2> QED  BY <1>5, <2>5, <2>6
<1> QED  BY <1>7, <1>8, <1>9 DEF Simulate

LEMMA TypeServerEmits ==
  ASSUME TypeInv, NEW type, ServerEmits(type)
  PROVE  TypeInv'
<1>1. PICK cmd \in ServerCommands : toClient' = toClient \cup {ServerDatagram(peerData, cmd)}
  BY DEF ServerEmits
<1>2. cmd \in ServerCommand
  BY <1>1 DEF ServerCommands, ServerCommand, Command, TypeInv, TypeOK, Answer
<1>3. /\ ServerDatagram(peerData, cmd).connection = peerData
      /\ ServerDatagram(peerData, cmd).command = cmd
  BY DatagramFields DEF ServerDatagram
<1>4. peerData # 0
  BY DEF ServerEmits, Connected
<1> QED
  BY <1>1, <1>2, <1>3, <1>4 DEF ServerEmits, TypeInv, TypeOK, slot, queues, enet

LEMMA TypeServerReceives ==
  ASSUME TypeInv, NEW type, ServerReceives(type)
  PROVE  TypeInv'
<1>1. PICK d \in toServer :
        /\ d.command.type = type
        /\ toServer' = toServer \ {d}
        /\ \/ type = "hello" /\ ReceiveHello(d.command.hello)
           \/ type = "ack" /\ ReceiveAck(d.command.hello)
           \/ UNCHANGED <<closing, sessions, netToSim, enet>>
  BY DEF ServerReceives
<1>2. peerData \in Connections
  BY DEF ServerReceives, Connected, TypeInv, TypeOK
<1>3. UNCHANGED <<nextConnectionId, peerData, simToNet, toClient, client>>
  BY DEF ServerReceives
<1>4. d.command \in ClientCommand  BY DEF TypeInv
<1>5. CASE type = "hello" /\ ReceiveHello(d.command.hello)
  <2> DEFINE m == [type |-> "HELLO", connection |-> peerData, hello |-> d.command.hello]
  <2>1. d.command.hello \in Hellos
    <3>1. CASE d.command = Later
      BY <1>1, <1>5, <3>1 DEF Later, Command
    <3>2. CASE d.command \in [type : {"ack", "hello"}, hello : Hellos, success : {TRUE}]
      BY <3>2
    <3> QED  BY <1>4, <3>1, <3>2 DEF ClientCommand
  <2>2. m \in Message  BY <1>2, <2>1 DEF Message
  <2>3. netToSim' = netToSim \/ netToSim' = Append(netToSim, m)
    BY <1>5 DEF ReceiveHello
  <2> HIDE DEF m
  <2>4. netToSim' \in Seq(Message)
    BY <2>2, <2>3, MessagePushed DEF TypeInv
  <2>5. \A i \in DOMAIN netToSim' : netToSim'[i].connection \in Connections
    BY <2>4, MessageConnections
  <2>6. helloCount' \in {0} \cup Hellos
    BY <1>5, <2>1 DEF ReceiveHello, TypeInv, TypeOK
  <2> QED  BY <1>1, <1>3, <1>5, <2>4, <2>5, <2>6 DEF ReceiveHello, TypeInv, TypeOK
<1>6. CASE type = "ack" /\ ReceiveAck(d.command.hello)
  <2>1. \/ UNCHANGED <<unacked, sessions, closing>>
        \/ \E a \in unacked :
             /\ unacked' = unacked \ {a}
             /\ sessions' = IF a.success THEN SetPeerEncryptionEnabled(a.connection) ELSE sessions
             /\ closing' = ~a.success
    BY <1>6 DEF ReceiveAck
  <2>2. /\ \A e \in DOMAIN sessions : sessions[e] \in Session
        /\ DOMAIN sessions \subseteq Connections
    BY DEF TypeInv, TypeOK
  <2>3. \A e \in DOMAIN sessions :
          [sessions[e] EXCEPT !.isPacketEncryptionEnabled = TRUE] \in Session
    BY <2>2 DEF Session
  <2>4. DOMAIN sessions' \subseteq Connections /\ \A e \in DOMAIN sessions' : sessions'[e] \in Session
    BY <2>1, <2>2, <2>3 DEF SetPeerEncryptionEnabled
  <2>5. closing' \in BOOLEAN /\ unacked' \subseteq unacked
    BY <2>1 DEF TypeInv, TypeOK, Answer
  <2> QED
    BY <1>1, <1>3, <1>6, <2>4, <2>5 DEF ReceiveAck, TypeInv, TypeOK
<1>7. CASE UNCHANGED <<closing, sessions, netToSim, enet>>
  BY <1>1, <1>3, <1>7 DEF TypeInv, TypeOK, enet
<1> QED  BY <1>1, <1>5, <1>6, <1>7

LEMMA TypeSayHello ==
  ASSUME TypeInv, SayHello
  PROVE  TypeInv'
<1> DEFINE k == client[peerData]
<1>1. peerData \in Connections /\ k \in Client
  BY DEF SayHello, Connected, TypeInv, TypeOK
<1>2. k.hellos + 1 \in Hellos
  BY <1>1, TransportAssumption DEF SayHello, Client, Hellos
<1>3. [k EXCEPT !.hellos = k.hellos + 1] \in Client
  BY <1>1, <1>2 DEF Client
<1>4. client' \in [Connections -> Client]
  BY <1>1, <1>3 DEF SayHello, TypeInv
<1> QED
  BY <1>4 DEF SayHello, TypeInv, TypeOK, slot, queues, enet, wire

LEMMA TypeClientEmits ==
  ASSUME TypeInv, NEW type, ClientEmits(type)
  PROVE  TypeInv'
<1> DEFINE k == client[peerData]
<1>1. peerData \in Connections /\ k \in Client
  BY DEF ClientEmits, Connected, TypeInv, TypeOK
<1>2. PICK cmd \in ClientCommands(k) :
        /\ toServer' = toServer \cup {ClientDatagram(peerData, cmd)}
        /\ client' = [client EXCEPT ![peerData].owes = IF type = "ack" THEN @ \ {cmd.hello} ELSE @]
  BY DEF ClientEmits
<1>3. cmd \in ClientCommand
  <2>1. k.owes \subseteq Hellos /\ k.received + 1 .. k.hellos \subseteq Hellos
    BY <1>1, TransportAssumption DEF Client, Hellos
  <2>2. \A n \in Hellos : /\ Command("ack", n, TRUE) \in ClientCommand
                          /\ Command("hello", n, TRUE) \in ClientCommand
    BY DEF Command, ClientCommand
  <2> QED  BY <1>2, <2>1, <2>2 DEF ClientCommands, ClientCommand
<1>4. /\ ClientDatagram(peerData, cmd).connection = peerData
      /\ ClientDatagram(peerData, cmd).command = cmd
  BY DatagramFields DEF ClientDatagram
<1>5. \A owed \in SUBSET Hellos : [k EXCEPT !.owes = owed] \in Client
  BY <1>1 DEF Client
<1>6. k.owes \in SUBSET Hellos
  BY <1>1 DEF Client
<1>7. client' \in [Connections -> Client]
  BY <1>1, <1>2, <1>5, <1>6 DEF TypeInv
<1>8. peerData # 0
  BY DEF ClientEmits, Connected
<1> QED
  BY <1>2, <1>3, <1>4, <1>7, <1>8 DEF ClientEmits, TypeInv, TypeOK, slot, queues, enet

LEMMA TypeClientReceives ==
  ASSUME TypeInv, NEW type, ClientReceives(type)
  PROVE  TypeInv'
<1> DEFINE k == client[peerData]
<1>1. peerData \in Connections /\ k \in Client
  BY DEF ClientReceives, Connected, TypeInv, TypeOK
<1>2. PICK d \in toClient :
        /\ toClient' = toClient \ {d}
        /\ \/ client' = client
           \/ client' = [client EXCEPT ![peerData] = AfterDatagram(k, d)]
  <2>1. PICK d \in toClient :
          /\ toClient' = toClient \ {d}
          /\ client' = [client EXCEPT ![peerData] =
                          IF OpenedByClient(d) = Plain(d.command) THEN AfterDatagram(@, d) ELSE @]
    BY DEF ClientReceives
  <2>2. CASE OpenedByClient(d) = Plain(d.command)
    BY <2>1, <2>2
  <2>3. CASE OpenedByClient(d) # Plain(d.command)
    BY <2>1, <2>3, <1>1 DEF TypeInv
  <2> QED  BY <2>2, <2>3
<1>3. d.command \in ServerCommand  BY DEF TypeInv
<1>4. AfterDatagram(k, d) \in Client
  <2> DEFINE heard == [k EXCEPT !.encrypts = k.encrypts \/ d.encrypted]
             n == d.command.hello
  <2>1. heard \in Client
    BY <1>1 DEF Client
  <2>2. heard.received = k.received /\ heard.owes = k.owes /\ heard.answers = k.answers
    BY <1>1 DEF Client
  <2>3. CASE ~(d.command.type = "answer" /\ n <= k.received + 1)
    BY <2>1, <2>3 DEF AfterDatagram
  <2>4. CASE d.command.type = "answer" /\ n <= k.received + 1
    <3>1. d.command \in [type : {"answer"}, hello : Hellos, success : BOOLEAN]
      BY <1>3, <2>4 DEF ServerCommand, Later, Ping, Command
    <3> HIDE DEF heard
    <3>2. /\ heard.owes \cup {n} \in SUBSET Hellos
          /\ (IF n > heard.received THEN n ELSE heard.received) \in {0} \cup Hellos
          /\ (IF n > k.received THEN Append(heard.answers, d.command) ELSE heard.answers)
               \in Seq([type : {"answer"}, hello : Hellos, success : BOOLEAN])
      BY <2>1, <3>1, AppendProperties DEF Client
    <3>3. AfterDatagram(k, d) =
            [heard EXCEPT !.owes = heard.owes \cup {n},
                          !.received = IF n > heard.received THEN n ELSE heard.received,
                          !.answers = IF n > k.received THEN Append(heard.answers, d.command)
                                      ELSE heard.answers]
      BY <2>4 DEF AfterDatagram, heard
    <3> QED  BY <2>1, <3>2, <3>3 DEF Client
  <2> QED  BY <2>3, <2>4
<1> HIDE DEF k
<1>5. client' \in [Connections -> Client]
  BY <1>1, <1>2, <1>4 DEF TypeInv
<1> QED
  BY <1>2, <1>5 DEF ClientReceives, TypeInv, TypeOK, slot, queues, enet

LEMMA TypeReadAnswer ==
  ASSUME TypeInv, ReadAnswer
  PROVE  TypeInv'
<1> DEFINE k == client[peerData]
           A == [type : {"answer"}, hello : Hellos, success : BOOLEAN]
<1>1. peerData \in Connections /\ k \in Client /\ k.answers # <<>>
  BY DEF ReadAnswer, Connected, TypeInv, TypeOK
<1>2. k.answers \in Seq(A) /\ k.keys \in {0} \cup Hellos
  BY <1>1 DEF Client
<1>3. Head(k.answers) \in A /\ Tail(k.answers) \in Seq(A)
  <2> HIDE DEF k, A
  <2> QED  BY <1>1, <1>2, HeadTailProperties
<1> DEFINE keys == IF Head(k.answers).success THEN Head(k.answers).hello ELSE k.keys
<1>4. keys \in {0} \cup Hellos
  BY <1>2, <1>3
<1>5. client' = [client EXCEPT ![peerData] =
                  [k EXCEPT !.answers = Tail(k.answers), !.keys = keys]]
  BY <1>1 DEF ReadAnswer, TypeInv, Client
<1>6. [k EXCEPT !.answers = Tail(k.answers), !.keys = keys] \in Client
  <2> HIDE DEF keys
  <2> QED  BY <1>1, <1>3, <1>4 DEF Client
<1>7. client' \in [Connections -> Client]
  BY <1>1, <1>5, <1>6 DEF TypeInv
<1> QED
  BY <1>7 DEF ReadAnswer, TypeInv, TypeOK, slot, queues, enet, wire

LEMMA TypeStep ==
  ASSUME TypeInv, [Next]_vars
  PROVE  TypeInv'
<1>1. CASE UNCHANGED vars
  BY <1>1 DEF vars, slot, queues, enet, wire, TypeInv, TypeOK
<1>2. CASE Lose
  BY <1>2 DEF Lose, slot, queues, enet, TypeInv, TypeOK
<1> QED
  BY <1>1, <1>2, TypeConnect, TypeDisconnect, TypeSendAnswer, TypeSimulate, TypeServerEmits,
     TypeServerReceives, TypeSayHello, TypeClientEmits, TypeClientReceives, TypeReadAnswer
     DEF Next

(* Answers and datagrams are those of the connection that has the slot:    *)
(* nothing of a connection reaches the one that comes after it.            *)
THEOREM TransportTypes == Spec => []TypeOK
<1>1. TypeInv => TypeOK
  BY DEF TypeInv
<1> QED  BY <1>1, TypeInit, TypeStep, PTL DEF Spec

-----------------------------------------------------------------------------
(* One hello on a connection: the datagrams.                               *)

LEMMA OneHello ==
  ASSUME MaxHellos = 1
  PROVE  Hellos = {1}
BY DEF Hellos

LEMMA ConnectionsArePositive ==
  Connections \subseteq Nat \ {0}
BY TransportAssumption DEF Connections

LEMMA ClearFacts ==
  ASSUME NEW cmd \in Commands, NEW c
  PROVE  /\ Clear(c, cmd).connection = c /\ Clear(c, cmd).command = cmd
         /\ ~Clear(c, cmd).encrypted
         /\ \A deciphered : Opened(Clear(c, cmd), deciphered) = Plain(cmd)
<1>1. IF Packed(cmd).form = "lz4"
      THEN Decompress(Packed(cmd), BufferSize) = Plain(cmd)
      ELSE Packed(cmd) = Plain(cmd)
  BY PackedFacts
<1>2. \A deciphered : Opened(Clear(c, cmd), deciphered) = Plain(cmd)
  BY <1>1 DEF Opened, Clear, Datagram
<1>3. ~Clear(c, cmd).encrypted
  BY DEF Clear, Datagram
<1>4. Clear(c, cmd).connection = c /\ Clear(c, cmd).command = cmd
  BY DEF Clear, Datagram
<1> QED  BY <1>2, <1>3, <1>4

LEMMA CipheredFacts ==
  ASSUME NEW cmd \in Commands, NEW c, NEW direction
  PROVE  /\ Ciphered(c, cmd, direction).connection = c
         /\ Ciphered(c, cmd, direction).command = cmd
         /\ Ciphered(c, cmd, direction).encrypted
         /\ Opened(Ciphered(c, cmd, direction),
                   Decrypt(Key(c, 1, direction), Ciphered(c, cmd, direction).data, BufferSize))
              = Plain(cmd)
         /\ Opened(Ciphered(c, cmd, direction), Nothing) # Plain(cmd)
<1> DEFINE sealed == Sealed(Packed(cmd), HeaderSize + Packed(cmd).size + TagSize,
                            Key(c, 1, direction))
<1>1. /\ sealed # Nothing
      /\ Decrypt(Key(c, 1, direction), sealed, BufferSize) = Packed(cmd)
  BY CipherFacts
<1>2. Ciphered(c, cmd, direction) = Datagram(c, cmd, sealed)
  BY DEF Ciphered
<1> HIDE DEF sealed
<1>3. Ciphered(c, cmd, direction).encrypted
  <2>1. Datagram(c, cmd, sealed).encrypted
    BY <1>1 DEF Datagram
  <2> QED  BY <1>2, <2>1, Zenon
<1>4. /\ Ciphered(c, cmd, direction).connection = c
      /\ Ciphered(c, cmd, direction).command = cmd
      /\ Ciphered(c, cmd, direction).data = sealed
  BY <1>1, <1>2 DEF Datagram
<1>5. /\ Opened(Datagram(c, cmd, sealed), Packed(cmd)) = Plain(cmd)
      /\ Opened(Datagram(c, cmd, sealed), Nothing) # Plain(cmd)
  BY <1>1, OpenedFacts
<1> QED  BY <1>1, <1>2, <1>3, <1>4, <1>5

(* What the server sends now is in clear, or encrypted because of the flag.*)
LEMMA ServerDatagramFits ==
  ASSUME KeysKept, NEW cmd \in Commands
  PROVE  IF KeyEnabled(peerData)
         THEN ServerDatagram(peerData, cmd) = Ciphered(peerData, cmd, "toClient")
         ELSE ServerDatagram(peerData, cmd) = Clear(peerData, cmd)
<1>1. CASE KeyEnabled(peerData)
  <2>1. SessionKey(peerData, TRUE) = Key(peerData, 1, "toClient")
    BY <1>1 DEF KeysKept, KeyEnabled, SessionKey
  <2>2. EncryptCallback(peerData, Packed(cmd)) =
          Sealed(Packed(cmd), HeaderSize + Packed(cmd).size + TagSize,
                 Key(peerData, 1, "toClient"))
    BY <1>1, <2>1, CipherFacts DEF EncryptCallback
  <2> QED  BY <1>1, <2>2 DEF ServerDatagram, Ciphered
<1>2. CASE ~KeyEnabled(peerData)
  BY <1>2 DEF ServerDatagram, Clear, EncryptCallback
<1> QED  BY <1>1, <1>2

(* So is what the client sends.                                            *)
LEMMA ClientDatagramFits ==
  ASSUME ClientFollows, peerData # 0, NEW cmd \in Commands
  PROVE  IF client[peerData].encrypts
         THEN /\ ClientDatagram(peerData, cmd) = Ciphered(peerData, cmd, "toServer")
              /\ KeyEnabled(peerData)
         ELSE ClientDatagram(peerData, cmd) = Clear(peerData, cmd)
<1>1. CASE client[peerData].encrypts
  <2>1. client[peerData].keys = 1 /\ KeyEnabled(peerData)
    BY <1>1 DEF ClientFollows
  <2>2. Encrypt(Key(peerData, 1, "toServer"), Packed(cmd), Packed(cmd).size, BufferSize) =
          Sealed(Packed(cmd), HeaderSize + Packed(cmd).size + TagSize,
                 Key(peerData, 1, "toServer"))
    BY CipherFacts
  <2> QED  BY <1>1, <2>1, <2>2 DEF ClientDatagram, Ciphered
<1>2. CASE ~client[peerData].encrypts
  BY <1>2 DEF ClientDatagram, Clear
<1> QED  BY <1>1, <1>2

-----------------------------------------------------------------------------
(* One hello on a connection: the steps on the wire, of which the queues   *)
(* and the session know nothing.                                           *)

LEMMA WireStep ==
  ASSUME HandshakeInv, TypeInv', ClientFollows', DatagramsFit',
         UNCHANGED <<slot, sessions, queues, enet>>,
         \A c \in Connections : c # peerData => client'[c] = client[c],
         peerData # 0 => client'[peerData].received \in {client[peerData].received, 1}
  PROVE  HandshakeInv'
<1> USE DEF HandshakeInv, slot, queues, enet
<1>1. Issued'
  BY DEF Issued
<1>2. Framed' /\ Untouched'
  BY DEF Framed, Untouched, Waits, NoAnswer
<1>3. KeysKept'
  BY ConnectionsArePositive DEF KeysKept, KeyEnabled, TypeInv, TypeOK
<1> QED  BY <1>1, <1>2, <1>3

LEMMA FitsServerEmits ==
  ASSUME HandshakeInv, NEW type, ServerEmits(type)
  PROVE  HandshakeInv'
<1>1. TypeInv'
  BY TypeServerEmits DEF HandshakeInv
<1>2. PICK cmd \in ServerCommands : toClient' = toClient \cup {ServerDatagram(peerData, cmd)}
  BY DEF ServerEmits
<1>3. ServerDatagram(peerData, cmd).command = cmd
  BY DatagramFields DEF ServerDatagram
<1>4. cmd \in Commands
  BY <1>1, <1>2, <1>3, CommandTypes DEF TypeInv
<1>5. UNCHANGED <<slot, sessions, queues, enet, toServer, client>>
  BY DEF ServerEmits
<1>6. DatagramsFit'
  BY <1>2, <1>3, <1>4, <1>5, ServerDatagramFits
     DEF HandshakeInv, DatagramsFit, KeyEnabled, slot
<1>7. ClientFollows'
  BY <1>5 DEF HandshakeInv, ClientFollows, KeyEnabled, slot
<1> QED  BY <1>1, <1>5, <1>6, <1>7, WireStep

LEMMA FitsClientEmits ==
  ASSUME HandshakeInv, NEW type, ClientEmits(type)
  PROVE  HandshakeInv'
<1>1. TypeInv'
  BY TypeClientEmits DEF HandshakeInv
<1>2. /\ peerData \in Connections /\ peerData # 0
      /\ client \in [Connections -> Client] /\ client[peerData] \in Client
  BY DEF ClientEmits, Connected, HandshakeInv, TypeInv, TypeOK
<1>3. PICK cmd \in ClientCommands(client[peerData]) :
        /\ cmd.type = type
        /\ toServer' = toServer \cup {ClientDatagram(peerData, cmd)}
        /\ client' = [client EXCEPT ![peerData].owes = IF type = "ack" THEN @ \ {cmd.hello} ELSE @]
  BY DEF ClientEmits
<1>4. ClientDatagram(peerData, cmd).command = cmd
  BY DatagramFields DEF ClientDatagram
<1>5. cmd \in Commands
  BY <1>1, <1>3, <1>4, CommandTypes DEF TypeInv
<1>6. UNCHANGED <<slot, sessions, queues, enet, toClient>>
  BY DEF ClientEmits
<1>7. /\ client'[peerData].received = client[peerData].received
      /\ client'[peerData].keys = client[peerData].keys
      /\ client'[peerData].encrypts = client[peerData].encrypts
      /\ client'[peerData].owes \subseteq client[peerData].owes
      /\ \A c \in Connections : c # peerData => client'[c] = client[c]
  BY <1>2, <1>3 DEF Client
<1>8. cmd.type = "ack" => client[peerData].received = 1
  BY <1>2, <1>3 DEF ClientCommands, Command, Later, HandshakeInv, ClientFollows
<1>9. DatagramsFit'
  <2>1. /\ \/ ClientDatagram(peerData, cmd) = Clear(peerData, cmd)
           \/ /\ ClientDatagram(peerData, cmd) = Ciphered(peerData, cmd, "toServer")
              /\ KeyEnabled(peerData)
    BY <1>2, <1>5, ClientDatagramFits DEF HandshakeInv
  <2> QED
    BY <1>3, <1>4, <1>6, <1>7, <1>8, <2>1 DEF HandshakeInv, DatagramsFit, KeyEnabled, slot
<1>10. ClientFollows'
  BY <1>6, <1>7 DEF HandshakeInv, ClientFollows, KeyEnabled, slot
<1> QED  BY <1>1, <1>6, <1>7, <1>9, <1>10, WireStep

LEMMA FitsSayHello ==
  ASSUME HandshakeInv, SayHello
  PROVE  HandshakeInv'
<1>1. TypeInv'
  BY TypeSayHello DEF HandshakeInv
<1>2. /\ peerData \in Connections /\ peerData # 0
      /\ client \in [Connections -> Client] /\ client[peerData] \in Client
  BY DEF SayHello, Connected, HandshakeInv, TypeInv, TypeOK
<1>3. UNCHANGED <<slot, sessions, queues, enet, wire>>
  BY DEF SayHello
<1>4. /\ client'[peerData].received = client[peerData].received
      /\ client'[peerData].keys = client[peerData].keys
      /\ client'[peerData].encrypts = client[peerData].encrypts
      /\ client'[peerData].owes = client[peerData].owes
      /\ \A c \in Connections : c # peerData => client'[c] = client[c]
  BY <1>2 DEF SayHello, Client
<1>5. DatagramsFit' /\ ClientFollows'
  BY <1>3, <1>4 DEF HandshakeInv, DatagramsFit, ClientFollows, KeyEnabled, slot, wire
<1> QED  BY <1>1, <1>3, <1>4, <1>5, WireStep

LEMMA FitsReadAnswer ==
  ASSUME MaxHellos = 1, HandshakeInv, ReadAnswer
  PROVE  HandshakeInv'
<1>1. TypeInv'
  BY TypeReadAnswer DEF HandshakeInv
<1>2. /\ peerData \in Connections /\ peerData # 0
      /\ client \in [Connections -> Client] /\ client[peerData] \in Client
  BY DEF ReadAnswer, Connected, HandshakeInv, TypeInv, TypeOK
<1>3. UNCHANGED <<slot, sessions, queues, enet, wire>>
  BY DEF ReadAnswer
<1>4. PICK answers, keys :
        client' = [client EXCEPT ![peerData] =
                     [client[peerData] EXCEPT !.answers = answers, !.keys = keys]]
  <2> DEFINE answer == Head(client[peerData].answers)
             keys == IF answer.success THEN answer.hello ELSE client[peerData].keys
  <2>1. client' = [client EXCEPT ![peerData] =
                     [client[peerData] EXCEPT !.answers = Tail(client[peerData].answers),
                                              !.keys = keys]]
    BY <1>2 DEF ReadAnswer, Client
  <2> QED  BY <2>1
<1>5. /\ client'[peerData].received = client[peerData].received
      /\ client'[peerData].encrypts = client[peerData].encrypts
      /\ client'[peerData].owes = client[peerData].owes
      /\ \A c \in Connections : c # peerData => client'[c] = client[c]
  BY <1>2, <1>4 DEF Client
<1>6. client[peerData].keys = 1 => client'[peerData].keys = 1
  <2>1. PICK a \in [type : {"answer"}, hello : Hellos, success : BOOLEAN] :
          a = Head(client[peerData].answers)
    <3>1. client[peerData].answers \in Seq([type : {"answer"}, hello : Hellos, success : BOOLEAN])
      BY <1>2 DEF Client
    <3>2. client[peerData].answers # <<>>
      BY DEF ReadAnswer
    <3> QED  BY <3>1, <3>2, HeadTailProperties
  <2>2. a.hello = 1
    BY <2>1, OneHello
  <2>3. client'[peerData].keys = IF a.success THEN a.hello ELSE client[peerData].keys
    BY <1>2, <2>1 DEF ReadAnswer, Client
  <2> QED  BY <2>2, <2>3
<1>7. DatagramsFit' /\ ClientFollows'
  BY <1>3, <1>5, <1>6 DEF HandshakeInv, DatagramsFit, ClientFollows, KeyEnabled, slot, wire
<1> QED  BY <1>1, <1>3, <1>5, <1>7, WireStep

(* The client reads an encrypted datagram only with the keys of its hello. *)
LEMMA FitsClientReceives ==
  ASSUME MaxHellos = 1, HandshakeInv, NEW type, ClientReceives(type)
  PROVE  HandshakeInv'
<1>1. TypeInv'
  BY TypeClientReceives DEF HandshakeInv
<1>2. /\ peerData \in Connections /\ peerData # 0
      /\ client \in [Connections -> Client] /\ client[peerData] \in Client
  BY DEF ClientReceives, Connected, HandshakeInv, TypeInv, TypeOK
<1>3. UNCHANGED <<slot, sessions, queues, enet, toServer>>
  BY DEF ClientReceives
<1>4. PICK d \in toClient :
        /\ toClient' = toClient \ {d}
        /\ client' = [client EXCEPT ![peerData] =
                        IF OpenedByClient(d) = Plain(d.command) THEN AfterDatagram(@, d) ELSE @]
  BY DEF ClientReceives
<1>5. /\ d.command \in ServerCommand /\ d.command \in Commands
      /\ d.connection = peerData
      /\ \/ d = Clear(peerData, d.command)
         \/ d = Ciphered(peerData, d.command, "toClient") /\ KeyEnabled(peerData)
  BY CommandTypes DEF HandshakeInv, TypeInv, TypeOK, DatagramsFit
<1>6. client[peerData].keys \in {0, 1} /\ client[peerData].received \in {0, 1}
  BY <1>2, OneHello DEF Client
<1>7. ASSUME OpenedByClient(d) = Plain(d.command)
      PROVE  /\ d.encrypted => client[peerData].keys = 1 /\ KeyEnabled(peerData)
             /\ \A c \in Connections : c # peerData => client'[c] = client[c]
             /\ client'[peerData].received \in {client[peerData].received, 1}
             /\ client'[peerData].keys = client[peerData].keys
             /\ client'[peerData].encrypts => client[peerData].encrypts \/ d.encrypted
             /\ client'[peerData].owes # client[peerData].owes => client'[peerData].received = 1
  <2>1. d.encrypted => client[peerData].keys = 1 /\ KeyEnabled(peerData)
    <3>1. CASE d = Clear(peerData, d.command)
      BY <1>5, <3>1, ClearFacts
    <3>2. CASE d = Ciphered(peerData, d.command, "toClient") /\ KeyEnabled(peerData)
      <4>1. Opened(d, Nothing) # Plain(d.command)
        BY <1>5, <3>2, CipheredFacts
      <4> QED  BY <1>5, <1>6, <1>7, <3>2, <4>1 DEF OpenedByClient, OpenedByClientWith
    <3> QED  BY <1>5, <3>1, <3>2
  <2>2. client' = [client EXCEPT ![peerData] = AfterDatagram(client[peerData], d)]
    BY <1>4, <1>7
  <2>3. d.command.type = "answer" => d.command.hello = 1
    <3>1. CASE d.command \in [type : {"answer"}, hello : Hellos, success : BOOLEAN]
      BY <3>1, OneHello
    <3>2. CASE d.command \in {Later, Ping}
      BY <3>2 DEF Later, Ping, Command
    <3> QED  BY <1>5, <3>1, <3>2 DEF ServerCommand
  <2> DEFINE k == client[peerData]
             after == AfterDatagram(k, d)
  <2>4. /\ after.received \in {k.received, 1} /\ after.keys = k.keys
        /\ after.encrypts = (k.encrypts \/ d.encrypted)
        /\ after.owes # k.owes => after.received = 1
    <3>1. CASE d.command.type = "answer"
      BY <1>2, <1>6, <2>3, <3>1 DEF AfterDatagram, Client
    <3>2. CASE d.command.type # "answer"
      BY <1>2, <3>2 DEF AfterDatagram, Client
    <3> QED  BY <3>1, <3>2
  <2> HIDE DEF after
  <2>5. client'[peerData] = after /\ \A c \in Connections : c # peerData => client'[c] = client[c]
    BY <1>2, <2>2 DEF after
  <2> QED  BY <2>1, <2>4, <2>5
<1>8. ASSUME OpenedByClient(d) # Plain(d.command)
      PROVE  client' = client
  BY <1>2, <1>4, <1>8
<1>9. ClientFollows' /\ DatagramsFit'
  BY <1>3, <1>4, <1>7, <1>8 DEF HandshakeInv, ClientFollows, DatagramsFit, KeyEnabled, slot
<1> QED  BY <1>1, <1>3, <1>7, <1>8, <1>9, WireStep

LEMMA FitsLose ==
  ASSUME HandshakeInv, Lose
  PROVE  HandshakeInv'
<1>1. /\ UNCHANGED <<slot, sessions, queues, enet, client>>
      /\ toServer' \subseteq toServer /\ toClient' \subseteq toClient
  BY DEF Lose
<1>2. TypeInv'
  BY TypeStep DEF Next, HandshakeInv
<1>3. ClientFollows' /\ DatagramsFit'
  BY <1>1 DEF HandshakeInv, ClientFollows, DatagramsFit, KeyEnabled, slot
<1> QED  BY <1>1, <1>2, <1>3, WireStep

-----------------------------------------------------------------------------
(* One hello on a connection: the steps of the slot and of the queues.     *)

LEMMA QueuePushed ==
  ASSUME netToSim \in Seq(Message), NEW m \in Message, netToSim' = Append(netToSim, m)
  PROVE  /\ Len(netToSim) \in Nat /\ Len(netToSim') = Len(netToSim) + 1
         /\ \A i \in 1 .. Len(netToSim) : netToSim'[i] = netToSim[i]
         /\ netToSim'[Len(netToSim) + 1] = m
BY AppendProperties, LenProperties

LEMMA QueueTaken ==
  ASSUME netToSim \in Seq(Message), netToSim # <<>>, netToSim' = Tail(netToSim)
  PROVE  /\ Head(netToSim) \in Message /\ Head(netToSim) = netToSim[1]
         /\ Len(netToSim) \in Nat \ {0} /\ Len(netToSim') = Len(netToSim) - 1
         /\ \A i \in 1 .. Len(netToSim') : netToSim'[i] = netToSim[i + 1]
         /\ \A i \in 1 .. Len(netToSim) : netToSim[i] \in Message
BY HeadTailProperties, LenProperties, ElementOfSeq, EmptySeq

(* All that is queued, sent or kept is of a former connection: the next    *)
(* one starts from nothing.                                                *)
LEMMA FitsConnect ==
  ASSUME HandshakeInv, Connect
  PROVE  HandshakeInv'
<1>1. TypeInv'
  BY TypeConnect DEF HandshakeInv
<1> DEFINE c == nextConnectionId
<1>2. /\ peerData = 0 /\ peerData' = c /\ nextConnectionId' = c + 1
      /\ c \in Connections /\ c \in Nat \ {0}
      /\ unacked = {} /\ toServer = {} /\ toClient = {}
      /\ UNCHANGED <<sessions, simToNet, helloCount, unacked, toServer, toClient, client>>
  BY TransportAssumption DEF Connect, HandshakeInv, TypeInv, TypeOK, Connections, enet, wire
<1>3. /\ \A d \in DOMAIN sessions : d \in Nat /\ d < c
      /\ \A i \in 1 .. Len(netToSim) : netToSim[i].connection \in Nat /\ netToSim[i].connection < c
      /\ \A i \in 1 .. Len(simToNet) : simToNet[i].connection \in Nat /\ simToNet[i].connection < c
      /\ \A d \in Connections : client[d] = NewClient
  <2>1. \A i \in 1 .. Len(netToSim) : netToSim[i].connection \in Connections
    BY MessageConnections, LenProperties DEF HandshakeInv, TypeInv
  <2>2. \A i \in 1 .. Len(simToNet) : simToNet[i] \in Answer
    BY ElementOfSeq DEF HandshakeInv, TypeInv, TypeOK
  <2>3. \A d \in Connections : d # peerData
    BY <1>2, ConnectionsArePositive
  <2> QED
    BY <1>2, <2>1, <2>2, <2>3, ConnectionsArePositive
       DEF HandshakeInv, Issued, TypeInv, TypeOK, Answer
<1> DEFINE m == [type |-> "CONNECT", connection |-> c]
<1>4. /\ Len(netToSim) \in Nat /\ Len(netToSim') = Len(netToSim) + 1
      /\ \A i \in 1 .. Len(netToSim) : netToSim'[i] = netToSim[i]
      /\ netToSim'[Len(netToSim) + 1] = [type |-> "CONNECT", connection |-> c]
  <2>1. m \in Message /\ netToSim' = Append(netToSim, m)
    BY <1>2 DEF Message, Connect
  <2>2. netToSim \in Seq(Message)
    BY DEF HandshakeInv, TypeInv
  <2> HIDE DEF m
  <2>3. /\ Len(netToSim) \in Nat /\ Len(netToSim') = Len(netToSim) + 1
        /\ \A i \in 1 .. Len(netToSim) : netToSim'[i] = netToSim[i]
        /\ netToSim'[Len(netToSim) + 1] = m
    BY <2>1, <2>2, QueuePushed
  <2> QED  BY <2>3 DEF m
<1> HIDE DEF c, m
<1>5. c \notin DOMAIN sessions /\ NoAnswer'
  BY <1>2, <1>3 DEF NoAnswer
<1>6. Issued'
  BY <1>2, <1>3, <1>4 DEF Issued
<1>7. Framed'
  BY <1>2, <1>3, <1>4, <1>5 DEF Framed, Waits
<1>8. Untouched' /\ KeysKept'
  BY <1>2, <1>5 DEF Untouched, KeysKept
<1>9. ClientFollows' /\ DatagramsFit'
  BY <1>2, <1>3 DEF ClientFollows, DatagramsFit, NewClient
<1> QED  BY <1>1, <1>6, <1>7, <1>8, <1>9 DEF HandshakeInv

LEMMA FitsDisconnect ==
  ASSUME HandshakeInv, Disconnect
  PROVE  HandshakeInv'
<1>1. TypeInv'
  BY TypeDisconnect DEF HandshakeInv
<1> DEFINE m == [type |-> "DISCONNECT", connection |-> peerData]
<1>2. /\ peerData \in Connections /\ peerData \in Nat \ {0} /\ peerData' = 0
      /\ unacked' = {} /\ toServer' = {} /\ toClient' = {}
      /\ UNCHANGED <<nextConnectionId, sessions, simToNet>>
      /\ \A d \in Connections : client'[d] = NewClient
  BY ConnectionsArePositive DEF Disconnect, HandshakeInv, Issued, TypeInv, TypeOK
<1>3. /\ Len(netToSim) \in Nat /\ Len(netToSim') = Len(netToSim) + 1
      /\ \A i \in 1 .. Len(netToSim) : netToSim'[i] = netToSim[i]
      /\ netToSim'[Len(netToSim) + 1].connection = peerData
  <2>1. m \in Message /\ netToSim' = Append(netToSim, m) /\ m.connection = peerData
    BY <1>2 DEF Message, Disconnect
  <2>2. netToSim \in Seq(Message)
    BY DEF HandshakeInv, TypeInv
  <2> HIDE DEF m
  <2> QED  BY <2>1, <2>2, QueuePushed
<1>4. \A i \in 1 .. Len(netToSim') : netToSim'[i].connection # 0
  BY <1>1, MessageConnections, LenProperties, ConnectionsArePositive DEF TypeInv
<1>5. /\ \A i \in 1 .. Len(simToNet) : simToNet[i].connection # 0
      /\ 0 \notin DOMAIN sessions /\ nextConnectionId > 0
  <2>1. \A i \in 1 .. Len(simToNet) : simToNet[i] \in Answer
    BY ElementOfSeq DEF HandshakeInv, TypeInv, TypeOK
  <2> QED
    BY <2>1, ConnectionsArePositive DEF HandshakeInv, TypeInv, TypeOK, Answer
<1>6. Issued'
  <2>1. \A i \in 1 .. Len(netToSim') : netToSim'[i].connection < nextConnectionId
    BY <1>3 DEF HandshakeInv, Issued
  <2>2. /\ \A d \in DOMAIN sessions : d < nextConnectionId
        /\ \A i \in 1 .. Len(simToNet) : simToNet[i].connection < nextConnectionId
    BY DEF HandshakeInv, Issued
  <2> QED  BY <1>2, <1>5, <2>1, <2>2 DEF Issued
<1>7. Framed'
  BY <1>2, <1>4 DEF Framed, Waits
<1>8. Untouched' /\ KeysKept'
  BY <1>2, <1>5 DEF Untouched, KeysKept, NoAnswer
<1>9. ClientFollows' /\ DatagramsFit'
  BY <1>2 DEF ClientFollows, DatagramsFit
<1> QED  BY <1>1, <1>6, <1>7, <1>8, <1>9 DEF HandshakeInv

LEMMA FitsSendAnswer ==
  ASSUME HandshakeInv, SendAnswer
  PROVE  HandshakeInv'
<1>1. TypeInv'
  BY TypeSendAnswer DEF HandshakeInv
<1>2. /\ Len(simToNet) \in Nat \ {0} /\ Head(simToNet) = simToNet[1]
      /\ Len(simToNet') = Len(simToNet) - 1
      /\ \A i \in 1 .. Len(simToNet') : simToNet'[i] = simToNet[i + 1]
  BY HeadTailProperties, LenProperties, EmptySeq DEF SendAnswer, HandshakeInv, TypeInv, TypeOK
<1>3. /\ UNCHANGED <<nextConnectionId, peerData, sessions, netToSim, helloCount, wire, client>>
      /\ \A a \in unacked' : a \in unacked \/ (a = simToNet[1] /\ a.connection = peerData)
  BY <1>2 DEF SendAnswer, Deliverable, Connected, slot
<1>4. NoAnswer => NoAnswer'
  BY <1>2, <1>3 DEF NoAnswer
<1>5. Issued'
  BY <1>2, <1>3 DEF HandshakeInv, Issued
<1>6. Framed' /\ Untouched'
  BY <1>3, <1>4 DEF HandshakeInv, Framed, Untouched, Waits
<1>7. KeysKept'
  BY <1>2, <1>3 DEF HandshakeInv, KeysKept, KeyEnabled
<1>8. ClientFollows' /\ DatagramsFit'
  BY <1>3 DEF HandshakeInv, ClientFollows, DatagramsFit, KeyEnabled, wire
<1> QED  BY <1>1, <1>5, <1>6, <1>7, <1>8 DEF HandshakeInv

(* A message leaves the queue: what is said of the queue stays true of     *)
(* what is left of it.                                                     *)
LEMMA FramedTaken ==
  ASSUME HandshakeInv, NEW type, Take(type)
  PROVE  /\ Head(netToSim) \in Message /\ Head(netToSim).type = type
         /\ Head(netToSim).connection \in Connections
         /\ Head(netToSim).connection < nextConnectionId
         /\ UNCHANGED <<slot, enet, wire, client>>
         /\ \A i \in 1 .. Len(netToSim') : netToSim'[i].connection < nextConnectionId
         /\ \A t, c : Waits(t, c)' => Waits(t, c)
         /\ Waits(type, Head(netToSim).connection)
         /\ \A i, j \in 1 .. Len(netToSim') :
              (i < j /\ netToSim'[i].connection = peerData /\ netToSim'[j].connection = peerData)
                => netToSim'[i].type = "CONNECT" /\ netToSim'[j].type = "HELLO"
         /\ Head(netToSim).connection = peerData =>
              /\ type # "DISCONNECT"
              /\ ~Waits(type, peerData)'
              /\ ~Waits("CONNECT", peerData)'
<1>1. /\ netToSim \in Seq(Message) /\ netToSim # <<>> /\ netToSim' = Tail(netToSim)
      /\ Head(netToSim).type = type /\ UNCHANGED <<slot, enet, wire, client>>
  BY DEF Take, HandshakeInv, TypeInv
<1>2. /\ Head(netToSim) \in Message /\ Head(netToSim) = netToSim[1]
      /\ Len(netToSim) \in Nat \ {0} /\ Len(netToSim') = Len(netToSim) - 1
      /\ \A i \in 1 .. Len(netToSim') : netToSim'[i] = netToSim[i + 1]
  BY <1>1, QueueTaken
<1>3. Head(netToSim).connection \in Connections
  BY <1>2 DEF Message
<1>4. /\ \A i \in 1 .. Len(netToSim') : netToSim'[i].connection < nextConnectionId
      /\ Head(netToSim).connection < nextConnectionId
  BY <1>2 DEF HandshakeInv, Issued
<1>5. \A t, c : Waits(t, c)' => Waits(t, c)
  BY <1>2 DEF Waits
<1>6. Waits(type, Head(netToSim).connection)
  BY <1>1, <1>2 DEF Waits
<1>7. \A i, j \in 1 .. Len(netToSim') :
        (i < j /\ netToSim'[i].connection = peerData /\ netToSim'[j].connection = peerData)
          => netToSim'[i].type = "CONNECT" /\ netToSim'[j].type = "HELLO"
  BY <1>2 DEF HandshakeInv, Framed
<1>8. ASSUME Head(netToSim).connection = peerData
      PROVE  /\ type # "DISCONNECT"
             /\ ~Waits(type, peerData)'
             /\ ~Waits("CONNECT", peerData)'
  <2>1. type # "DISCONNECT"
    BY <1>6, <1>8 DEF HandshakeInv, Framed
  <2>2. \A i \in 1 .. Len(netToSim') :
          netToSim'[i].connection = peerData => type = "CONNECT" /\ netToSim'[i].type = "HELLO"
    <3> TAKE i \in 1 .. Len(netToSim')
    <3> HAVE netToSim'[i].connection = peerData
    <3>1. /\ i + 1 \in 1 .. Len(netToSim) /\ 1 \in 1 .. Len(netToSim) /\ 1 < i + 1
          /\ netToSim'[i] = netToSim[i + 1]
      BY <1>2
    <3> QED  BY <1>1, <1>2, <1>8, <3>1 DEF HandshakeInv, Framed
  <2>3. peerData' = peerData
    BY <1>1 DEF slot
  <2> QED  BY <2>1, <2>2, <2>3 DEF Waits
<1> QED  BY <1>1, <1>2, <1>3, <1>4, <1>5, <1>6, <1>7, <1>8

(* A message of a former connection changes nothing for the one that has   *)
(* the slot.                                                               *)
LEMMA FitsElsewhere ==
  ASSUME HandshakeInv, TypeInv', NEW type, Take(type), NEW c,
         c = Head(netToSim).connection, c # peerData,
         DOMAIN sessions' \subseteq DOMAIN sessions \cup {c},
         peerData \in DOMAIN sessions' <=> peerData \in DOMAIN sessions,
         peerData \in DOMAIN sessions => sessions'[peerData] = sessions[peerData],
         \A i \in 1 .. Len(simToNet') :
           \/ simToNet'[i].connection = c
           \/ \E j \in 1 .. Len(simToNet) : simToNet'[i] = simToNet[j]
  PROVE  HandshakeInv'
<1>1. /\ c < nextConnectionId
      /\ UNCHANGED <<slot, enet, wire, client>>
      /\ \A i \in 1 .. Len(netToSim') : netToSim'[i].connection < nextConnectionId
      /\ \A t, d : Waits(t, d)' => Waits(t, d)
      /\ \A i, j \in 1 .. Len(netToSim') :
           (i < j /\ netToSim'[i].connection = peerData /\ netToSim'[j].connection = peerData)
             => netToSim'[i].type = "CONNECT" /\ netToSim'[j].type = "HELLO"
  BY FramedTaken
<1>2. UNCHANGED <<nextConnectionId, peerData, helloCount, unacked, toServer, toClient, client>>
  BY <1>1 DEF slot, enet, wire
<1>3. NoAnswer => NoAnswer'
  BY <1>2 DEF NoAnswer
<1>4. KeyEnabled(peerData)' <=> KeyEnabled(peerData)
  BY <1>2 DEF KeyEnabled
<1>5. Framed'
  BY <1>1, <1>2, <1>3 DEF HandshakeInv, Framed
<1>6. Untouched'
  BY <1>1, <1>2, <1>3 DEF HandshakeInv, Untouched
<1>7. KeysKept'
  BY <1>2, <1>4 DEF HandshakeInv, KeysKept
<1>8. Issued'
  BY <1>1, <1>2 DEF HandshakeInv, Issued
<1>9. ClientFollows' /\ DatagramsFit'
  BY <1>2, <1>4 DEF HandshakeInv, ClientFollows, DatagramsFit
<1> QED  BY <1>5, <1>6, <1>7, <1>8, <1>9 DEF HandshakeInv

LEMMA FitsHandleConnect ==
  ASSUME HandshakeInv, HandleConnect
  PROVE  HandshakeInv'
<1>1. TypeInv'
  BY TypeSimulate DEF HandshakeInv, Simulate
<1>2. Take("CONNECT")
  BY DEF HandleConnect
<1> DEFINE c == Head(netToSim).connection
<1>3. /\ c \in Connections /\ c < nextConnectionId
      /\ UNCHANGED <<slot, enet, wire, client, simToNet>>
      /\ \A i \in 1 .. Len(netToSim') : netToSim'[i].connection < nextConnectionId
      /\ \A t, d : Waits(t, d)' => Waits(t, d)
      /\ Waits("CONNECT", c)
      /\ \A i, j \in 1 .. Len(netToSim') :
           (i < j /\ netToSim'[i].connection = peerData /\ netToSim'[j].connection = peerData)
             => netToSim'[i].type = "CONNECT" /\ netToSim'[j].type = "HELLO"
      /\ c = peerData => ~Waits("CONNECT", peerData)'
  BY <1>2, FramedTaken DEF HandleConnect
<1>4. sessions' = [d \in DOMAIN sessions \cup {c} |-> IF d = c THEN NewSession ELSE sessions[d]]
  BY DEF HandleConnect
<1> HIDE DEF c
<1>5. /\ UNCHANGED <<nextConnectionId, peerData, helloCount, unacked, toServer, toClient, client,
                     simToNet>>
      /\ NoAnswer' <=> NoAnswer
  BY <1>3 DEF slot, enet, wire, NoAnswer
<1>6. CASE c = peerData
  <2>1. peerData \notin DOMAIN sessions /\ NoAnswer
    BY <1>3, <1>6 DEF HandshakeInv, Framed
  <2>2. peerData \in DOMAIN sessions' /\ sessions'[peerData] = NewSession
    BY <1>4, <1>6
  <2>3. ~KeyEnabled(peerData) /\ ~KeyEnabled(peerData)'
    BY <1>5, <2>1, <2>2 DEF KeyEnabled, NewSession
  <2>4. Framed'
    BY <1>3, <1>5, <1>6 DEF HandshakeInv, Framed
  <2>5. Untouched'
    BY <1>3, <1>5, <2>1, <2>2 DEF HandshakeInv, Untouched
  <2>6. KeysKept'
    BY <1>5, <2>1, <2>3 DEF KeysKept, NoAnswer
  <2>7. Issued'
    BY <1>3, <1>4, <1>5 DEF HandshakeInv, Issued
  <2>8. ClientFollows' /\ DatagramsFit'
    BY <1>5, <2>3 DEF HandshakeInv, ClientFollows, DatagramsFit
  <2> QED  BY <1>1, <2>4, <2>5, <2>6, <2>7, <2>8 DEF HandshakeInv
<1>7. CASE c # peerData
  <2>1. /\ peerData \in DOMAIN sessions' <=> peerData \in DOMAIN sessions
        /\ peerData \in DOMAIN sessions => sessions'[peerData] = sessions[peerData]
        /\ DOMAIN sessions' \subseteq DOMAIN sessions \cup {c}
    BY <1>4, <1>7
  <2> QED  BY <1>1, <1>2, <1>5, <1>7, <2>1, FitsElsewhere DEF c
<1> QED  BY <1>6, <1>7

LEMMA FitsHandleDisconnect ==
  ASSUME HandshakeInv, HandleDisconnect
  PROVE  HandshakeInv'
<1>1. TypeInv'
  BY TypeSimulate DEF HandshakeInv, Simulate
<1>2. Take("DISCONNECT") /\ simToNet' = simToNet
  BY DEF HandleDisconnect
<1> DEFINE c == Head(netToSim).connection
<1>3. c # peerData
  BY <1>2, FramedTaken
<1>4. sessions' = [d \in DOMAIN sessions \ {c} |-> sessions[d]]
  BY DEF HandleDisconnect
<1> HIDE DEF c
<1>5. /\ peerData \in DOMAIN sessions' <=> peerData \in DOMAIN sessions
      /\ peerData \in DOMAIN sessions => sessions'[peerData] = sessions[peerData]
      /\ DOMAIN sessions' \subseteq DOMAIN sessions \cup {c}
  BY <1>3, <1>4
<1> QED  BY <1>1, <1>2, <1>3, <1>5, FitsElsewhere DEF c

(* The hello of the connection: the keys and the answer come together, the *)
(* flag not yet.                                                           *)
LEMMA FitsHandleHello ==
  ASSUME MaxHellos = 1, HandshakeInv, HandleHello
  PROVE  HandshakeInv'
<1>1. TypeInv'
  BY TypeSimulate DEF HandshakeInv, Simulate
<1>2. Take("HELLO")
  BY DEF HandleHello
<1> DEFINE c == Head(netToSim).connection
           n == Head(netToSim).hello
<1>3. /\ c \in Connections /\ c < nextConnectionId /\ n = 1
      /\ UNCHANGED <<slot, enet, wire, client>>
      /\ \A i \in 1 .. Len(netToSim') : netToSim'[i].connection < nextConnectionId
      /\ \A t, d : Waits(t, d)' => Waits(t, d)
      /\ Waits("HELLO", c)
      /\ \A i, j \in 1 .. Len(netToSim') :
           (i < j /\ netToSim'[i].connection = peerData /\ netToSim'[j].connection = peerData)
             => netToSim'[i].type = "CONNECT" /\ netToSim'[j].type = "HELLO"
      /\ c = peerData => ~Waits("CONNECT", peerData)' /\ ~Waits("HELLO", peerData)'
  <2>1. Head(netToSim) \in Message /\ Head(netToSim).type = "HELLO"
    BY <1>2, FramedTaken
  <2>2. n = 1
    BY <2>1, OneHello DEF Message
  <2> QED  BY <1>2, <2>2, FramedTaken
<1>4. /\ \/ sessions' = sessions
         \/ c \in DOMAIN sessions /\ sessions' = [sessions EXCEPT ![c] = KeysAccepted(@, n)]
         \/ c \in DOMAIN sessions /\ sessions' = [sessions EXCEPT ![c] = KeysCleared(@)]
      /\ \/ simToNet' = simToNet
         \/ \E success \in BOOLEAN :
              /\ simToNet' = Append(simToNet, [connection |-> c, hello |-> n, success |-> success])
              /\ c \in DOMAIN sessions
              /\ success => sessions' = [sessions EXCEPT ![c] = KeysAccepted(@, n)]
  BY DEF HandleHello
<1> HIDE DEF c, n
<1>5. \A i \in 1 .. Len(simToNet') :
        \/ \E j \in 1 .. Len(simToNet) : simToNet'[i] = simToNet[j]
        \/ /\ simToNet'[i].connection = c
           /\ simToNet'[i].success =>
                c \in DOMAIN sessions /\ sessions' = [sessions EXCEPT ![c] = KeysAccepted(@, n)]
  <2>1. simToNet \in Seq(Answer) /\ simToNet' \in Seq(Answer)
    BY <1>1 DEF HandshakeInv, TypeInv, TypeOK
  <2>2. CASE simToNet' = simToNet
    BY <2>2
  <2>3. ASSUME NEW success \in BOOLEAN,
               simToNet' = Append(simToNet, [connection |-> c, hello |-> n, success |-> success])
        PROVE  /\ Len(simToNet) \in Nat /\ Len(simToNet') = Len(simToNet) + 1
               /\ \A i \in 1 .. Len(simToNet) : simToNet'[i] = simToNet[i]
               /\ simToNet'[Len(simToNet) + 1]
                    = [connection |-> c, hello |-> n, success |-> success]
    BY <2>1, <2>3, AppendProperties, LenProperties
  <2>4. CASE \E success \in BOOLEAN :
               /\ simToNet' = Append(simToNet, [connection |-> c, hello |-> n, success |-> success])
               /\ c \in DOMAIN sessions
               /\ success => sessions' = [sessions EXCEPT ![c] = KeysAccepted(@, n)]
    <3>1. PICK success \in BOOLEAN :
            /\ simToNet' = Append(simToNet, [connection |-> c, hello |-> n, success |-> success])
            /\ c \in DOMAIN sessions
            /\ success => sessions' = [sessions EXCEPT ![c] = KeysAccepted(@, n)]
      BY <2>4
    <3>2. /\ Len(simToNet) \in Nat /\ Len(simToNet') = Len(simToNet) + 1
          /\ \A i \in 1 .. Len(simToNet) : simToNet'[i] = simToNet[i]
          /\ simToNet'[Len(simToNet) + 1]
               = [connection |-> c, hello |-> n, success |-> success]
      BY <2>3, <3>1
    <3>3. TAKE i \in 1 .. Len(simToNet')
    <3>4. CASE i \in 1 .. Len(simToNet)
      BY <3>2, <3>4
    <3>5. CASE i = Len(simToNet) + 1
      BY <3>1, <3>2, <3>5
    <3> QED  BY <3>2, <3>4, <3>5
  <2> QED  BY <1>4, <2>2, <2>4
<1>6. CASE c # peerData
  <2>1. /\ peerData \in DOMAIN sessions' <=> peerData \in DOMAIN sessions
        /\ peerData \in DOMAIN sessions => sessions'[peerData] = sessions[peerData]
        /\ DOMAIN sessions' \subseteq DOMAIN sessions \cup {c}
    BY <1>4, <1>6
  <2> QED  BY <1>1, <1>2, <1>5, <1>6, <2>1, FitsElsewhere DEF c
<1>7. CASE c = peerData
  <2>1. UNCHANGED <<nextConnectionId, peerData, helloCount, unacked, toServer, toClient, client>>
    BY <1>3 DEF slot, enet, wire
  <2>2. /\ helloCount = 1 /\ NoAnswer
        /\ peerData \in DOMAIN sessions => sessions[peerData] = NewSession
    BY <1>3, <1>7 DEF HandshakeInv, Framed, Untouched
  <2>3. /\ DOMAIN sessions' = DOMAIN sessions
        /\ peerData \in DOMAIN sessions => ~sessions'[peerData].isPacketEncryptionEnabled
    <3>1. /\ ~NewSession.isPacketEncryptionEnabled
          /\ ~KeysAccepted(NewSession, n).isPacketEncryptionEnabled
          /\ ~KeysCleared(NewSession).isPacketEncryptionEnabled
      BY DEF NewSession, KeysAccepted, KeysCleared
    <3>2. DOMAIN sessions' = DOMAIN sessions
      BY <1>4
    <3>3. peerData \in DOMAIN sessions =>
            sessions'[peerData] \in {NewSession, KeysAccepted(NewSession, n), KeysCleared(NewSession)}
      BY <1>4, <1>7, <2>2
    <3> QED  BY <3>1, <3>2, <3>3
  <2>4. ~KeyEnabled(peerData) /\ ~KeyEnabled(peerData)'
    BY <2>1, <2>2, <2>3 DEF KeyEnabled, NewSession
  <2>5. Framed'
    <3>1. ~Waits("DISCONNECT", peerData)'
      BY <1>3, <2>1 DEF HandshakeInv, Framed
    <3> QED  BY <1>3, <1>7, <2>1, <3>1 DEF Framed
  <2>6. Untouched'
    BY <1>3, <1>7, <2>1, <2>2 DEF Untouched
  <2>7. KeysKept'
    <3>1. ASSUME NEW i \in 1 .. Len(simToNet'),
                 simToNet'[i].connection = peerData, simToNet'[i].success,
                 peerData \in DOMAIN sessions
          PROVE  sessions'[peerData].hello = 1
      <4>1. ~\E j \in 1 .. Len(simToNet) : simToNet'[i] = simToNet[j]
        BY <2>2, <3>1 DEF NoAnswer
      <4>2. sessions' = [sessions EXCEPT ![peerData] = KeysAccepted(@, 1)]
        BY <1>3, <1>5, <1>7, <3>1, <4>1
      <4> QED  BY <2>2, <3>1, <4>2 DEF KeysAccepted, NewSession
    <3> QED  BY <2>1, <2>2, <2>3, <2>4, <3>1 DEF KeysKept, NoAnswer
  <2>8. Issued'
    BY <1>3, <1>5, <2>1, <2>3 DEF HandshakeInv, Issued
  <2>9. ClientFollows' /\ DatagramsFit'
    BY <2>1, <2>4 DEF HandshakeInv, ClientFollows, DatagramsFit
  <2> QED  BY <1>1, <2>5, <2>6, <2>7, <2>8, <2>9 DEF HandshakeInv
<1> QED  BY <1>6, <1>7
(* A hello is handed over once.  The acknowledgement of a good answer sets *)
(* the flag: only then, and the client has the answer.                     *)
LEMMA FitsServerReceives ==
  ASSUME MaxHellos = 1, HandshakeInv, NEW type, ServerReceives(type)
  PROVE  HandshakeInv'
<1>1. TypeInv'
  BY TypeServerReceives DEF HandshakeInv
<1>2. PICK d \in toServer :
        /\ d.command.type = type
        /\ toServer' = toServer \ {d}
        /\ \/ type = "hello" /\ ReceiveHello(d.command.hello)
           \/ type = "ack" /\ ReceiveAck(d.command.hello)
           \/ UNCHANGED <<closing, sessions, netToSim, enet>>
  BY DEF ServerReceives
<1>3. /\ UNCHANGED <<nextConnectionId, peerData, simToNet, toClient, client>>
      /\ peerData \in Connections /\ peerData # 0
      /\ client[peerData].received = 1 \/ type # "ack"
      /\ toServer' \subseteq toServer
  BY <1>2 DEF ServerReceives, Connected, HandshakeInv, TypeInv, TypeOK, DatagramsFit
<1>4. ASSUME sessions' = sessions
      PROVE  KeyEnabled(peerData)' <=> KeyEnabled(peerData)
  BY <1>3, <1>4 DEF KeyEnabled
<1>5. ASSUME KeyEnabled(peerData) => KeyEnabled(peerData)'
      PROVE  ClientFollows' /\ DatagramsFit'
  BY <1>3, <1>5 DEF HandshakeInv, ClientFollows, DatagramsFit
<1>6. CASE UNCHANGED <<closing, sessions, netToSim, enet>>
  <2>1. Issued' /\ Framed' /\ Untouched' /\ KeysKept'
    BY <1>3, <1>4, <1>6
       DEF HandshakeInv, Issued, Framed, Untouched, KeysKept, Waits, NoAnswer, enet
  <2> QED  BY <1>1, <1>4, <1>5, <1>6, <2>1 DEF HandshakeInv
<1>7. CASE type = "hello" /\ ReceiveHello(d.command.hello)
  <2>1. UNCHANGED <<closing, sessions, unacked>>
    BY <1>7 DEF ReceiveHello
  <2>2. KeysKept'
    BY <1>3, <1>4, <2>1 DEF HandshakeInv, KeysKept
  <2>3. NoAnswer' <=> NoAnswer
    BY <1>3, <2>1 DEF NoAnswer
  <2>4. CASE UNCHANGED <<helloCount, netToSim>>
    <3>1. Issued' /\ Framed' /\ Untouched'
      BY <1>3, <2>1, <2>3, <2>4 DEF HandshakeInv, Issued, Framed, Untouched, Waits
    <3> QED  BY <1>1, <1>4, <1>5, <2>1, <2>2, <3>1 DEF HandshakeInv
  <2>5. CASE ~UNCHANGED <<helloCount, netToSim>>
    <3> DEFINE m == [type |-> "HELLO", connection |-> peerData, hello |-> d.command.hello]
    <3>1. /\ d.command.hello = helloCount + 1 /\ helloCount' = d.command.hello
          /\ netToSim' = Append(netToSim, m)
      BY <1>7, <2>5 DEF ReceiveHello
    <3>2. d.command.hello = 1
      <4>1. d.command.hello \in {0} \cup Hellos
        BY <1>2, CommandTypes DEF HandshakeInv, TypeInv, Commands
      <4> QED  BY <3>1, <4>1, OneHello DEF HandshakeInv, TypeInv, TypeOK
    <3>3. helloCount = 0 /\ helloCount' = 1
      BY <3>1, <3>2, OneHello DEF HandshakeInv, TypeInv, TypeOK
    <3>4. /\ Len(netToSim) \in Nat /\ Len(netToSim') = Len(netToSim) + 1
          /\ \A i \in 1 .. Len(netToSim) : netToSim'[i] = netToSim[i]
          /\ netToSim'[Len(netToSim) + 1].type = "HELLO"
          /\ netToSim'[Len(netToSim) + 1].connection = peerData
      <4>1. m \in Message /\ m.type = "HELLO" /\ m.connection = peerData
        BY <1>3, <3>2, OneHello DEF Message
      <4>2. netToSim \in Seq(Message)
        BY DEF HandshakeInv, TypeInv
      <4> HIDE DEF m
      <4> QED  BY <3>1, <4>1, <4>2, QueuePushed
    <3> HIDE DEF m
    <3>5. Issued'
      BY <1>3, <2>1, <3>4 DEF HandshakeInv, Issued
    <3>6. /\ ~Waits("DISCONNECT", peerData) /\ ~Waits("HELLO", peerData)
          /\ \A i \in 1 .. Len(netToSim) :
               netToSim[i].connection = peerData => netToSim[i].type = "CONNECT"
      <4>1. ~Waits("DISCONNECT", peerData) /\ ~Waits("HELLO", peerData)
        BY <3>3 DEF HandshakeInv, Framed
      <4>2. \A i \in 1 .. Len(netToSim) : netToSim[i].type \in {"CONNECT", "DISCONNECT", "HELLO"}
        <5>1. \A i \in 1 .. Len(netToSim) : netToSim[i] \in Message
          BY ElementOfSeq DEF HandshakeInv, TypeInv
        <5> QED  BY <5>1 DEF Message
      <4> QED  BY <4>1, <4>2 DEF Waits
    <3>7. Waits("CONNECT", peerData)' => Waits("CONNECT", peerData)
      BY <1>3, <3>4 DEF Waits
    <3>8. Framed'
      <4>1. ~Waits("DISCONNECT", peerData)'
        BY <1>3, <3>4, <3>6 DEF Waits
      <4>2. \A i, j \in 1 .. Len(netToSim') :
              (i < j /\ netToSim'[i].connection = peerData /\ netToSim'[j].connection = peerData)
                => netToSim'[i].type = "CONNECT" /\ netToSim'[j].type = "HELLO"
        BY <3>4, <3>6 DEF HandshakeInv, Framed
      <4>3. Waits("CONNECT", peerData) => peerData \notin DOMAIN sessions /\ NoAnswer
        BY DEF HandshakeInv, Framed
      <4> QED  BY <1>3, <2>1, <2>3, <3>3, <3>7, <4>1, <4>2, <4>3 DEF Framed
    <3>9. Untouched'
      BY <1>3, <2>1, <2>3, <3>3 DEF HandshakeInv, Untouched
    <3> QED  BY <1>1, <1>4, <1>5, <2>1, <2>2, <3>5, <3>8, <3>9 DEF HandshakeInv
  <2> QED  BY <2>4, <2>5
<1>8. CASE type = "ack" /\ ReceiveAck(d.command.hello)
  <2>1. CASE UNCHANGED <<unacked, sessions, closing>>
    <3>1. UNCHANGED <<closing, sessions, netToSim, enet>>
      BY <1>8, <2>1 DEF ReceiveAck, enet
    <3> QED  BY <1>6, <3>1
  <2>2. CASE ~UNCHANGED <<unacked, sessions, closing>>
    <3>1. PICK a \in unacked :
            /\ unacked' = unacked \ {a}
            /\ sessions' = IF a.success THEN SetPeerEncryptionEnabled(a.connection) ELSE sessions
      BY <1>8, <2>2 DEF ReceiveAck
    <3>2. UNCHANGED <<helloCount, netToSim>>
      BY <1>8 DEF ReceiveAck
    <3>3. a.connection = peerData /\ ~NoAnswer
      BY DEF HandshakeInv, TypeInv, TypeOK, NoAnswer
    <3>4. /\ DOMAIN sessions' = DOMAIN sessions
          /\ KeyEnabled(peerData) => KeyEnabled(peerData)'
          /\ peerData \in DOMAIN sessions => sessions'[peerData].hello = sessions[peerData].hello
          /\ KeyEnabled(peerData)' => KeyEnabled(peerData) \/ a.success
      <4>1. CASE a.success /\ peerData \in DOMAIN sessions
        <5>1. sessions' = [sessions EXCEPT ![peerData].isPacketEncryptionEnabled = TRUE]
          BY <3>1, <3>3, <4>1 DEF SetPeerEncryptionEnabled
        <5>2. sessions[peerData] \in Session
          BY <4>1 DEF HandshakeInv, TypeInv, TypeOK
        <5>3. /\ sessions'[peerData].isPacketEncryptionEnabled
              /\ sessions'[peerData].hello = sessions[peerData].hello
          BY <4>1, <5>1, <5>2 DEF Session
        <5> QED  BY <1>3, <4>1, <5>1, <5>3 DEF KeyEnabled
      <4>2. CASE ~(a.success /\ peerData \in DOMAIN sessions)
        <5>1. sessions' = sessions
          BY <3>1, <3>3, <4>2 DEF SetPeerEncryptionEnabled
        <5> QED  BY <1>4, <5>1
      <4> QED  BY <4>1, <4>2
    <3>5. KeysKept'
      <4>1. peerData \in DOMAIN sessions /\ a.success => sessions[peerData].hello = 1
        BY DEF HandshakeInv, KeysKept
      <4> QED  BY <1>3, <1>8, <3>1, <3>4, <4>1 DEF HandshakeInv, KeysKept
    <3>6. Framed' /\ Untouched'
      BY <1>3, <3>2, <3>3 DEF HandshakeInv, Framed, Untouched, Waits
    <3>7. Issued'
      BY <1>3, <3>2, <3>4 DEF HandshakeInv, Issued
    <3> QED  BY <1>1, <1>5, <3>4, <3>5, <3>6, <3>7 DEF HandshakeInv
  <2> QED  BY <2>1, <2>2
<1> QED  BY <1>2, <1>6, <1>7, <1>8

-----------------------------------------------------------------------------
(* One hello on a connection: the theorems.                                *)

LEMMA HandshakeInit == Init => HandshakeInv
<1> SUFFICES ASSUME Init PROVE HandshakeInv
  OBVIOUS
<1>1. TypeInv  BY TypeInit
<1>2. /\ peerData = 0 /\ nextConnectionId = 1 /\ DOMAIN sessions = {}
      /\ Len(netToSim) = 0 /\ Len(simToNet) = 0 /\ unacked = {} /\ toServer = {} /\ toClient = {}
      /\ \A c \in Connections : client[c] = NewClient
  BY DEF Init
<1>3. Issued /\ Framed /\ Untouched /\ KeysKept /\ ClientFollows /\ DatagramsFit
  BY <1>2 DEF Issued, Framed, Untouched, KeysKept, ClientFollows, DatagramsFit, Waits, NoAnswer
<1> QED  BY <1>1, <1>3 DEF HandshakeInv

LEMMA HandshakeStep ==
  ASSUME MaxHellos = 1, HandshakeInv, [Next]_vars
  PROVE  HandshakeInv'
<1>1. CASE UNCHANGED vars
  <2>1. TypeInv'
    BY <1>1, TypeStep DEF HandshakeInv
  <2> QED
    BY <1>1, <2>1
       DEF vars, slot, queues, enet, wire, HandshakeInv, Issued, Framed, Untouched, KeysKept,
           ClientFollows, DatagramsFit, Waits, NoAnswer, KeyEnabled
<1>2. CASE Next
  BY <1>2, FitsConnect, FitsDisconnect, FitsSendAnswer, FitsHandleConnect, FitsHandleDisconnect,
     FitsHandleHello, FitsServerEmits, FitsServerReceives, FitsSayHello, FitsClientEmits,
     FitsClientReceives, FitsReadAnswer, FitsLose
     DEF Next, Simulate
<1> QED  BY <1>1, <1>2

LEMMA HandshakeHolds ==
  ASSUME MaxHellos = 1
  PROVE  Spec => []HandshakeInv
BY HandshakeInit, HandshakeStep, PTL DEF Spec

(* Whatever the server encrypts, its client can read: with the keys of an  *)
(* answer that it has received (enet_send_packets.cpp:464).                *)
THEOREM ServerIsAlwaysUnderstood ==
  ASSUME MaxHellos = 1
  PROVE  Spec => []ServerIsUnderstood
<1>1. HandshakeInv => ServerIsUnderstood
  <2> SUFFICES ASSUME HandshakeInv, NEW d \in toClient, d.encrypted
               PROVE  \E n \in 1 .. client[d.connection].received :
                        OpenedByClientWith(d, n) = Plain(d.command)
    BY DEF ServerIsUnderstood
  <2>1. d.command \in Commands /\ d.connection = peerData
    BY CommandTypes DEF HandshakeInv, TypeInv, TypeOK
  <2>2. d = Ciphered(peerData, d.command, "toClient") /\ KeyEnabled(peerData)
    <3>1. d # Clear(peerData, d.command)
      BY <2>1, ClearFacts
    <3> QED  BY <3>1 DEF HandshakeInv, DatagramsFit
  <2>3. client[peerData].received = 1
    BY <2>2 DEF HandshakeInv, KeysKept, KeyEnabled
  <2>4. OpenedByClientWith(d, 1) = Plain(d.command)
    BY <2>1, <2>2, CipheredFacts DEF OpenedByClientWith
  <2> QED  BY <2>1, <2>3, <2>4
<1> QED  BY <1>1, HandshakeHolds, PTL

(* Whatever a client sends, the server can read: before the switch, during *)
(* it and after it.                                                        *)
THEOREM ClientIsAlwaysUnderstood ==
  ASSUME MaxHellos = 1
  PROVE  Spec => []ClientIsUnderstood
<1>1. HandshakeInv => ClientIsUnderstood
  <2> SUFFICES ASSUME HandshakeInv, NEW d \in toServer
               PROVE  OpenedByServer(d) = Plain(d.command)
    BY DEF ClientIsUnderstood
  <2>1. d.command \in Commands /\ d.connection = peerData
    BY CommandTypes DEF HandshakeInv, TypeInv, TypeOK
  <2>2. CASE d = Clear(peerData, d.command)
    BY <2>1, <2>2, ClearFacts DEF OpenedByServer
  <2>3. CASE d = Ciphered(peerData, d.command, "toServer") /\ KeyEnabled(peerData)
    <3>1. SessionKey(peerData, FALSE) = Key(peerData, 1, "toServer")
      BY <2>3 DEF HandshakeInv, KeysKept, KeyEnabled, SessionKey
    <3>2. DecryptCallback(peerData, d.data) =
            Decrypt(Key(peerData, 1, "toServer"), d.data, BufferSize)
      BY <2>3, <3>1 DEF DecryptCallback
    <3> QED  BY <2>1, <2>3, <3>2, CipheredFacts DEF OpenedByServer
  <2> QED  BY <2>2, <2>3 DEF HandshakeInv, DatagramsFit
<1> QED  BY <1>1, HandshakeHolds, PTL

(* Once a connection is encrypted the server sends nothing in clear on it, *)
(* packets that are sent again included.                                   *)
THEOREM EncryptionStays ==
  ASSUME MaxHellos = 1
  PROVE  Spec => NeverBackToClear
<1> DEFINE Stays ==
      \A d \in toClient' \ toClient :
        (client[d.connection].encrypts \/ \E e \in toClient : e.encrypted) => d.encrypted
<1>1. ASSUME HandshakeInv, [Next]_vars
      PROVE  [Stays]_vars
  <2>1. toClient' \subseteq toClient \/ \E type \in ToClient : ServerEmits(type)
    BY <1>1 DEF Next, vars, wire, slot, enet, queues, Connect, Disconnect, SendAnswer, Simulate,
                HandleConnect, HandleDisconnect, HandleHello, Take, ClientReceives, ClientEmits,
                ServerReceives, SayHello, ReadAnswer, Lose
  <2>2. CASE toClient' \subseteq toClient
    BY <2>2
  <2>3. ASSUME NEW type \in ToClient, ServerEmits(type)
        PROVE  Stays
    <3>1. PICK cmd \in ServerCommands : toClient' = toClient \cup {ServerDatagram(peerData, cmd)}
      BY <2>3 DEF ServerEmits
    <3>2. ServerDatagram(peerData, cmd).command = cmd
      BY DatagramFields DEF ServerDatagram
    <3>3. cmd \in Commands
      <4>1. TypeInv'
        BY <1>1, <2>3, TypeServerEmits DEF HandshakeInv
      <4> QED  BY <3>1, <3>2, <4>1, CommandTypes DEF TypeInv
    <3>4. CASE KeyEnabled(peerData)
      <4>1. ServerDatagram(peerData, cmd) = Ciphered(peerData, cmd, "toClient")
        BY <1>1, <3>3, <3>4, ServerDatagramFits DEF HandshakeInv
      <4>2. Ciphered(peerData, cmd, "toClient").encrypted
        BY <3>3, CipheredFacts
      <4>3. ServerDatagram(peerData, cmd).encrypted
        BY <4>1, <4>2, Zenon
      <4> QED  BY <3>1, <4>3
    <3>5. CASE ~KeyEnabled(peerData)
      <4>1. ServerDatagram(peerData, cmd).connection = peerData /\ peerData # 0
        BY <2>3, DatagramFields DEF ServerDatagram, ServerEmits, Connected
      <4>2. ~client[peerData].encrypts
        BY <1>1, <3>5, <4>1 DEF HandshakeInv, ClientFollows
      <4>3. \A e \in toClient : ~e.encrypted
        <5> TAKE e \in toClient
        <5>1. e.command \in Commands
          BY <1>1, CommandTypes DEF HandshakeInv, TypeInv
        <5>2. e = Clear(peerData, e.command)
          BY <1>1, <3>5 DEF HandshakeInv, DatagramsFit
        <5>3. ~Clear(peerData, e.command).encrypted
          BY <5>1, ClearFacts
        <5> QED  BY <5>2, <5>3, Zenon
      <4> QED  BY <3>1, <4>1, <4>2, <4>3
    <3> QED  BY <3>4, <3>5
  <2> QED  BY <2>1, <2>2, <2>3
<1>2. HandshakeInv /\ [Next]_vars => [Stays]_vars
  BY <1>1
<1>3. Spec => []HandshakeInv
  BY HandshakeHolds
<1> QED  BY <1>2, <1>3, PTL DEF Spec, NeverBackToClear
=============================================================================
