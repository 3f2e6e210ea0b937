----------------------------- MODULE ServerState -----------------------------
(***************************************************************************)
(* What the threads of the server share: the NetworkState singleton, the   *)
(* queues between the threads, and the part of ENet the callbacks see.     *)
(*                                                                         *)
(*   network thread     NetworkIncoming, NetworkOutgoing                   *)
(*   simulation thread  Simulation                                         *)
(*   HTTP thread        HttpService                                        *)
(*                                                                         *)
(* An unordered_map is a function whose DOMAIN is the set of keys it       *)
(* holds.  A queue is the sequence of its messages, and the local deque a  *)
(* thread has swapped it into is a second sequence, its batch.             *)
(***************************************************************************)
EXTENDS Naturals, Sequences, FiniteSets

CONSTANTS
  Peers,          \* the peer slots of the ENet host (ENetPeer*)
  MaxConnections, \* how many connections are accepted in one behaviour
  ClientKeys,     \* the key-exchange public keys that clients send
  WeakKeys,       \* the ones crypto_kx_server_session_keys refuses
  NoKey,          \* session keys still filled with zeros
  MaxLoad,        \* bound on the messages under way when a client sends
  SigningCanFail, \* may the Ed25519 signature fail?
  SendCanFail     \* may packet creation, allocation or enet_peer_send fail?

ASSUME ConstantsAssumption ==
  /\ MaxConnections \in Nat
  /\ MaxLoad \in Nat
  /\ WeakKeys \subseteq ClientKeys
  /\ NoKey \notin ClientKeys
  /\ SigningCanFail \in BOOLEAN
  /\ SendCanFail \in BOOLEAN

(* enet_host_create allocates a fixed number of slots.                     *)
ASSUME PeersAssumption == IsFiniteSet(Peers)

VARIABLES
  \* NetworkState: connection tables, used by the network thread only ...
  nextConnectionId, connectionIdToEnetPeer, connectionIdToEncryptionEnabled,
  \* ... and the sessions, under sessionsMutex
  sessions,
  \* ENet: ENetPeer::data, the state of each slot, reliable packets sent
  peerData, peerPhase, unacked,
  \* network thread: a packet that passed its guard, not pushed yet
  accepted,
  \* queues, each followed by the batch its consumer has drained
  netToSim, simNetBatch,
  simToNet, netOutBatch,
  simToHttp, httpBatch,
  httpToSim, simHttpBatch

tables == <<nextConnectionId, connectionIdToEnetPeer, connectionIdToEncryptionEnabled>>
enet   == <<peerData, peerPhase, unacked>>
inQ    == <<netToSim, simNetBatch>>
outQ   == <<simToNet, netOutBatch>>
httpQ  == <<simToHttp, httpBatch, httpToSim, simHttpBatch>>
vars   == <<tables, sessions, enet, accepted, inQ, outQ, httpQ>>

-----------------------------------------------------------------------------
(* Values.                                                                 *)

ConnectionIds == 1 .. MaxConnections

AuthStatus == {"None", "WaitingAuth", "Valid", "Invalid"}

Session ==
  [isTransportConnected       : BOOLEAN,
   isSecureSessionEstablished : BOOLEAN,
   isPacketEncryptionEnabled  : BOOLEAN,
   authStatus                 : AuthStatus,
   isReadyForMatch            : BOOLEAN,
   keys                       : ClientKeys \cup {NoKey}]

NetMessageTypes == {"CONNECT", "DISCONNECT", "HELLO", "AUTH", "READY"}
NetworkINToSimulationMessage ==
  [type : NetMessageTypes, connectionId : ConnectionIds, key : ClientKeys \cup {NoKey}]

SimulationToNetworkOUTMessage ==
  [connectionId : ConnectionIds,
   disconnectAfterAck : BOOLEAN, enableEncryptionAfterAck : BOOLEAN]

HttpToSimulationMessage == [connectionId : ConnectionIds, isValid : BOOLEAN]

ReliableAckActionContext ==
  [peer : Peers, connectionId : ConnectionIds,
   disconnectAfterAck : BOOLEAN, enableEncryptionAfterAck : BOOLEAN]

NoMessage == [type |-> "NONE"]
NetMessage(type, c) == [type |-> type, connectionId |-> c, key |-> NoKey]

-----------------------------------------------------------------------------
(* map[k] = v and map.erase(k) of an unordered_map.                        *)

EmptyMap       == [x \in {} |-> 0]
Put(map, k, v) == [x \in DOMAIN map \cup {k} |-> IF x = k THEN v ELSE map[x]]
Erase(map, k)  == [x \in DOMAIN map \ {k} |-> map[x]]

(* enet_peer_disconnect and enet_peer_disconnect_later: the slot neither   *)
(* receives nor sends any more, and ENet will report a DISCONNECT event.   *)
Closing(p) ==
  [peerPhase EXCEPT ![p] = IF @ = "connected" THEN "closing" ELSE @]

(* The messages of the network thread that the simulation has still to     *)
(* process, in the order it will process them.                             *)
Pending == simNetBatch \o netToSim

Waiting(type, c) ==
  \E i \in 1 .. Len(Pending) : Pending[i].type = type /\ Pending[i].connectionId = c

(* IsPeerStillBoundToConnectionId, and the last checks of                  *)
(* GetValidatedConnectionIdOrZero: peer->data and the table agree.         *)
StillBound(p, c) ==
  /\ peerData[p] = c
  /\ c \in DOMAIN connectionIdToEnetPeer
  /\ connectionIdToEnetPeer[c] = p

(* The network thread runs one callback, or one outgoing tick, at a time.  *)
NetworkThreadIdle == accepted = NoMessage /\ netOutBatch = <<>>

Init ==
  /\ nextConnectionId = 1
  /\ connectionIdToEnetPeer = EmptyMap
  /\ connectionIdToEncryptionEnabled = EmptyMap
  /\ sessions = EmptyMap
  /\ peerData = [p \in Peers |-> 0]
  /\ peerPhase = [p \in Peers |-> "free"]
  /\ unacked = {}
  /\ accepted = NoMessage
  /\ netToSim = <<>> /\ simNetBatch = <<>>
  /\ simToNet = <<>> /\ netOutBatch = <<>>
  /\ simToHttp = <<>> /\ httpBatch = <<>>
  /\ httpToSim = <<>> /\ simHttpBatch = <<>>

(* Every variable has the type the code declares for it; identifiers stand *)
(* for connections that this behaviour can have.                           *)
TypeOK ==
  /\ nextConnectionId \in 1 .. MaxConnections + 1
  /\ DOMAIN connectionIdToEnetPeer \subseteq ConnectionIds
  /\ \A c \in DOMAIN connectionIdToEnetPeer : connectionIdToEnetPeer[c] \in Peers
  /\ DOMAIN connectionIdToEncryptionEnabled \subseteq ConnectionIds
  /\ \A c \in DOMAIN connectionIdToEncryptionEnabled :
       connectionIdToEncryptionEnabled[c] \in BOOLEAN
  /\ DOMAIN sessions \subseteq ConnectionIds
  /\ \A c \in DOMAIN sessions : sessions[c] \in Session
  /\ peerData \in [Peers -> {0} \cup ConnectionIds]
  /\ peerPhase \in [Peers -> {"free", "connected", "closing"}]
  /\ unacked \subseteq ReliableAckActionContext
  /\ accepted \in NetworkINToSimulationMessage \cup {NoMessage}
  /\ netToSim \in Seq(NetworkINToSimulationMessage)
  /\ simNetBatch \in Seq(NetworkINToSimulationMessage)
  /\ simToNet \in Seq(SimulationToNetworkOUTMessage)
  /\ netOutBatch \in Seq(SimulationToNetworkOUTMessage)
  /\ simToHttp \in Seq(ConnectionIds) /\ httpBatch \in Seq(ConnectionIds)
  /\ httpToSim \in Seq(HttpToSimulationMessage)
  /\ simHttpBatch \in Seq(HttpToSimulationMessage)
=============================================================================
