--------------------------- MODULE NetworkIncoming ---------------------------
(***************************************************************************)
(* Network thread, ENet events coming in                                   *)
(* (src/src/network/transport/incoming): a connection is given an          *)
(* identifier, its packets are validated, guarded by channel and handed to *)
(* the simulation, its end is announced to the simulation.                 *)
(*                                                                         *)
(* The clients are unconstrained: any packet may arrive at any time on any *)
(* channel.  A packet the code refuses changes nothing, so the refusals    *)
(* are the guards of the actions.                                          *)
(***************************************************************************)
EXTENDS ServerState

(* Bound on what the clients may have under way: packets for the           *)
(* simulation, answers to them, answers not acknowledged.                  *)
Load == Len(Pending) + Len(simToNet) + Len(netOutBatch) + Cardinality(unacked)

-----------------------------------------------------------------------------

(* ENET_EVENT_TYPE_CONNECT on a free slot.                                 *)
Connect(p) ==
  /\ NetworkThreadIdle
  /\ peerPhase[p] = "free"
  /\ nextConnectionId <= MaxConnections
  /\ LET c == nextConnectionId IN
       /\ nextConnectionId' = c + 1
       /\ peerData' = [peerData EXCEPT ![p] = c]
       /\ peerPhase' = [peerPhase EXCEPT ![p] = "connected"]
       /\ connectionIdToEnetPeer' = Put(connectionIdToEnetPeer, c, p)
       /\ connectionIdToEncryptionEnabled' = Put(connectionIdToEncryptionEnabled, c, FALSE)
       /\ netToSim' = Append(netToSim, NetMessage("CONNECT", c))
  /\ UNCHANGED <<sessions, unacked, accepted, simNetBatch, outQ, httpQ>>

(* Mutant: the end of the connection leaves peer->data as it was.          *)
DisconnectKeepingPeerData(p) ==
  /\ NetworkThreadIdle
  /\ peerPhase[p] # "free" /\ peerData[p] # 0
  /\ peerPhase' = [peerPhase EXCEPT ![p] = "free"]
  /\ connectionIdToEnetPeer' = Erase(connectionIdToEnetPeer, peerData[p])
  /\ connectionIdToEncryptionEnabled' = Erase(connectionIdToEncryptionEnabled, peerData[p])
  /\ netToSim' = Append(netToSim, NetMessage("DISCONNECT", peerData[p]))
  /\ UNCHANGED <<nextConnectionId, sessions, peerData, unacked, accepted, simNetBatch,
                 outQ, httpQ>>

(* ENET_EVENT_TYPE_DISCONNECT and its timeout variant: the client left, or *)
(* the server closed the slot.                                             *)
Disconnect(p) ==
  /\ NetworkThreadIdle
  /\ peerPhase[p] # "free"
  /\ peerPhase' = [peerPhase EXCEPT ![p] = "free"]
  /\ IF peerData[p] = 0
     THEN UNCHANGED <<tables, peerData, netToSim>>
     ELSE LET c == peerData[p] IN
          /\ connectionIdToEnetPeer' = Erase(connectionIdToEnetPeer, c)
          /\ connectionIdToEncryptionEnabled' = Erase(connectionIdToEncryptionEnabled, c)
          /\ peerData' = [peerData EXCEPT ![p] = 0]
          /\ netToSim' = Append(netToSim, NetMessage("DISCONNECT", c))
          /\ UNCHANGED nextConnectionId
  /\ UNCHANGED <<sessions, unacked, accepted, simNetBatch, outQ, httpQ>>

-----------------------------------------------------------------------------
(* ENET_EVENT_TYPE_RECEIVE.                                                *)

(* Mutant: any identifier ever handed out is taken for valid.              *)
ReceivesUnvalidated(p, c) ==
  /\ NetworkThreadIdle
  /\ peerPhase[p] = "connected"
  /\ c < nextConnectionId
  /\ Load < MaxLoad

(* A packet of connection c arrives on p and passes the validation of the  *)
(* connection.                                                             *)
Receives(p, c) ==
  /\ NetworkThreadIdle
  /\ peerPhase[p] = "connected"
  /\ StillBound(p, c)
  /\ Load < MaxLoad

(* Mutant: the authentication channel does not wait for the encryption.    *)
AuthChannelOpenUnencrypted(c) ==
  /\ c \in DOMAIN sessions
  /\ sessions[c].isTransportConnected
  /\ sessions[c].isSecureSessionEstablished
  /\ sessions[c].authStatus # "Invalid"

(* The guards of the channels read the session under sessionsMutex; the    *)
(* packet is pushed later, without it.                                     *)
AuthChannelOpen(c) ==
  /\ c \in DOMAIN sessions
  /\ sessions[c].isTransportConnected
  /\ sessions[c].isSecureSessionEstablished
  /\ sessions[c].isPacketEncryptionEnabled
  /\ sessions[c].authStatus # "Invalid"

GameplayChannelOpen(c) ==
  /\ c \in DOMAIN sessions
  /\ sessions[c].isTransportConnected
  /\ sessions[c].isSecureSessionEstablished
  /\ sessions[c].isPacketEncryptionEnabled
  /\ sessions[c].authStatus = "Valid"

(* SECURE_SESSION_RELIABLE is open to every validated connection.          *)
ReceiveHello(p, c, key) ==
  /\ Receives(p, c)
  /\ netToSim' = Append(netToSim, [type |-> "HELLO", connectionId |-> c, key |-> key])
  /\ UNCHANGED <<tables, sessions, enet, accepted, simNetBatch, outQ, httpQ>>

(* A hello of another protocol version closes the connection.              *)
ReceiveOtherVersion(p, c) ==
  /\ Receives(p, c)
  /\ peerPhase' = Closing(p)
  /\ UNCHANGED <<tables, sessions, peerData, unacked, accepted, inQ, outQ, httpQ>>

Accept(msg) ==
  /\ accepted' = msg
  /\ UNCHANGED <<tables, sessions, enet, inQ, outQ, httpQ>>

ReceiveAuth(p, c) ==
  Receives(p, c) /\ AuthChannelOpen(c) /\ Accept(NetMessage("AUTH", c))

(* GAME_RELIABLE carries one packet, CLIENT_READY_FOR_MATCH.               *)
ReceiveReady(p, c) ==
  Receives(p, c) /\ GameplayChannelOpen(c) /\ Accept(NetMessage("READY", c))

PushAccepted ==
  /\ accepted # NoMessage
  /\ netToSim' = Append(netToSim, accepted)
  /\ accepted' = NoMessage
  /\ UNCHANGED <<tables, sessions, enet, simNetBatch, outQ, httpQ>>
=============================================================================
