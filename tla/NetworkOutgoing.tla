--------------------------- MODULE NetworkOutgoing ---------------------------
(***************************************************************************)
(* Network thread, packets going out (src/src/network/transport/outgoing): *)
(* the answers to the handshake and to the authentication, and what is     *)
(* done when ENet reports that the client acknowledged them.               *)
(*                                                                         *)
(* A reliable packet whose answer carries an action takes with it a        *)
(* context, read by the ACK callback.  The slot may have been given to     *)
(* another connection by then.  Two equal contexts are one element of      *)
(* unacked: running the actions of a context twice is running them once.   *)
(***************************************************************************)
EXTENDS ServerState

DrainSimulationToNetwork ==
  /\ NetworkThreadIdle
  /\ simToNet # <<>>
  /\ netOutBatch' = simToNet
  /\ simToNet' = <<>>
  /\ UNCHANGED <<tables, sessions, enet, accepted, inQ, httpQ>>

(* Mutant: only an answer that enables encryption takes a context along.   *)
SentWithoutDisconnect(p, msg) ==
  /\ peerPhase[p] = "connected"
  /\ unacked' = IF msg.enableEncryptionAfterAck
                THEN unacked \cup
                       {[peer |-> p, connectionId |-> msg.connectionId,
                         disconnectAfterAck |-> msg.disconnectAfterAck,
                         enableEncryptionAfterAck |-> TRUE]}
                ELSE unacked
  /\ UNCHANGED peerPhase

(* enet_peer_send refuses a slot that is closing.                          *)
Sent(p, msg) ==
  /\ peerPhase[p] = "connected"
  /\ unacked' = IF msg.disconnectAfterAck \/ msg.enableEncryptionAfterAck
                THEN unacked \cup
                       {[peer |-> p, connectionId |-> msg.connectionId,
                         disconnectAfterAck |-> msg.disconnectAfterAck,
                         enableEncryptionAfterAck |-> msg.enableEncryptionAfterAck]}
                ELSE unacked
  /\ UNCHANGED peerPhase

(* The context cannot be allocated or enet_peer_send fails: a wanted       *)
(* disconnection is then started at once.                                  *)
SendFailed(p, msg) ==
  /\ SendCanFail \/ peerPhase[p] # "connected"
  /\ peerPhase' = IF msg.disconnectAfterAck THEN Closing(p) ELSE peerPhase
  /\ UNCHANGED unacked

(* enet_packet_create fails: nothing is sent and nothing else is done.     *)
PacketNotCreated == SendCanFail /\ UNCHANGED <<peerPhase, unacked>>

(* One reliable message of the batch.                                      *)
SendReliable ==
  /\ netOutBatch # <<>>
  /\ LET msg == Head(netOutBatch)
         c   == msg.connectionId
     IN  IF c \in DOMAIN connectionIdToEnetPeer
         THEN LET p == connectionIdToEnetPeer[c] IN
                Sent(p, msg) \/ SendFailed(p, msg) \/ PacketNotCreated
         ELSE UNCHANGED <<peerPhase, unacked>>
  /\ netOutBatch' = Tail(netOutBatch)
  /\ UNCHANGED <<tables, sessions, peerData, accepted, inQ, simToNet, httpQ>>

(* Mutant: the replica in the session is forgotten.                        *)
EnableEncryptionOfTransport(p) ==
  /\ connectionIdToEncryptionEnabled' = Put(connectionIdToEncryptionEnabled, peerData[p], TRUE)
  /\ UNCHANGED sessions

(* SetPeerEncryptionEnabled(peer, true): the table and its replica in the  *)
(* session.                                                                *)
EnableEncryption(p) ==
  LET c == peerData[p] IN
  /\ connectionIdToEncryptionEnabled' = Put(connectionIdToEncryptionEnabled, c, TRUE)
  /\ sessions' = IF c \in DOMAIN sessions
                 THEN [sessions EXCEPT ![c].isPacketEncryptionEnabled = TRUE]
                 ELSE sessions

(* Mutant: the ACK callback trusts its context.                            *)
AckActionUnguarded(ctx) == ctx \in unacked

(* The guard of the ACK callback.                                          *)
AckActionAllowed(ctx) == StillBound(ctx.peer, ctx.connectionId)

(* ENet reports that the client acknowledged the packet of ctx.            *)
Acknowledged(ctx) ==
  /\ NetworkThreadIdle
  /\ ctx \in unacked
  /\ unacked' = unacked \ {ctx}
  /\ IF AckActionAllowed(ctx) /\ ctx.enableEncryptionAfterAck
     THEN EnableEncryption(ctx.peer)
     ELSE UNCHANGED <<connectionIdToEncryptionEnabled, sessions>>
  /\ peerPhase' = IF AckActionAllowed(ctx) /\ ctx.disconnectAfterAck
                  THEN Closing(ctx.peer)
                  ELSE peerPhase
  /\ UNCHANGED <<nextConnectionId, connectionIdToEnetPeer, peerData, accepted, inQ, outQ, httpQ>>

(* ENet frees a packet it will not see acknowledged; the context goes with *)
(* it.                                                                     *)
Freed(ctx) ==
  /\ NetworkThreadIdle
  /\ ctx \in unacked
  /\ peerPhase[ctx.peer] # "connected" \/ peerData[ctx.peer] # ctx.connectionId
  /\ unacked' = unacked \ {ctx}
  /\ UNCHANGED <<tables, sessions, peerData, peerPhase, accepted, inQ, outQ, httpQ>>
=============================================================================
