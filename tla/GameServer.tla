------------------------------ MODULE GameServer -----------------------------
(***************************************************************************)
(* The life of the client sessions, from the ENet connection to a client   *)
(* that is authenticated and ready for the match: the network, simulation  *)
(* and HTTP threads of the server composed over their queues.              *)
(***************************************************************************)
EXTENDS NetworkIncoming, NetworkOutgoing, Simulation, HttpService

NetworkThread ==
  \/ \E p \in Peers : Connect(p)
  \/ \E p \in Peers : Disconnect(p)
  \/ \E p \in Peers, c \in ConnectionIds, key \in ClientKeys : ReceiveHello(p, c, key)
  \/ \E p \in Peers, c \in ConnectionIds : ReceiveOtherVersion(p, c)
  \/ \E p \in Peers, c \in ConnectionIds : ReceiveAuth(p, c)
  \/ \E p \in Peers, c \in ConnectionIds : ReceiveReady(p, c)
  \/ PushAccepted
  \/ DrainSimulationToNetwork
  \/ SendReliable
  \/ \E ctx \in unacked : Acknowledged(ctx)
  \/ \E ctx \in unacked : Freed(ctx)

SimulationThread ==
  \/ DrainQueues
  \/ HandleConnect
  \/ HandleDisconnect
  \/ HandleHello
  \/ HandleAuth
  \/ HandleReady
  \/ HandleValidateTokenResponse

HttpThread ==
  \/ DrainRequests
  \/ \E isValid \in BOOLEAN : ValidateToken(isValid)

Next == NetworkThread \/ SimulationThread \/ HttpThread

Spec == Init /\ [][Next]_vars

(***************************************************************************)
(* Every thread keeps running, and a poll of the host handles all that has *)
(* arrived before it returns, so the network thread gets round to each     *)
(* kind of work however busy the clients keep it (hence strong fairness).  *)
(* ENet acknowledges a packet or times its peer out, and reports the end   *)
(* of a slot that was closed.  A client need not do anything.              *)
(***************************************************************************)
AnsweredOrTimedOut(c, disconnect) ==
  \E ctx \in unacked :
    /\ ctx.connectionId = c /\ ctx.disconnectAfterAck = disconnect
    /\ Acknowledged(ctx) \/ Disconnect(ctx.peer)

Fairness ==
  /\ WF_vars(SimulationThread) /\ WF_vars(HttpThread)
  /\ WF_vars(PushAccepted) /\ WF_vars(SendReliable)
  /\ SF_vars(DrainSimulationToNetwork)
  /\ \A p \in Peers : SF_vars(peerPhase[p] = "closing" /\ Disconnect(p))
  /\ \A c \in ConnectionIds : SF_vars(AnsweredOrTimedOut(c, TRUE))

FairSpec == Spec /\ Fairness

-----------------------------------------------------------------------------
(* Safety.                                                                 *)

(* A session never outlives its connection unnoticed: either the           *)
(* connection is still bound to its peer, or its DISCONNECT is on the way  *)
(* to the simulation.  No session is leaked and none comes back.           *)
SessionsAreOwned ==
  \A c \in DOMAIN sessions :
    c \in DOMAIN connectionIdToEnetPeer \/ Waiting("DISCONNECT", c)

(* Conversely a bound connection has its session, or its CONNECT is on the *)
(* way: the simulation does not drop a client that is still there.         *)
ConnectionsAreServed ==
  \A c \in DOMAIN connectionIdToEnetPeer :
    c \in DOMAIN sessions \/ Waiting("CONNECT", c)

(* peer->data and connectionIdToEnetPeer are inverse to each other, also   *)
(* when slots are reused.                                                  *)
BindingsAgree ==
  /\ \A c \in DOMAIN connectionIdToEnetPeer : peerData[connectionIdToEnetPeer[c]] = c
  /\ \A p \in Peers : peerData[p] # 0 => StillBound(p, peerData[p])

(* The encryption flag of the network thread and its replica in the        *)
(* session are equal while a connection has both.                          *)
EncryptionReplicaAgrees ==
  \A c \in DOMAIN sessions \cap DOMAIN connectionIdToEncryptionEnabled :
    sessions[c].isPacketEncryptionEnabled = connectionIdToEncryptionEnabled[c]

(* Only authenticated clients count as ready, though the handler of the    *)
(* packet looks at no status: the guard saw it on the network thread,      *)
(* before the packet waited for the simulation.                            *)
ReadyClientsAreValid ==
  \A c \in DOMAIN sessions : sessions[c].isReadyForMatch => sessions[c].authStatus = "Valid"

(* No token travels before its connection is encrypted, and none of an     *)
(* unencrypted connection is ever validated.                               *)
AuthenticationIsEncrypted ==
  \A c \in DOMAIN sessions :
    sessions[c].authStatus # "None" => sessions[c].isPacketEncryptionEnabled

(* The connections whose token is somewhere between the simulation and the *)
(* backend, in the order the answers will be processed.                    *)
IdsOf(q) == [i \in 1 .. Len(q) |-> q[i].connectionId]
UnderValidation == IdsOf(simHttpBatch) \o IdsOf(httpToSim) \o httpBatch \o simToHttp

Validating(c) == \E i \in 1 .. Len(UnderValidation) : UnderValidation[i] = c

(* At most one validation of a connection is under way, and one exactly    *)
(* while its session waits for it: an answer is never applied twice, never *)
(* to a session that did not ask.                                          *)
ValidationsDistinct ==
  \A i, j \in 1 .. Len(UnderValidation) :
    i < j => UnderValidation[i] # UnderValidation[j]

OneValidationAtATime ==
  /\ ValidationsDistinct
  /\ \A c \in DOMAIN sessions : sessions[c].authStatus = "WaitingAuth" <=> Validating(c)

(* Encryption is switched on for a connection only by the acknowledgement  *)
(* of an answer sent to that connection, never by a late one of the        *)
(* connection that had the slot before.                                    *)
EncryptionNeedsOwnAck ==
  [][\A c \in DOMAIN connectionIdToEncryptionEnabled
            \cap DOMAIN connectionIdToEncryptionEnabled' :
       connectionIdToEncryptionEnabled'[c] # connectionIdToEncryptionEnabled[c] =>
         \E ctx \in unacked \ unacked' :
           ctx.connectionId = c /\ ctx.enableEncryptionAfterAck]_vars

(* A connection is announced to the simulation before anything it sends,   *)
(* and its end after everything it sent.                                   *)
MessagesFramed ==
  \A i, j \in 1 .. Len(Pending) :
    (i < j /\ Pending[i].connectionId = Pending[j].connectionId) =>
      Pending[i].type # "DISCONNECT" /\ Pending[j].type # "CONNECT"

(* The simulation never holds more sessions than the host has slots: the   *)
(* DISCONNECT of a slot is processed before the CONNECT that reuses it.    *)
(* The size of a match, maxClientsConnected, is counted on sessions.       *)
SessionsFitTheHost == Cardinality(DOMAIN sessions) <= Cardinality(Peers)

-----------------------------------------------------------------------------
(* The inductive invariant behind the safety properties.                   *)

(* A slot is free exactly when it carries no connection identifier, and    *)
(* both tables know the same connections.                                  *)
SlotsAgree ==
  /\ \A p \in Peers : peerPhase[p] = "free" <=> peerData[p] = 0
  /\ DOMAIN connectionIdToEncryptionEnabled = DOMAIN connectionIdToEnetPeer

(* Some answer to c, sent or not, is not acknowledged yet.                 *)
AnswerUnderWay(c) ==
  \/ \E i \in 1 .. Len(simToNet) : simToNet[i].connectionId = c
  \/ \E i \in 1 .. Len(netOutBatch) : netOutBatch[i].connectionId = c
  \/ \E ctx \in unacked : ctx.connectionId = c

(* A connection whose CONNECT is not processed yet has left no trace       *)
(* beyond the tables: no session, no encryption, no answer, no validation. *)
Unborn(c) ==
  /\ c \notin DOMAIN sessions
  /\ c \in DOMAIN connectionIdToEnetPeer => ~connectionIdToEncryptionEnabled[c]
  /\ c \in DOMAIN connectionIdToEnetPeer \/ Waiting("DISCONNECT", c)
  /\ ~AnswerUnderWay(c)
  /\ ~Validating(c)

(* What the guards of the channels saw still holds, of what counts, when   *)
(* the simulation processes the packet.                                    *)
Encrypted(c) == c \in DOMAIN sessions /\ sessions[c].isPacketEncryptionEnabled
Valid(c)     == c \in DOMAIN sessions /\ sessions[c].authStatus = "Valid"

PendingFits ==
  \A c \in ConnectionIds :
    /\ Waiting("CONNECT", c) => Unborn(c)
    /\ Waiting("DISCONNECT", c) => c \notin DOMAIN connectionIdToEnetPeer
    /\ Waiting("AUTH", c) => Encrypted(c)
    /\ Waiting("READY", c) => Valid(c)

AcceptedFits ==
  accepted # NoMessage =>
    /\ accepted.connectionId \in DOMAIN connectionIdToEnetPeer
    /\ \/ accepted.type = "AUTH" /\ Encrypted(accepted.connectionId)
       \/ accepted.type = "READY" /\ Valid(accepted.connectionId)

(* No part of the server knows an identifier that was not handed out.      *)
IdentifiersIssued ==
  \A c \in ConnectionIds :
    \/ c \in DOMAIN connectionIdToEnetPeer
    \/ c \in DOMAIN sessions
    \/ \E type \in NetMessageTypes : Waiting(type, c)
    \/ AnswerUnderWay(c)
    \/ Validating(c)
    => c < nextConnectionId

(* The conjunction that every step preserves.                              *)
IInv ==
  /\ TypeOK
  /\ SlotsAgree
  /\ BindingsAgree
  /\ SessionsAreOwned
  /\ ConnectionsAreServed
  /\ EncryptionReplicaAgrees
  /\ ReadyClientsAreValid
  /\ AuthenticationIsEncrypted
  /\ OneValidationAtATime
  /\ MessagesFramed
  /\ PendingFits
  /\ AcceptedFits
  /\ IdentifiersIssued

-----------------------------------------------------------------------------
(* The sessions as the match sees them.                                    *)

Stage ==
  [c \in ConnectionIds |->
     IF c \in DOMAIN sessions
     THEN CASE sessions[c].authStatus = "None"        -> "connected"
            [] sessions[c].authStatus = "WaitingAuth" -> "validating"
            [] sessions[c].authStatus = "Valid"       -> "valid"
            [] OTHER                                  -> "invalid"
     ELSE IF c >= nextConnectionId \/ Waiting("CONNECT", c) THEN "absent" ELSE "gone"]

Ready == {c \in DOMAIN sessions : sessions[c].isReadyForMatch}

Lifecycle == INSTANCE ClientLifecycle
               WITH Clients <- ConnectionIds, stage <- Stage, ready <- Ready

(* A session goes through the life ClientLifecycle describes: one          *)
(* validation, no way back from its outcome, ready only once valid, and    *)
(* no second life for a connection identifier.                             *)
LifecycleImplemented == Lifecycle!LifecycleSpec

(* The waits of that life end: see ClientLifecycle.                        *)
ValidationsEnd == Lifecycle!ValidationsEnd

(* A refused client is disconnected.  It holds as long as the packet of    *)
(* the answer can be created; otherwise the order to disconnect is lost,   *)
(* although enet_send_packets.cpp:390 keeps it when the send fails.        *)
RefusedClientsLeave == Lifecycle!RefusedClientsLeave

(* A connection that ended is forgotten by the simulation.                 *)
DepartedClientsForgotten ==
  \A c \in ConnectionIds :
    (c < nextConnectionId /\ c \notin DOMAIN connectionIdToEnetPeer)
      ~> c \notin DOMAIN sessions
=============================================================================
