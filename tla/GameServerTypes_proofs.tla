------------------------ MODULE GameServerTypes_proofs ----------------------
(***************************************************************************)
(* Type correctness of GameServer, for any number of slots, connections    *)
(* and keys.                                                               *)
(***************************************************************************)
EXTENDS GameServer, SequenceTheorems, TLAPS

-----------------------------------------------------------------------------
(* Maps.                                                                   *)

LEMMA PutFacts ==
  ASSUME NEW map, NEW k, NEW v
  PROVE  /\ DOMAIN Put(map, k, v) = DOMAIN map \cup {k}
         /\ Put(map, k, v)[k] = v
         /\ \A x \in DOMAIN map : x # k => Put(map, k, v)[x] = map[x]
BY DEF Put

LEMMA EraseFacts ==
  ASSUME NEW map, NEW k
  PROVE  /\ DOMAIN Erase(map, k) = DOMAIN map \ {k}
         /\ \A x \in DOMAIN map : x # k => Erase(map, k)[x] = map[x]
BY DEF Erase

(* Changing one session keeps the set of sessions and the others.          *)
LEMMA UpdateFacts ==
  ASSUME NEW map, NEW c, NEW v
  PROVE  /\ DOMAIN [map EXCEPT ![c] = v] = DOMAIN map
         /\ \A d \in DOMAIN map : [map EXCEPT ![c] = v][d] = IF d = c THEN v ELSE map[d]
OBVIOUS

LEMMA SessionTypes ==
  ASSUME NEW s \in Session, NEW key \in ClientKeys \cup {NoKey}, NEW status \in AuthStatus
  PROVE  /\ [s EXCEPT !.isPacketEncryptionEnabled = TRUE] \in Session
         /\ [s EXCEPT !.isReadyForMatch = TRUE] \in Session
         /\ [s EXCEPT !.authStatus = status] \in Session
         /\ KeysAccepted(s, key) \in Session
         /\ KeysCleared(s) \in Session
BY DEF Session, KeysAccepted, KeysCleared

LEMMA TailType ==
  ASSUME NEW S, NEW s \in Seq(S), s # <<>>
  PROVE  Head(s) \in S /\ Tail(s) \in Seq(S)
BY HeadTailProperties

-----------------------------------------------------------------------------
(* Type correctness.                                                       *)

LEMMA TypeInit == Init => TypeOK
BY ConstantsAssumption DEF Init, TypeOK, EmptyMap, ConnectionIds, NetworkINToSimulationMessage,
   NoMessage, ReliableAckActionContext

LEMMA NetMessageType ==
  ASSUME NEW type \in NetMessageTypes, NEW c \in ConnectionIds
  PROVE  NetMessage(type, c) \in NetworkINToSimulationMessage
BY DEF NetMessage, NetworkINToSimulationMessage

LEMMA TypeConnect ==
  ASSUME TypeOK, NEW p \in Peers, Connect(p)
  PROVE  TypeOK'
<1> USE ConstantsAssumption DEF TypeOK
<1> DEFINE c == nextConnectionId
<1>1. c \in ConnectionIds /\ nextConnectionId' = c + 1
  BY DEF Connect, ConnectionIds
<1>3. nextConnectionId' \in 1 .. MaxConnections + 1
  BY <1>1 DEF ConnectionIds
<1>4. /\ DOMAIN connectionIdToEnetPeer' \subseteq ConnectionIds
      /\ \A d \in DOMAIN connectionIdToEnetPeer' : connectionIdToEnetPeer'[d] \in Peers
  BY <1>1 DEF Connect, Put
<1>5. /\ DOMAIN connectionIdToEncryptionEnabled' \subseteq ConnectionIds
      /\ \A d \in DOMAIN connectionIdToEncryptionEnabled' :
           connectionIdToEncryptionEnabled'[d] \in BOOLEAN
  BY <1>1 DEF Connect, Put
<1>6. netToSim' \in Seq(NetworkINToSimulationMessage)
  <2>1. NetMessage("CONNECT", c) \in NetworkINToSimulationMessage
    BY <1>1, NetMessageType DEF NetMessageTypes
  <2> QED  BY <2>1 DEF Connect
<1>7. peerData' \in [Peers -> {0} \cup ConnectionIds]
  BY <1>1 DEF Connect
<1>8. peerPhase' \in [Peers -> {"free", "connected", "closing"}]
  BY DEF Connect
<1>9. DOMAIN sessions' \subseteq ConnectionIds
  BY DEF Connect
<1> QED
  BY <1>3, <1>4, <1>5, <1>6, <1>7, <1>8, <1>9 DEF Connect, outQ, httpQ

LEMMA TypeDisconnect ==
  ASSUME TypeOK, NEW p \in Peers, Disconnect(p)
  PROVE  TypeOK'
<1> USE ConstantsAssumption DEF TypeOK
<1>1. peerPhase' \in [Peers -> {"free", "connected", "closing"}]
  BY DEF Disconnect
<1>2. CASE peerData[p] = 0
  BY <1>1, <1>2 DEF Disconnect, tables, outQ, httpQ
<1>3. CASE peerData[p] # 0
  <2>1. peerData[p] \in ConnectionIds
    BY <1>3 DEF ConnectionIds
  <2>2. netToSim' \in Seq(NetworkINToSimulationMessage)
    <3>1. NetMessage("DISCONNECT", peerData[p]) \in NetworkINToSimulationMessage
      BY <2>1, NetMessageType DEF NetMessageTypes
    <3>2. netToSim' = Append(netToSim, NetMessage("DISCONNECT", peerData[p]))
      BY <1>3 DEF Disconnect
    <3>3. netToSim \in Seq(NetworkINToSimulationMessage)  OBVIOUS
    <3> HIDE DEF TypeOK
    <3> QED  BY <3>1, <3>2, <3>3
  <2>3. peerData' \in [Peers -> {0} \cup ConnectionIds]
    BY <1>3 DEF Disconnect
  <2>4. /\ DOMAIN connectionIdToEnetPeer' \subseteq ConnectionIds
        /\ \A d \in DOMAIN connectionIdToEnetPeer' : connectionIdToEnetPeer'[d] \in Peers
    BY <1>3 DEF Disconnect, Erase
  <2>5. /\ DOMAIN connectionIdToEncryptionEnabled' \subseteq ConnectionIds
        /\ \A d \in DOMAIN connectionIdToEncryptionEnabled' :
             connectionIdToEncryptionEnabled'[d] \in BOOLEAN
    BY <1>3 DEF Disconnect, Erase
  <2> QED
    BY <1>1, <1>3, <2>2, <2>3, <2>4, <2>5 DEF Disconnect, outQ, httpQ
<1> QED  BY <1>2, <1>3

LEMMA TypeNetwork ==
  ASSUME TypeOK, NetworkThread
  PROVE  TypeOK'
<1> USE ConstantsAssumption
<1> USE DEF TypeOK
<1>1. ASSUME NEW p \in Peers, NEW c \in ConnectionIds, NEW key \in ClientKeys,
             ReceiveHello(p, c, key)
      PROVE  TypeOK'
  <2>1. [type |-> "HELLO", connectionId |-> c, key |-> key] \in NetworkINToSimulationMessage
    BY DEF NetworkINToSimulationMessage, NetMessageTypes
  <2>2. netToSim' \in Seq(NetworkINToSimulationMessage)
    BY <1>1, <2>1 DEF ReceiveHello
  <2> QED  BY <1>1, <2>2 DEF ReceiveHello, tables, enet, outQ, httpQ
<1>2. ASSUME NEW p \in Peers, NEW c \in ConnectionIds, ReceiveOtherVersion(p, c)
      PROVE  TypeOK'
  BY <1>2 DEF ReceiveOtherVersion, Closing, tables, inQ, outQ, httpQ
<1>3. ASSUME NEW p \in Peers, NEW c \in ConnectionIds, ReceiveAuth(p, c)
      PROVE  TypeOK'
  <2>1. NetMessage("AUTH", c) \in NetworkINToSimulationMessage
    BY NetMessageType DEF NetMessageTypes
  <2> QED  BY <1>3, <2>1 DEF ReceiveAuth, Accept, tables, enet, inQ, outQ, httpQ
<1>4. ASSUME NEW p \in Peers, NEW c \in ConnectionIds, ReceiveReady(p, c)
      PROVE  TypeOK'
  <2>1. NetMessage("READY", c) \in NetworkINToSimulationMessage
    BY NetMessageType DEF NetMessageTypes
  <2> QED  BY <1>4, <2>1 DEF ReceiveReady, Accept, tables, enet, inQ, outQ, httpQ
<1>5. CASE PushAccepted
  <2>1. accepted \in NetworkINToSimulationMessage
    BY <1>5 DEF PushAccepted
  <2>2. netToSim' \in Seq(NetworkINToSimulationMessage)
    BY <1>5, <2>1 DEF PushAccepted
  <2> QED  BY <1>5, <2>2 DEF PushAccepted, tables, enet, outQ, httpQ
<1>6. CASE DrainSimulationToNetwork
  BY <1>6 DEF DrainSimulationToNetwork, tables, enet, inQ, httpQ
<1>7. CASE SendReliable
  <2>1. netOutBatch # <<>>  BY <1>7 DEF SendReliable
  <2>2. /\ Head(netOutBatch) \in SimulationToNetworkOUTMessage
        /\ netOutBatch' \in Seq(SimulationToNetworkOUTMessage)
    BY <1>7, <2>1, TailType DEF SendReliable
  <2>3. /\ unacked' \subseteq ReliableAckActionContext
        /\ peerPhase' \in [Peers -> {"free", "connected", "closing"}]
    <3> DEFINE msg == Head(netOutBatch)
               p   == connectionIdToEnetPeer[msg.connectionId]
    <3>1. CASE msg.connectionId \notin DOMAIN connectionIdToEnetPeer
      BY <1>7, <3>1 DEF SendReliable
    <3>2. CASE msg.connectionId \in DOMAIN connectionIdToEnetPeer
      <4>1. p \in Peers  BY <3>2
      <4>2. Sent(p, msg) \/ SendFailed(p, msg) \/ PacketNotCreated
        BY <1>7, <3>2 DEF SendReliable
      <4>3. CASE Sent(p, msg)
        BY <2>2, <4>1, <4>3 DEF Sent, ReliableAckActionContext, SimulationToNetworkOUTMessage
      <4>4. CASE SendFailed(p, msg)
        BY <4>1, <4>4 DEF SendFailed, Closing
      <4>5. CASE PacketNotCreated
        BY <4>5 DEF PacketNotCreated
      <4> QED  BY <4>2, <4>3, <4>4, <4>5
    <3> QED  BY <3>1, <3>2
  <2> QED  BY <1>7, <2>2, <2>3 DEF SendReliable, tables, inQ, httpQ
<1>8. ASSUME NEW ctx \in unacked, Acknowledged(ctx)
      PROVE  TypeOK'
  <2>1. ctx \in ReliableAckActionContext  OBVIOUS
  <2>2. unacked' \subseteq ReliableAckActionContext  BY <1>8 DEF Acknowledged
  <2>3. peerPhase' \in [Peers -> {"free", "connected", "closing"}]
    BY <1>8 DEF Acknowledged, Closing
  <2>4. CASE AckActionAllowed(ctx) /\ ctx.enableEncryptionAfterAck
    <3> DEFINE c == peerData[ctx.peer]
    <3>1. c \in ConnectionIds
      BY <2>1, <2>4 DEF AckActionAllowed, StillBound
    <3>2. EnableEncryption(ctx.peer)
      BY <1>8, <2>4 DEF Acknowledged
    <3>3. /\ DOMAIN connectionIdToEncryptionEnabled' \subseteq ConnectionIds
          /\ \A d \in DOMAIN connectionIdToEncryptionEnabled' :
               connectionIdToEncryptionEnabled'[d] \in BOOLEAN
      BY <3>1, <3>2 DEF EnableEncryption, Put
    <3>4. /\ DOMAIN sessions' = DOMAIN sessions
          /\ \A d \in DOMAIN sessions' : sessions'[d] \in Session
      <4> HIDE DEF TypeOK
      <4>1. \A d \in DOMAIN sessions : sessions[d] \in Session  BY DEF TypeOK
      <4>2. \A d \in DOMAIN sessions :
              [sessions[d] EXCEPT !.isPacketEncryptionEnabled = TRUE] \in Session
        BY <4>1 DEF Session
      <4> QED  BY <3>2, <4>1, <4>2 DEF EnableEncryption
    <3> QED
      BY <1>8, <2>2, <2>3, <3>3, <3>4 DEF Acknowledged, inQ, outQ, httpQ
  <2>5. CASE ~(AckActionAllowed(ctx) /\ ctx.enableEncryptionAfterAck)
    BY <1>8, <2>2, <2>3, <2>5 DEF Acknowledged, inQ, outQ, httpQ
  <2> QED  BY <2>4, <2>5
<1>9. ASSUME NEW ctx \in unacked, Freed(ctx)
      PROVE  TypeOK'
  BY <1>9 DEF Freed, tables, inQ, outQ, httpQ
<1> QED
  BY <1>1, <1>2, <1>3, <1>4, <1>5, <1>6, <1>7, <1>8, <1>9, TypeConnect, TypeDisconnect
     DEF NetworkThread
LEMMA TypeSimulation ==
  ASSUME TypeOK, SimulationThread
  PROVE  TypeOK'
<1> USE ConstantsAssumption
<1> USE DEF TypeOK
<1>1. CASE DrainQueues
  BY <1>1 DEF DrainQueues, tables, enet, outQ
(* The handlers of network messages change the sessions and push answers.  *)
<1>2. ASSUME NEW type \in NetMessageTypes, NEW msg, Process(msg, type),
             DOMAIN sessions' \subseteq ConnectionIds,
             \A c \in DOMAIN sessions' : sessions'[c] \in Session,
             simToNet' \in Seq(SimulationToNetworkOUTMessage),
             simToHttp' \in Seq(ConnectionIds)
      PROVE  TypeOK'
  <2>1. simNetBatch' \in Seq(NetworkINToSimulationMessage)
    BY <1>2, TailType DEF Process
  <2> QED  BY <1>2, <2>1 DEF Process, tables, enet
<1>3. ASSUME NEW type \in NetMessageTypes, NEW msg, Process(msg, type)
      PROVE  /\ msg = Head(simNetBatch)
             /\ msg \in NetworkINToSimulationMessage
  BY <1>3, TailType DEF Process
<1> DEFINE msg == Head(simNetBatch)
           c == msg.connectionId
<1>a. msg \in NetworkINToSimulationMessage => c \in ConnectionIds /\ msg.key \in ClientKeys \cup {NoKey}
  BY DEF NetworkINToSimulationMessage
<1>s. ASSUME NEW s \in Session, c \in DOMAIN sessions, sessions' = [sessions EXCEPT ![c] = s]
      PROVE  /\ DOMAIN sessions' \subseteq ConnectionIds
             /\ \A d \in DOMAIN sessions' : sessions'[d] \in Session
  BY <1>s, UpdateFacts
<1>4. CASE HandleConnect
  <2>1. Process(msg, "CONNECT") /\ sessions' = Put(sessions, c, NewSession)
    BY <1>4 DEF HandleConnect
  <2>2. c \in ConnectionIds
    BY <1>3, <1>a, <2>1 DEF NetMessageTypes
  <2>3. NewSession \in Session
    BY DEF NewSession, Session, AuthStatus
  <2>4. /\ DOMAIN sessions' \subseteq ConnectionIds
        /\ \A d \in DOMAIN sessions' : sessions'[d] \in Session
    BY <2>1, <2>2, <2>3 DEF Put
  <2> QED  BY <1>2, <1>4, <2>1, <2>4 DEF HandleConnect, NetMessageTypes
<1>5. CASE HandleDisconnect
  <2>1. Process(msg, "DISCONNECT") /\ sessions' = Erase(sessions, c)
    BY <1>5 DEF HandleDisconnect
  <2>2. /\ DOMAIN sessions' \subseteq ConnectionIds
        /\ \A d \in DOMAIN sessions' : sessions'[d] \in Session
    BY <2>1 DEF Erase
  <2> QED  BY <1>2, <1>5, <2>1, <2>2 DEF HandleDisconnect, NetMessageTypes
<1>6. CASE HandleHello
  <2>1. Process(msg, "HELLO") /\ simToHttp' = simToHttp
    BY <1>6 DEF HandleHello
  <2>2. c \in ConnectionIds /\ msg.key \in ClientKeys \cup {NoKey}
    BY <1>3, <1>a, <2>1 DEF NetMessageTypes
  <2>3. \/ sessions' = sessions
        \/ c \in DOMAIN sessions /\ sessions' = [sessions EXCEPT ![c] = KeysAccepted(sessions[c], msg.key)]
        \/ c \in DOMAIN sessions /\ sessions' = [sessions EXCEPT ![c] = KeysCleared(sessions[c])]
    BY <1>6 DEF HandleHello
  <2>4. /\ DOMAIN sessions' \subseteq ConnectionIds
        /\ \A d \in DOMAIN sessions' : sessions'[d] \in Session
    <3>1. CASE sessions' = sessions  BY <3>1
    <3>2. CASE sessions' # sessions
      <4>1. c \in DOMAIN sessions  BY <2>3, <3>2
      <4>2. sessions[c] \in Session  BY <4>1
      <4>3. /\ KeysAccepted(sessions[c], msg.key) \in Session
            /\ KeysCleared(sessions[c]) \in Session
        BY <2>2, <4>2, SessionTypes DEF AuthStatus
      <4> QED  BY <1>s, <2>3, <3>2, <4>1, <4>3
    <3> QED  BY <3>1, <3>2
  <2>5. ASSUME NEW ok \in BOOLEAN
        PROVE  [connectionId |-> c, disconnectAfterAck |-> ~ok,
                enableEncryptionAfterAck |-> ok] \in SimulationToNetworkOUTMessage
    BY <2>2 DEF SimulationToNetworkOUTMessage
  <2>6. \/ simToNet' = simToNet
        \/ \E ok \in BOOLEAN :
             simToNet' = Append(simToNet, [connectionId |-> c, disconnectAfterAck |-> ~ok,
                                           enableEncryptionAfterAck |-> ok])
    BY <1>6 DEF HandleHello
  <2>7. simToNet' \in Seq(SimulationToNetworkOUTMessage)
    <3>1. CASE simToNet' = simToNet  BY <3>1
    <3>2. ASSUME NEW ok \in BOOLEAN,
                 simToNet' = Append(simToNet, [connectionId |-> c, disconnectAfterAck |-> ~ok,
                                               enableEncryptionAfterAck |-> ok])
          PROVE  simToNet' \in Seq(SimulationToNetworkOUTMessage)
      BY <2>5, <3>2, AppendProperties
    <3> QED  BY <2>6, <3>1, <3>2
  <2> QED  BY <1>2, <2>1, <2>4, <2>7 DEF NetMessageTypes
<1>7. CASE HandleAuth
  <2>1. Process(msg, "AUTH") /\ simToNet' = simToNet
    BY <1>7 DEF HandleAuth
  <2>2. CASE MayValidate(c)
    <3>1. /\ c \in DOMAIN sessions
          /\ sessions' = [sessions EXCEPT ![c] = [sessions[c] EXCEPT !.authStatus = "WaitingAuth"]]
          /\ simToHttp' = Append(simToHttp, c)
      BY <1>7, <2>2 DEF HandleAuth, MayValidate
    <3>2. [sessions[c] EXCEPT !.authStatus = "WaitingAuth"] \in Session
      BY <3>1, SessionTypes DEF AuthStatus
    <3>3. simToHttp' \in Seq(ConnectionIds)  BY <3>1
    <3> QED  BY <1>2, <1>s, <2>1, <3>1, <3>2, <3>3 DEF NetMessageTypes
  <2>3. CASE ~MayValidate(c)
    BY <1>2, <1>7, <2>1, <2>3 DEF HandleAuth, NetMessageTypes
  <2> QED  BY <2>2, <2>3
<1>8. CASE HandleReady
  <2>1. Process(msg, "READY") /\ simToNet' = simToNet /\ simToHttp' = simToHttp
    BY <1>8 DEF HandleReady
  <2>2. CASE c \in DOMAIN sessions
    <3>1. sessions' = [sessions EXCEPT ![c] = [sessions[c] EXCEPT !.isReadyForMatch = TRUE]]
      BY <1>8, <2>2 DEF HandleReady
    <3>2. [sessions[c] EXCEPT !.isReadyForMatch = TRUE] \in Session
      BY <2>2, SessionTypes DEF AuthStatus
    <3> QED  BY <1>2, <1>s, <2>1, <2>2, <3>1, <3>2 DEF NetMessageTypes
  <2>3. CASE c \notin DOMAIN sessions
    BY <1>2, <1>8, <2>1, <2>3 DEF HandleReady, NetMessageTypes
  <2> QED  BY <2>2, <2>3
<1>9. CASE HandleValidateTokenResponse
  <2> DEFINE answer == Head(simHttpBatch)
             d == answer.connectionId
             status == IF answer.isValid THEN "Valid" ELSE "Invalid"
  <2>1. /\ answer \in HttpToSimulationMessage
        /\ simHttpBatch' \in Seq(HttpToSimulationMessage)
    BY <1>9, TailType DEF HandleValidateTokenResponse
  <2>2. CASE d \in DOMAIN sessions
    <3>1. /\ sessions' = [sessions EXCEPT ![d] = [sessions[d] EXCEPT !.authStatus = status]]
          /\ simToNet' = Append(simToNet,
               [connectionId |-> d, disconnectAfterAck |-> ~answer.isValid,
                enableEncryptionAfterAck |-> FALSE])
      BY <1>9, <2>2 DEF HandleValidateTokenResponse
    <3>2. [sessions[d] EXCEPT !.authStatus = status] \in Session
      BY <2>2, SessionTypes DEF AuthStatus
    <3>3. /\ DOMAIN sessions' \subseteq ConnectionIds
          /\ \A e \in DOMAIN sessions' : sessions'[e] \in Session
      BY <2>2, <3>1, <3>2, UpdateFacts
    <3>4. [connectionId |-> d, disconnectAfterAck |-> ~answer.isValid,
           enableEncryptionAfterAck |-> FALSE] \in SimulationToNetworkOUTMessage
      BY <2>1 DEF HttpToSimulationMessage, SimulationToNetworkOUTMessage
    <3>5. simToNet' \in Seq(SimulationToNetworkOUTMessage)
      BY <3>1, <3>4
    <3> QED
      BY <1>9, <2>1, <3>3, <3>5 DEF HandleValidateTokenResponse, tables, enet, inQ
  <2>3. CASE d \notin DOMAIN sessions
    BY <1>9, <2>1, <2>3 DEF HandleValidateTokenResponse, tables, enet, inQ
  <2> QED  BY <2>2, <2>3
<1> QED
  BY <1>1, <1>4, <1>5, <1>6, <1>7, <1>8, <1>9 DEF SimulationThread

LEMMA TypeHttp ==
  ASSUME TypeOK, HttpThread
  PROVE  TypeOK'
<1> USE DEF TypeOK
<1>1. CASE DrainRequests
  BY <1>1 DEF DrainRequests, tables, enet, inQ, outQ
<1>2. ASSUME NEW isValid \in BOOLEAN, ValidateToken(isValid)
      PROVE  TypeOK'
  <2>1. Head(httpBatch) \in ConnectionIds /\ httpBatch' \in Seq(ConnectionIds)
    BY <1>2, TailType DEF ValidateToken
  <2>2. [connectionId |-> Head(httpBatch), isValid |-> isValid] \in HttpToSimulationMessage
    BY <2>1 DEF HttpToSimulationMessage
  <2>3. httpToSim' \in Seq(HttpToSimulationMessage)
    BY <1>2, <2>2 DEF ValidateToken
  <2> QED  BY <1>2, <2>1, <2>3 DEF ValidateToken, tables, enet, inQ, outQ
<1> QED  BY <1>1, <1>2 DEF HttpThread

LEMMA TypeStep ==
  ASSUME TypeOK, [Next]_vars
  PROVE  TypeOK'
<1>1. CASE UNCHANGED vars
  BY <1>1 DEF TypeOK, vars, tables, enet, inQ, outQ, httpQ
<1> QED  BY <1>1, TypeNetwork, TypeSimulation, TypeHttp DEF Next

(* Type correctness of the composed threads.                               *)
THEOREM TypeCorrect == Spec => []TypeOK
BY TypeInit, TypeStep, PTL DEF Spec
=============================================================================
