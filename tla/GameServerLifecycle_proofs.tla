----------------------- MODULE GameServerLifecycle_proofs ---------------------
(***************************************************************************)
(* The server implements ClientLifecycle, for any number of slots,         *)
(* connections and keys: every step of a thread moves one client as that   *)
(* module allows, or none.  And the sessions, which the threads create and *)
(* destroy long after ENet did so, never outnumber the slots.              *)
(***************************************************************************)
EXTENDS GameServer_proofs, FiniteSetTheorems

-----------------------------------------------------------------------------
(* The refinement mapping.                                                 *)

StageOfStatus(status) ==
  CASE status = "None"        -> "connected"
    [] status = "WaitingAuth" -> "validating"
    [] status = "Valid"       -> "valid"
    [] OTHER                  -> "invalid"

NotYet(c) == c >= nextConnectionId \/ Waiting("CONNECT", c)

(* What decides the stage of c is the same before and after a step.        *)
SameLife(c) ==
  /\ (c \in DOMAIN sessions)' <=> c \in DOMAIN sessions
  /\ c \in DOMAIN sessions => sessions'[c].authStatus = sessions[c].authStatus
  /\ c \notin DOMAIN sessions => (NotYet(c)' <=> NotYet(c))

LEMMA StageFacts ==
  ASSUME NEW c \in ConnectionIds
  PROVE  /\ Stage[c] = IF c \in DOMAIN sessions THEN StageOfStatus(sessions[c].authStatus)
                       ELSE IF NotYet(c) THEN "absent" ELSE "gone"
         /\ Stage'[c] = IF (c \in DOMAIN sessions)' THEN StageOfStatus(sessions'[c].authStatus)
                        ELSE IF NotYet(c)' THEN "absent" ELSE "gone"
BY DEF Stage, StageOfStatus, NotYet

LEMMA StageDomain == DOMAIN Stage = ConnectionIds /\ DOMAIN Stage' = ConnectionIds
BY DEF Stage

LEMMA StageFrame ==
  ASSUME NEW c \in ConnectionIds, \A d \in ConnectionIds \ {c} : SameLife(d)
  PROVE  Stage' = [Stage EXCEPT ![c] = Stage'[c]]
<1>1. \A d \in ConnectionIds \ {c} : Stage'[d] = Stage[d]
  BY StageFacts DEF SameLife
<1>2. \A d \in ConnectionIds : Stage'[d] = [Stage EXCEPT ![c] = Stage'[c]][d]
  BY <1>1, StageDomain
<1>3. Stage' = [d \in ConnectionIds |-> Stage'[d]]
  BY DEF Stage
<1> QED  BY <1>2, <1>3, StageDomain

LEMMA StageSame ==
  ASSUME \A d \in ConnectionIds : SameLife(d)
  PROVE  Stage' = Stage
<1>1. \A d \in ConnectionIds : Stage'[d] = Stage[d]
  BY StageFacts DEF SameLife
<1>2. /\ Stage = [d \in ConnectionIds |-> Stage[d]]
      /\ Stage' = [d \in ConnectionIds |-> Stage'[d]]
  BY DEF Stage
<1> QED  BY <1>1, <1>2

(* Steps the match does not notice.                                        *)
Unnoticed == Stage' = Stage /\ Ready' = Ready

LEMMA StepUnnoticed ==
  ASSUME DOMAIN sessions' = DOMAIN sessions,
         \A c \in DOMAIN sessions :
           /\ sessions'[c].authStatus = sessions[c].authStatus
           /\ sessions'[c].isReadyForMatch = sessions[c].isReadyForMatch,
         nextConnectionId' = nextConnectionId,
         \A c : Waiting("CONNECT", c)' <=> Waiting("CONNECT", c)
  PROVE  Unnoticed
<1>1. \A d \in ConnectionIds : SameLife(d)
  BY DEF SameLife, NotYet
<1>2. Ready' = Ready
  BY DEF Ready
<1> QED  BY <1>1, <1>2, StageSame DEF Unnoticed

(* A step of the abstract specification from its parts.                    *)
LEMMA StepOf ==
  ASSUME NEW c \in ConnectionIds, \A d \in ConnectionIds \ {c} : SameLife(d),
         \/ Stage[c] = "absent" /\ Stage'[c] = "connected" /\ Ready' = Ready
         \/ Stage[c] = "connected" /\ Stage'[c] = "validating" /\ Ready' = Ready
         \/ Stage[c] = "validating" /\ Stage'[c] \in {"valid", "invalid"} /\ Ready' = Ready
         \/ /\ Stage[c] \in {"connected", "validating", "valid", "invalid"}
            /\ Stage'[c] = "gone" /\ Ready' = Ready \ {c}
  PROVE  Lifecycle!LifecycleNext
<1>1. Stage' = [Stage EXCEPT ![c] = Stage'[c]]
  BY StageFrame
<1>2. Lifecycle!ClientStep(c)
  BY <1>1 DEF Lifecycle!ClientStep, Lifecycle!Join, Lifecycle!SubmitToken, Lifecycle!Decide,
     Lifecycle!Leave, Lifecycle!Move, Lifecycle!Stages
<1> QED  BY <1>2 DEF Lifecycle!LifecycleNext

-----------------------------------------------------------------------------
(* The network thread: no step of it is noticed.                           *)

LEMMA LifeConnect ==
  ASSUME IInv, TypeOK', NEW p \in Peers, Connect(p)
  PROVE  Unnoticed
<1> DEFINE c == nextConnectionId
           m == NetMessage("CONNECT", c)
<1>1. /\ c \in ConnectionIds /\ c \in Nat /\ c' = c + 1 /\ sessions' = sessions
      /\ netToSim' = Append(netToSim, m) /\ simNetBatch' = simNetBatch
  BY ConstantsAssumption DEF Connect, IInv, TypeOK, ConnectionIds
<1>2. /\ m \in NetworkINToSimulationMessage /\ m.type = "CONNECT" /\ m.connectionId = c
  BY <1>1, NetMessageType DEF NetMessageTypes, NetMessage
<1> HIDE DEF m
<1>3. \A d : Waiting("CONNECT", d)' <=> Waiting("CONNECT", d) \/ d = c
  BY <1>1, <1>2, PendingPushed DEF IInv
<1>4. ASSUME NEW d \in ConnectionIds PROVE SameLife(d)
  <2>1. d \in Nat  BY ConstantsAssumption DEF ConnectionIds
  <2> QED  BY <1>1, <1>3, <2>1 DEF SameLife, NotYet
<1>5. Ready' = Ready  BY <1>1 DEF Ready
<1> QED  BY <1>4, <1>5, StageSame DEF Unnoticed

LEMMA LifePushed ==
  ASSUME IInv, NEW m \in NetworkINToSimulationMessage, m.type # "CONNECT",
         netToSim' = Append(netToSim, m),
         UNCHANGED <<nextConnectionId, sessions, simNetBatch>>
  PROVE  Unnoticed
<1>1. \A d : Waiting("CONNECT", d)' <=> Waiting("CONNECT", d)
  BY PendingPushed DEF IInv
<1> QED  BY <1>1, StepUnnoticed

LEMMA LifeQuiet ==
  ASSUME UNCHANGED <<nextConnectionId, sessions, simNetBatch, netToSim>>
  PROVE  Unnoticed
<1>1. \A d : Waiting("CONNECT", d)' <=> Waiting("CONNECT", d)
  BY PendingSame DEF Pending
<1> QED  BY <1>1, StepUnnoticed

LEMMA LifeDisconnect ==
  ASSUME IInv, TypeOK', NEW p \in Peers, Disconnect(p)
  PROVE  Unnoticed
<1>1. UNCHANGED <<nextConnectionId, sessions, simNetBatch>>
  BY DEF Disconnect, tables
<1>2. CASE peerData[p] = 0
  BY <1>1, <1>2, LifeQuiet DEF Disconnect
<1>3. CASE peerData[p] # 0
  <2> DEFINE m == NetMessage("DISCONNECT", peerData[p])
  <2>1. peerData[p] \in ConnectionIds
    BY <1>3 DEF IInv, TypeOK
  <2>2. m \in NetworkINToSimulationMessage /\ m.type # "CONNECT"
    BY <2>1, NetMessageType DEF NetMessageTypes, NetMessage
  <2>3. netToSim' = Append(netToSim, m)
    BY <1>3 DEF Disconnect
  <2> HIDE DEF m
  <2> QED  BY <1>1, <2>2, <2>3, LifePushed
<1> QED  BY <1>2, <1>3

LEMMA LifeAcknowledged ==
  ASSUME IInv, NEW ctx \in unacked, Acknowledged(ctx)
  PROVE  Unnoticed
<1>1. /\ UNCHANGED <<nextConnectionId, simNetBatch, netToSim>>
      /\ sessions' = sessions \/ EnableEncryption(ctx.peer)
  BY DEF Acknowledged, inQ
<1>2. \A d : Waiting("CONNECT", d)' <=> Waiting("CONNECT", d)
  BY <1>1, PendingSame DEF Pending
<1>3. \A d \in DOMAIN sessions : sessions[d] \in Session
  BY DEF IInv, TypeOK
<1>4. /\ DOMAIN sessions' = DOMAIN sessions
      /\ \A d \in DOMAIN sessions :
           /\ sessions'[d].authStatus = sessions[d].authStatus
           /\ sessions'[d].isReadyForMatch = sessions[d].isReadyForMatch
  <2> DEFINE c == peerData[ctx.peer]
             s == [sessions[c] EXCEPT !.isPacketEncryptionEnabled = TRUE]
  <2>1. sessions' = sessions \/ (c \in DOMAIN sessions /\ sessions' = [sessions EXCEPT ![c] = s])
    BY <1>1 DEF EnableEncryption
  <2>2. c \in DOMAIN sessions =>
          s.authStatus = sessions[c].authStatus /\ s.isReadyForMatch = sessions[c].isReadyForMatch
    BY <1>3 DEF Session
  <2> HIDE DEF s, c
  <2>3. CASE sessions' = sessions  BY <2>3
  <2>4. CASE c \in DOMAIN sessions /\ sessions' = [sessions EXCEPT ![c] = s]
    BY <2>2, <2>4, UpdateFacts
  <2> QED  BY <2>1, <2>3, <2>4
<1> QED  BY <1>1, <1>2, <1>4, StepUnnoticed

LEMMA LifeNetwork ==
  ASSUME IInv, TypeOK', NetworkThread
  PROVE  Unnoticed
<1>1. ASSUME NEW p \in Peers, NEW c \in ConnectionIds, NEW key \in ClientKeys,
             ReceiveHello(p, c, key)
      PROVE  Unnoticed
  <2> DEFINE m == [type |-> "HELLO", connectionId |-> c, key |-> key]
  <2>1. m \in NetworkINToSimulationMessage /\ m.type # "CONNECT"
    BY DEF NetworkINToSimulationMessage, NetMessageTypes
  <2>2. netToSim' = Append(netToSim, m) /\ UNCHANGED <<nextConnectionId, sessions, simNetBatch>>
    BY <1>1 DEF ReceiveHello, tables
  <2> HIDE DEF m
  <2> QED  BY <2>1, <2>2, LifePushed
<1>2. ASSUME NEW p \in Peers, NEW c \in ConnectionIds,
             ReceiveOtherVersion(p, c) \/ ReceiveAuth(p, c) \/ ReceiveReady(p, c)
      PROVE  Unnoticed
  BY <1>2, LifeQuiet DEF ReceiveOtherVersion, ReceiveAuth, ReceiveReady, Accept, tables, inQ
(* What was accepted is an AUTH or a READY.                                *)
<1>3. CASE PushAccepted
  <2>1. accepted \in NetworkINToSimulationMessage /\ accepted.type # "CONNECT"
    BY <1>3 DEF PushAccepted, IInv, TypeOK, AcceptedFits
  <2>2. /\ netToSim' = Append(netToSim, accepted)
        /\ UNCHANGED <<nextConnectionId, sessions, simNetBatch>>
    BY <1>3 DEF PushAccepted, tables
  <2> QED  BY <2>1, <2>2, LifePushed
<1>4. CASE DrainSimulationToNetwork \/ SendReliable \/ \E ctx \in unacked : Freed(ctx)
  BY <1>4, LifeQuiet DEF DrainSimulationToNetwork, SendReliable, Freed, tables, inQ
<1> QED
  BY <1>1, <1>2, <1>3, <1>4, LifeConnect, LifeDisconnect, LifeAcknowledged DEF NetworkThread

-----------------------------------------------------------------------------
(* The simulation thread.                                                  *)

LEMMA LifeHandleConnect ==
  ASSUME IInv, HandleConnect
  PROVE  Lifecycle!LifecycleNext
<1>1. PICK msg :
        /\ Process(msg, "CONNECT")
        /\ sessions' = Put(sessions, msg.connectionId, NewSession)
  BY DEF HandleConnect
<1> DEFINE c == msg.connectionId
<1>2. /\ c \in ConnectionIds /\ Waiting("CONNECT", c) /\ ~Waiting("CONNECT", c)'
      /\ \A t, d : Waiting(t, d)' => Waiting(t, d)
      /\ \A t, d : Waiting(t, d) => Waiting(t, d)' \/ (t = "CONNECT" /\ d = c)
      /\ nextConnectionId' = nextConnectionId
  BY <1>1, ProcessFacts DEF NetMessageTypes
<1>3. c \notin DOMAIN sessions
  BY <1>2 DEF IInv, PendingFits, Unborn
<1> HIDE DEF c
<1>4. /\ DOMAIN sessions' = DOMAIN sessions \cup {c}
      /\ sessions'[c] = NewSession
      /\ \A d \in DOMAIN sessions : sessions'[d] = sessions[d]
  BY <1>1, <1>3 DEF Put, c
<1>5. \A d \in ConnectionIds \ {c} : SameLife(d)
  BY <1>2, <1>4 DEF SameLife, NotYet
<1>6. Stage[c] = "absent"
  BY <1>2, <1>3, StageFacts DEF NotYet
<1>7. Stage'[c] = "connected"
  BY <1>2, <1>4, StageFacts DEF StageOfStatus, NewSession
<1>8. Ready' = Ready
  BY <1>3, <1>4 DEF Ready, NewSession
<1> QED  BY <1>2, <1>5, <1>6, <1>7, <1>8, StepOf

LEMMA LifeHandleDisconnect ==
  ASSUME IInv, HandleDisconnect
  PROVE  Lifecycle!LifecycleNext \/ Unnoticed
<1>1. PICK msg :
        /\ Process(msg, "DISCONNECT")
        /\ sessions' = Erase(sessions, msg.connectionId)
  BY DEF HandleDisconnect
<1> DEFINE c == msg.connectionId
<1>2. /\ c \in ConnectionIds /\ Waiting("DISCONNECT", c)
      /\ \A t, d : Waiting(t, d)' => Waiting(t, d)
      /\ \A t, d : Waiting(t, d) => Waiting(t, d)' \/ (t = "DISCONNECT" /\ d = c)
      /\ \A t : ~Waiting(t, c)'
      /\ nextConnectionId' = nextConnectionId
  BY <1>1, ProcessFacts DEF NetMessageTypes
(* The identifier was handed out, so that the end is not a beginning.      *)
<1>3. c < nextConnectionId
  BY <1>2 DEF IInv, IdentifiersIssued, NetMessageTypes
<1>4. \A d : Waiting("CONNECT", d)' <=> Waiting("CONNECT", d)
  BY <1>2
<1> HIDE DEF c
<1>5. /\ DOMAIN sessions' = DOMAIN sessions \ {c}
      /\ \A d \in DOMAIN sessions : d # c => sessions'[d] = sessions[d]
  BY <1>1, EraseFacts DEF c
<1>6. CASE c \notin DOMAIN sessions
  BY <1>2, <1>4, <1>5, <1>6, StepUnnoticed
<1>7. CASE c \in DOMAIN sessions
  <2>1. \A d \in ConnectionIds \ {c} : SameLife(d)
    BY <1>2, <1>4, <1>5 DEF SameLife, NotYet
  <2>2. Stage[c] \in {"connected", "validating", "valid", "invalid"}
    BY <1>2, <1>7, StageFacts DEF StageOfStatus
  <2>3. Stage'[c] = "gone"
    <3>1. ~NotYet(c)'
      BY <1>2, <1>3, ConstantsAssumption DEF NotYet, IInv, TypeOK, ConnectionIds
    <3> QED  BY <1>2, <1>5, <3>1, StageFacts
  <2>4. Ready' = Ready \ {c}
    BY <1>5 DEF Ready
  <2> QED  BY <1>2, <2>1, <2>2, <2>3, <2>4, StepOf
<1> QED  BY <1>6, <1>7

LEMMA LifeHandleHello ==
  ASSUME IInv, HandleHello
  PROVE  Unnoticed
<1>1. PICK msg :
        /\ Process(msg, "HELLO")
        /\ \/ sessions' = sessions
           \/ /\ msg.connectionId \in DOMAIN sessions
              /\ \/ sessions' = [sessions EXCEPT ![msg.connectionId] = KeysAccepted(@, msg.key)]
                 \/ sessions' = [sessions EXCEPT ![msg.connectionId] = KeysCleared(@)]
  BY DEF HandleHello
<1> DEFINE c == msg.connectionId
<1>2. /\ \A t, d : Waiting(t, d)' => Waiting(t, d)
      /\ \A t, d : Waiting(t, d) => Waiting(t, d)' \/ (t = "HELLO" /\ d = c)
      /\ nextConnectionId' = nextConnectionId
  BY <1>1, ProcessFacts DEF NetMessageTypes
<1>3. \A d : Waiting("CONNECT", d)' <=> Waiting("CONNECT", d)
  BY <1>2
<1>4. \A d \in DOMAIN sessions : sessions[d] \in Session
  BY DEF IInv, TypeOK
<1> HIDE DEF c
<1>5. CASE sessions' = sessions
  BY <1>2, <1>3, <1>5, StepUnnoticed
<1>6. ASSUME NEW s, c \in DOMAIN sessions, sessions' = [sessions EXCEPT ![c] = s],
             s.authStatus = sessions[c].authStatus,
             s.isReadyForMatch = sessions[c].isReadyForMatch
      PROVE  Unnoticed
  <2>1. /\ DOMAIN sessions' = DOMAIN sessions
        /\ \A d \in DOMAIN sessions :
             /\ sessions'[d].authStatus = sessions[d].authStatus
             /\ sessions'[d].isReadyForMatch = sessions[d].isReadyForMatch
    BY <1>6, UpdateFacts
  <2> QED  BY <1>2, <1>3, <2>1, StepUnnoticed
<1>7. CASE c \in DOMAIN sessions
           /\ sessions' = [sessions EXCEPT ![c] = KeysAccepted(sessions[c], msg.key)]
  <2>1. /\ KeysAccepted(sessions[c], msg.key).authStatus = sessions[c].authStatus
        /\ KeysAccepted(sessions[c], msg.key).isReadyForMatch = sessions[c].isReadyForMatch
    BY <1>4, <1>7 DEF KeysAccepted, Session
  <2> QED  BY <1>6, <1>7, <2>1
<1>8. CASE c \in DOMAIN sessions
           /\ sessions' = [sessions EXCEPT ![c] = KeysCleared(sessions[c])]
  <2>1. /\ KeysCleared(sessions[c]).authStatus = sessions[c].authStatus
        /\ KeysCleared(sessions[c]).isReadyForMatch = sessions[c].isReadyForMatch
    BY <1>4, <1>8 DEF KeysCleared, Session
  <2> QED  BY <1>6, <1>8, <2>1
<1> QED  BY <1>1, <1>5, <1>7, <1>8 DEF c

(* One session changes, and nothing else that the match sees.              *)
LEMMA LifeOneSession ==
  ASSUME NEW c \in ConnectionIds, c \in DOMAIN sessions, NEW s,
         sessions' = [sessions EXCEPT ![c] = s],
         nextConnectionId' = nextConnectionId,
         \A d : Waiting("CONNECT", d)' <=> Waiting("CONNECT", d)
  PROVE  /\ \A d \in ConnectionIds \ {c} : SameLife(d)
         /\ Stage[c] = StageOfStatus(sessions[c].authStatus)
         /\ Stage'[c] = StageOfStatus(s.authStatus)
         /\ s.isReadyForMatch = sessions[c].isReadyForMatch => Ready' = Ready
         /\ s.isReadyForMatch => Ready' = Ready \cup {c}
<1>1. /\ DOMAIN sessions' = DOMAIN sessions
      /\ \A d \in DOMAIN sessions : sessions'[d] = IF d = c THEN s ELSE sessions[d]
  BY UpdateFacts
<1>2. \A d \in ConnectionIds \ {c} : SameLife(d)
  BY <1>1 DEF SameLife, NotYet
<1>3. /\ Stage[c] = StageOfStatus(sessions[c].authStatus)
      /\ Stage'[c] = StageOfStatus(s.authStatus)
  BY <1>1, StageFacts
<1>4. /\ s.isReadyForMatch = sessions[c].isReadyForMatch => Ready' = Ready
      /\ s.isReadyForMatch => Ready' = Ready \cup {c}
  BY <1>1 DEF Ready
<1> QED  BY <1>2, <1>3, <1>4

LEMMA LifeHandleAuth ==
  ASSUME IInv, HandleAuth
  PROVE  Lifecycle!LifecycleNext \/ Unnoticed
<1>1. PICK msg :
        /\ Process(msg, "AUTH")
        /\ IF MayValidate(msg.connectionId)
           THEN sessions' = [sessions EXCEPT ![msg.connectionId].authStatus = "WaitingAuth"]
           ELSE sessions' = sessions
  BY DEF HandleAuth
<1> DEFINE c == msg.connectionId
           s == [sessions[c] EXCEPT !.authStatus = "WaitingAuth"]
<1>2. /\ c \in ConnectionIds
      /\ \A d : Waiting("CONNECT", d)' <=> Waiting("CONNECT", d)
      /\ nextConnectionId' = nextConnectionId
  BY <1>1, ProcessFacts DEF NetMessageTypes
<1>3. CASE ~MayValidate(c)
  BY <1>1, <1>2, <1>3, StepUnnoticed
<1>4. CASE MayValidate(c)
  <2>1. /\ c \in DOMAIN sessions /\ sessions[c].authStatus = "None" /\ sessions[c] \in Session
        /\ sessions' = [sessions EXCEPT ![c] = s]
    BY <1>1, <1>4 DEF MayValidate, IInv, TypeOK
  <2>2. s.authStatus = "WaitingAuth" /\ s.isReadyForMatch = sessions[c].isReadyForMatch
    BY <2>1 DEF Session
  <2> HIDE DEF c, s
  <2>3. /\ \A d \in ConnectionIds \ {c} : SameLife(d)
        /\ Stage[c] = StageOfStatus("None") /\ Stage'[c] = StageOfStatus("WaitingAuth")
        /\ Ready' = Ready
    BY <1>2, <2>1, <2>2, LifeOneSession
  <2> QED  BY <1>2, <2>3, StepOf DEF StageOfStatus
<1> QED  BY <1>3, <1>4

LEMMA LifeHandleReady ==
  ASSUME IInv, HandleReady
  PROVE  Lifecycle!LifecycleNext
<1>1. PICK msg :
        /\ Process(msg, "READY")
        /\ sessions' = IF msg.connectionId \in DOMAIN sessions
                       THEN [sessions EXCEPT ![msg.connectionId].isReadyForMatch = TRUE]
                       ELSE sessions
  BY DEF HandleReady
<1> DEFINE c == msg.connectionId
           s == [sessions[c] EXCEPT !.isReadyForMatch = TRUE]
<1>2. /\ c \in ConnectionIds /\ Waiting("READY", c)
      /\ \A d : Waiting("CONNECT", d)' <=> Waiting("CONNECT", d)
      /\ nextConnectionId' = nextConnectionId
  BY <1>1, ProcessFacts DEF NetMessageTypes
(* The guard of the channel saw a valid session; it still is.              *)
<1>3. Valid(c)
  BY <1>2 DEF IInv, PendingFits
<1>4. /\ c \in DOMAIN sessions /\ sessions[c].authStatus = "Valid" /\ sessions[c] \in Session
      /\ sessions' = [sessions EXCEPT ![c] = s]
  BY <1>1, <1>3 DEF Valid, IInv, TypeOK
<1>5. s.authStatus = "Valid" /\ s.isReadyForMatch
  BY <1>4 DEF Session
<1> HIDE DEF c, s
<1>6. /\ \A d \in ConnectionIds \ {c} : SameLife(d)
      /\ Stage[c] = "valid" /\ Stage'[c] = "valid" /\ Ready' = Ready \cup {c}
  <2>1. /\ \A d \in ConnectionIds \ {c} : SameLife(d)
        /\ Stage[c] = StageOfStatus("Valid") /\ Stage'[c] = StageOfStatus("Valid")
        /\ s.isReadyForMatch => Ready' = Ready \cup {c}
    BY <1>2, <1>4, <1>5, LifeOneSession
  <2> QED  BY <1>5, <2>1 DEF StageOfStatus
<1>7. Stage' = Stage
  <2>1. Stage' = [Stage EXCEPT ![c] = Stage'[c]]
    BY <1>2, <1>6, StageFrame
  <2>2. Stage = [d \in ConnectionIds |-> Stage[d]]
    BY DEF Stage
  <2> HIDE DEF Stage
  <2> QED  BY <1>2, <1>6, <2>1, <2>2
<1>8. Lifecycle!ClientStep(c)
  BY <1>6, <1>7 DEF Lifecycle!ClientStep, Lifecycle!BecomeReady
<1> QED  BY <1>2, <1>8 DEF Lifecycle!LifecycleNext

LEMMA LifeHandleValidateTokenResponse ==
  ASSUME IInv, HandleValidateTokenResponse
  PROVE  Lifecycle!LifecycleNext \/ Unnoticed
<1>1. PICK msg :
        /\ msg = Head(simHttpBatch) /\ simHttpBatch # <<>>
        /\ simHttpBatch' = Tail(simHttpBatch)
        /\ IF msg.connectionId \in DOMAIN sessions
           THEN sessions' = [sessions EXCEPT ![msg.connectionId].authStatus =
                               IF msg.isValid THEN "Valid" ELSE "Invalid"]
           ELSE sessions' = sessions
  BY DEF HandleValidateTokenResponse
<1> DEFINE c == msg.connectionId
           status == IF msg.isValid THEN "Valid" ELSE "Invalid"
           s == [sessions[c] EXCEPT !.authStatus = status]
<1>2. /\ UNCHANGED <<nextConnectionId, simToHttp, httpBatch, httpToSim>>
      /\ \A d : Waiting("CONNECT", d)' <=> Waiting("CONNECT", d)
  <2>1. UNCHANGED <<nextConnectionId, simToHttp, httpBatch, httpToSim, netToSim, simNetBatch>>
    BY DEF HandleValidateTokenResponse, tables, inQ
  <2> QED  BY <2>1, PendingSame DEF Pending
<1>3. c \in ConnectionIds /\ Validating(c)
  BY <1>1, <1>2, ValidationTaken DEF IInv, OneValidationAtATime
<1>4. CASE c \notin DOMAIN sessions
  BY <1>1, <1>2, <1>4, StepUnnoticed
<1>5. CASE c \in DOMAIN sessions
  (* The session waits for this answer.                                    *)
  <2>1. /\ sessions[c].authStatus = "WaitingAuth" /\ sessions[c] \in Session
        /\ sessions' = [sessions EXCEPT ![c] = s]
    BY <1>1, <1>3, <1>5 DEF IInv, OneValidationAtATime, TypeOK
  <2>2. s.authStatus = status /\ s.isReadyForMatch = sessions[c].isReadyForMatch
    BY <2>1 DEF Session
  <2>3. status \in {"Valid", "Invalid"}  OBVIOUS
  <2> HIDE DEF c, s, status
  <2>4. /\ \A d \in ConnectionIds \ {c} : SameLife(d)
        /\ Stage[c] = StageOfStatus("WaitingAuth") /\ Stage'[c] = StageOfStatus(status)
        /\ Ready' = Ready
    BY <1>2, <1>3, <1>5, <2>1, <2>2, LifeOneSession
  <2>5. StageOfStatus(status) \in {"valid", "invalid"} /\ StageOfStatus("WaitingAuth") = "validating"
    BY <2>3 DEF StageOfStatus
  <2> QED  BY <1>3, <2>4, <2>5, StepOf
<1> QED  BY <1>4, <1>5

LEMMA LifeDrainQueues ==
  ASSUME IInv, DrainQueues
  PROVE  Unnoticed
<1>1. /\ UNCHANGED <<nextConnectionId, sessions>>
      /\ simNetBatch = <<>> /\ simNetBatch' = netToSim /\ netToSim' = <<>>
  BY DEF DrainQueues, tables
<1>2. Pending' = Pending
  BY <1>1, ConcatEmptySeq DEF Pending, IInv, TypeOK
<1>3. \A d : Waiting("CONNECT", d)' <=> Waiting("CONNECT", d)
  BY <1>2, PendingSame
<1> QED  BY <1>1, <1>3, StepUnnoticed

-----------------------------------------------------------------------------
(* The refinement.                                                         *)

LEMMA LifeInit == Init => Lifecycle!LifecycleInit
<1> SUFFICES ASSUME Init PROVE Lifecycle!LifecycleInit
  OBVIOUS
<1>1. DOMAIN sessions = {} /\ nextConnectionId = 1
  BY DEF Init, EmptyMap
<1>2. \A c \in ConnectionIds : Stage[c] = "absent"
  BY <1>1, StageFacts DEF NotYet, ConnectionIds
<1>3. Stage = [c \in ConnectionIds |-> Stage[c]]
  BY DEF Stage
<1>4. Stage = [c \in ConnectionIds |-> "absent"]
  BY <1>2, <1>3
<1>5. Ready = {}
  BY <1>1 DEF Ready
<1> QED  BY <1>4, <1>5 DEF Lifecycle!LifecycleInit

LEMMA LifeStep ==
  ASSUME IInv, [Next]_vars
  PROVE  [Lifecycle!LifecycleNext]_(Lifecycle!lifecycle)
<1>1. TypeOK'
  BY TypeStep DEF IInv
<1>2. Unnoticed => UNCHANGED Lifecycle!lifecycle
  BY DEF Unnoticed, Lifecycle!lifecycle
<1>3. CASE UNCHANGED vars \/ HttpThread
  <2>1. UNCHANGED <<nextConnectionId, sessions, simNetBatch, netToSim>>
    BY <1>3 DEF vars, HttpThread, DrainRequests, ValidateToken, tables, inQ
  <2> QED  BY <1>2, <2>1, LifeQuiet
<1>4. CASE NetworkThread
  BY <1>1, <1>2, <1>4, LifeNetwork
<1>5. CASE SimulationThread
  BY <1>2, <1>5, LifeDrainQueues, LifeHandleConnect, LifeHandleDisconnect, LifeHandleHello,
     LifeHandleAuth, LifeHandleReady, LifeHandleValidateTokenResponse DEF SimulationThread
<1> QED  BY <1>3, <1>4, <1>5 DEF Next

(* Every session lives the life that ClientLifecycle describes: it joins   *)
(* once, has one token validated, is ready only once valid, and never      *)
(* comes back after it left, though its life is spread over three threads. *)
THEOREM LifecycleIsImplemented == Spec => LifecycleImplemented
BY LifeInit, LifeStep, InvariantHolds, PTL
   DEF Spec, LifecycleImplemented, Lifecycle!LifecycleSpec

-----------------------------------------------------------------------------
(* The slots of the connections.                                           *)
(*                                                                         *)
(* A session lives on after its slot was given to another connection, so   *)
(* the tables cannot tell which slot a session came from.  HostedOn keeps  *)
(* the slot of every connection there ever was, in a witness: of two       *)
(* connections of one slot that the server still knows, the end of the     *)
(* first waits for the simulation before the beginning of the second.      *)

Living(c) ==
  c \in DOMAIN sessions \/ c \in DOMAIN connectionIdToEnetPeer \/ Waiting("CONNECT", c)

LeavesBefore(c, d) ==
  \E i, j \in 1 .. Len(Pending) :
    /\ i < j
    /\ Pending[i].type = "DISCONNECT" /\ Pending[i].connectionId = c
    /\ Pending[j].type = "CONNECT" /\ Pending[j].connectionId = d

HostedOn(slot) ==
  /\ slot \in [1 .. nextConnectionId - 1 -> Peers]
  /\ \A c \in DOMAIN connectionIdToEnetPeer : slot[c] = connectionIdToEnetPeer[c]
  /\ \A c, d \in 1 .. nextConnectionId - 1 :
       (c < d /\ Living(c) /\ Living(d) /\ slot[c] = slot[d]) => LeavesBefore(c, d)

Hosted == \E slot : HostedOn(slot)

LEMMA LeavesPushed ==
  ASSUME TypeOK, NEW m \in NetworkINToSimulationMessage,
         netToSim' = Append(netToSim, m), UNCHANGED simNetBatch
  PROVE  /\ \A c, d : LeavesBefore(c, d) => LeavesBefore(c, d)'
         /\ \A c, d : /\ Waiting("DISCONNECT", c)
                      /\ m.type = "CONNECT" /\ m.connectionId = d
                      => LeavesBefore(c, d)'
<1> DEFINE P == Pending
           n == Len(Pending)
<1>1. P \in Seq(NetworkINToSimulationMessage) /\ n \in Nat
  BY PendingType, LenProperties
<1>2. Pending' = Append(P, m)
  BY ConcatAppend DEF TypeOK, Pending
<1>3. /\ Len(Pending') = n + 1
      /\ \A i \in 1 .. n : Pending'[i] = P[i]
      /\ Pending'[n + 1] = m
  BY <1>1, <1>2, AppendProperties
<1> HIDE DEF P, n
<1>4. \A i \in 1 .. n : i \in 1 .. n + 1 /\ i < n + 1  BY <1>1
<1>5. n + 1 \in 1 .. n + 1  BY <1>1
<1>6. ASSUME NEW c, NEW d, LeavesBefore(c, d)
      PROVE  LeavesBefore(c, d)'
  <2>1. PICK i \in 1 .. n, j \in 1 .. n :
          /\ i < j /\ P[i].type = "DISCONNECT" /\ P[i].connectionId = c
          /\ P[j].type = "CONNECT" /\ P[j].connectionId = d
    BY <1>6 DEF LeavesBefore, P, n
  <2> QED  BY <1>3, <1>4, <2>1 DEF LeavesBefore
<1>7. ASSUME NEW c, NEW d, Waiting("DISCONNECT", c), m.type = "CONNECT", m.connectionId = d
      PROVE  LeavesBefore(c, d)'
  <2>1. PICK i \in 1 .. n : P[i].type = "DISCONNECT" /\ P[i].connectionId = c
    BY <1>7 DEF Waiting, P, n
  <2> QED  BY <1>3, <1>4, <1>5, <1>7, <2>1 DEF LeavesBefore
<1> QED  BY <1>6, <1>7

LEMMA LeavesTaken ==
  ASSUME TypeOK, NEW msg, NEW c, NEW d,
         simNetBatch # <<>>, msg = Head(simNetBatch),
         simNetBatch' = Tail(simNetBatch), UNCHANGED netToSim,
         msg.type = "DISCONNECT" => msg.connectionId # c,
         LeavesBefore(c, d)
  PROVE  LeavesBefore(c, d)'
<1> DEFINE P == Pending
           n == Len(Pending)
<1>1. P \in Seq(NetworkINToSimulationMessage) /\ n \in Nat
  BY PendingType, LenProperties
<1>2. P # <<>> /\ Head(P) = msg /\ Pending' = Tail(P)
  BY ConcatTail DEF TypeOK, Pending
<1>3. /\ n \in Nat \ {0} /\ P[1] = msg
      /\ Len(Pending') = n - 1
      /\ \A i \in 1 .. n - 1 : Pending'[i] = P[i + 1]
  BY <1>1, <1>2, HeadTailProperties, EmptySeq
<1> HIDE DEF P, n
<1>4. PICK i \in 1 .. n, j \in 1 .. n :
        /\ i < j /\ P[i].type = "DISCONNECT" /\ P[i].connectionId = c
        /\ P[j].type = "CONNECT" /\ P[j].connectionId = d
  BY DEF LeavesBefore, P, n
(* The end of c is not the message taken.                                  *)
<1>5. i # 1
  BY <1>3, <1>4
<1>6. /\ i - 1 \in 1 .. n - 1 /\ j - 1 \in 1 .. n - 1 /\ i - 1 < j - 1
      /\ Pending'[i - 1] = P[i] /\ Pending'[j - 1] = P[j]
  BY <1>3, <1>4, <1>5
<1> QED  BY <1>3, <1>4, <1>6 DEF LeavesBefore

(* No connection is added, and the order of those that stay is kept.       *)
LEMMA HostedKept ==
  ASSUME Hosted, nextConnectionId' = nextConnectionId,
         \A c \in DOMAIN connectionIdToEnetPeer' :
           /\ c \in DOMAIN connectionIdToEnetPeer
           /\ connectionIdToEnetPeer'[c] = connectionIdToEnetPeer[c],
         \A c \in ConnectionIds : Living(c)' => Living(c),
         \A c, d \in ConnectionIds :
           Living(c)' /\ LeavesBefore(c, d) => LeavesBefore(c, d)',
         nextConnectionId \in 1 .. MaxConnections + 1
  PROVE  Hosted'
<1>1. PICK slot : HostedOn(slot)
  BY DEF Hosted
<1>2. 1 .. nextConnectionId - 1 \subseteq ConnectionIds
  BY ConstantsAssumption DEF ConnectionIds
<1>3. HostedOn(slot)'
  BY <1>1, <1>2 DEF HostedOn
<1> QED  BY <1>3 DEF Hosted

LEMMA HostedQuiet ==
  ASSUME IInv, Hosted, UNCHANGED <<nextConnectionId, connectionIdToEnetPeer>>,
         DOMAIN sessions' = DOMAIN sessions, Pending' = Pending
  PROVE  Hosted'
<1>1. \A c : Living(c)' => Living(c)
  BY PendingSame DEF Living
<1>2. \A c, d : LeavesBefore(c, d) => LeavesBefore(c, d)'
  BY DEF LeavesBefore
<1> QED  BY <1>1, <1>2, HostedKept DEF IInv, TypeOK

LEMMA HostedPushed ==
  ASSUME IInv, Hosted, NEW m \in NetworkINToSimulationMessage, m.type # "CONNECT",
         netToSim' = Append(netToSim, m), UNCHANGED <<nextConnectionId, sessions, simNetBatch>>,
         \A c \in DOMAIN connectionIdToEnetPeer' :
           /\ c \in DOMAIN connectionIdToEnetPeer
           /\ connectionIdToEnetPeer'[c] = connectionIdToEnetPeer[c]
  PROVE  Hosted'
<1>1. \A c : Living(c)' => Living(c)
  BY PendingPushed DEF IInv, Living
<1>2. \A c, d : LeavesBefore(c, d) => LeavesBefore(c, d)'
  BY LeavesPushed DEF IInv
<1> QED  BY <1>1, <1>2, HostedKept DEF IInv, TypeOK

(* A slot is free for a new connection only when the end of the one before *)
(* it is on its way: it has left the tables, and SessionsAreOwned.         *)
LEMMA HostedConnect ==
  ASSUME IInv, TypeOK', Hosted, NEW p \in Peers, Connect(p)
  PROVE  Hosted'
<1>0. PICK n : n = nextConnectionId
  OBVIOUS
<1> DEFINE m == NetMessage("CONNECT", n)
<1>1. /\ n \in ConnectionIds /\ n \in Nat /\ n > 0 /\ nextConnectionId' = n + 1
      /\ sessions' = sessions /\ peerPhase[p] = "free"
      /\ connectionIdToEnetPeer' = Put(connectionIdToEnetPeer, n, p)
      /\ netToSim' = Append(netToSim, m) /\ simNetBatch' = simNetBatch
  BY <1>0, ConstantsAssumption DEF Connect, IInv, TypeOK, ConnectionIds
<1>2. m \in NetworkINToSimulationMessage /\ m.type = "CONNECT" /\ m.connectionId = n
  BY <1>1, NetMessageType DEF NetMessageTypes, NetMessage
<1>3. PICK slot : HostedOn(slot)
  BY DEF Hosted
<1> DEFINE slot2 == Put(slot, n, p)
<1>4. n \notin DOMAIN connectionIdToEnetPeer
  BY <1>0, <1>1 DEF IInv, IdentifiersIssued
<1>5. 1 .. (n + 1) - 1 = (1 .. n - 1) \cup {n} /\ n \notin 1 .. n - 1
  BY <1>1
<1>6. 1 .. n - 1 \subseteq ConnectionIds
  BY <1>1, ConstantsAssumption DEF ConnectionIds
<1> HIDE DEF m
<1>7. /\ slot2 \in [(1 .. n - 1) \cup {n} -> Peers]
      /\ slot2[n] = p
      /\ \A c \in 1 .. n - 1 : slot2[c] = slot[c]
  BY <1>0, <1>3, <1>5 DEF HostedOn, Put
<1> HIDE DEF slot2
<1>8. /\ DOMAIN connectionIdToEnetPeer' = DOMAIN connectionIdToEnetPeer \cup {n}
      /\ connectionIdToEnetPeer'[n] = p
      /\ \A c \in DOMAIN connectionIdToEnetPeer :
           connectionIdToEnetPeer'[c] = connectionIdToEnetPeer[c]
  BY <1>1, <1>4 DEF Put
<1>9. DOMAIN connectionIdToEnetPeer \subseteq 1 .. n - 1
  BY <1>0, <1>1 DEF IInv, IdentifiersIssued, TypeOK, ConnectionIds
<1>10. /\ \A c : Waiting("CONNECT", c)' <=> Waiting("CONNECT", c) \/ c = n
       /\ \A c, d : LeavesBefore(c, d) => LeavesBefore(c, d)'
       /\ \A c : Waiting("DISCONNECT", c) => LeavesBefore(c, n)'
  BY <1>1, <1>2, PendingPushed, LeavesPushed DEF IInv
<1>11. \A c \in 1 .. n - 1 : Living(c)' <=> Living(c)
  BY <1>1, <1>5, <1>8, <1>10 DEF Living
<1>12. ASSUME NEW c \in 1 .. n - 1, Living(c), slot[c] = p
       PROVE  Waiting("DISCONNECT", c)
  <2>1. c \notin DOMAIN connectionIdToEnetPeer
    <3>1. SUFFICES ASSUME c \in DOMAIN connectionIdToEnetPeer PROVE FALSE
      OBVIOUS
    <3>2. connectionIdToEnetPeer[c] = p
      BY <1>3, <1>12, <3>1 DEF HostedOn
    <3>3. peerData[p] = c /\ peerData[p] = 0
      BY <1>1, <3>1, <3>2 DEF IInv, BindingsAgree, SlotsAgree
    <3> QED  BY <1>1, <3>3
  <2>2. c \in DOMAIN sessions => Waiting("DISCONNECT", c)
    BY <2>1 DEF IInv, SessionsAreOwned
  <2>3. Waiting("CONNECT", c) => Waiting("DISCONNECT", c)
    BY <1>6, <2>1 DEF IInv, PendingFits, Unborn
  <2> QED  BY <1>12, <2>1, <2>2, <2>3 DEF Living
<1>13. ASSUME NEW c \in (1 .. n - 1) \cup {n}, NEW d \in (1 .. n - 1) \cup {n},
              c < d, Living(c)', Living(d)', slot2[c] = slot2[d]
       PROVE  LeavesBefore(c, d)'
  <2>1. c \in 1 .. n - 1  BY <1>1, <1>13
  <2>2. CASE d = n
    BY <1>7, <1>10, <1>11, <1>12, <1>13, <2>1, <2>2
  <2>3. CASE d \in 1 .. n - 1
    <3>1. LeavesBefore(c, d)
      BY <1>3, <1>7, <1>11, <1>13, <2>1, <2>3, <1>0 DEF HostedOn
    <3> QED  BY <1>10, <3>1
  <2> QED  BY <2>2, <2>3
<1>14. HostedOn(slot2)'
  <2>1. slot2 \in [1 .. nextConnectionId' - 1 -> Peers]
    BY <1>1, <1>5, <1>7
  <2>2. \A c \in DOMAIN connectionIdToEnetPeer' : slot2[c] = connectionIdToEnetPeer'[c]
    BY <1>3, <1>7, <1>8, <1>9 DEF HostedOn
  <2>3. 1 .. nextConnectionId' - 1 = (1 .. n - 1) \cup {n}
    BY <1>1, <1>5
  <2> QED  BY <1>13, <2>1, <2>2, <2>3 DEF HostedOn
<1> QED  BY <1>14 DEF Hosted

LEMMA HostedNetwork ==
  ASSUME IInv, TypeOK', Hosted, NetworkThread
  PROVE  Hosted'
<1>1. ASSUME NEW p \in Peers, NEW c \in ConnectionIds, NEW key \in ClientKeys,
             ReceiveHello(p, c, key)
      PROVE  Hosted'
  <2> DEFINE m == [type |-> "HELLO", connectionId |-> c, key |-> key]
  <2>1. m \in NetworkINToSimulationMessage /\ m.type # "CONNECT"
    BY DEF NetworkINToSimulationMessage, NetMessageTypes
  <2>2. /\ netToSim' = Append(netToSim, m)
        /\ UNCHANGED <<nextConnectionId, sessions, simNetBatch, connectionIdToEnetPeer>>
    BY <1>1 DEF ReceiveHello, tables
  <2> HIDE DEF m
  <2> QED  BY <2>1, <2>2, HostedPushed
<1>2. CASE PushAccepted
  <2>1. accepted \in NetworkINToSimulationMessage /\ accepted.type # "CONNECT"
    BY <1>2 DEF PushAccepted, IInv, TypeOK, AcceptedFits
  <2>2. /\ netToSim' = Append(netToSim, accepted)
        /\ UNCHANGED <<nextConnectionId, sessions, simNetBatch, connectionIdToEnetPeer>>
    BY <1>2 DEF PushAccepted, tables
  <2> QED  BY <2>1, <2>2, HostedPushed
<1>3. ASSUME NEW p \in Peers, Disconnect(p)
      PROVE  Hosted'
  <2>1. CASE peerData[p] = 0
    <3>1. /\ UNCHANGED <<nextConnectionId, connectionIdToEnetPeer, sessions>>
          /\ Pending' = Pending
      BY <1>3, <2>1 DEF Disconnect, tables, Pending
    <3> QED  BY <3>1, HostedQuiet
  <2>2. CASE peerData[p] # 0
    <3> DEFINE m == NetMessage("DISCONNECT", peerData[p])
    <3>1. peerData[p] \in ConnectionIds
      BY <2>2 DEF IInv, TypeOK
    <3>2. m \in NetworkINToSimulationMessage /\ m.type # "CONNECT"
      BY <3>1, NetMessageType DEF NetMessageTypes, NetMessage
    <3>3. /\ netToSim' = Append(netToSim, m)
          /\ UNCHANGED <<nextConnectionId, sessions, simNetBatch>>
          /\ connectionIdToEnetPeer' = Erase(connectionIdToEnetPeer, peerData[p])
      BY <1>3, <2>2 DEF Disconnect
    <3>4. \A c \in DOMAIN connectionIdToEnetPeer' :
            /\ c \in DOMAIN connectionIdToEnetPeer
            /\ connectionIdToEnetPeer'[c] = connectionIdToEnetPeer[c]
      BY <3>3 DEF Erase
    <3> HIDE DEF m
    <3> QED  BY <3>2, <3>3, <3>4, HostedPushed
  <2> QED  BY <2>1, <2>2
<1>4. ASSUME NEW ctx \in unacked, Acknowledged(ctx)
      PROVE  Hosted'
  <2>1. /\ UNCHANGED <<nextConnectionId, connectionIdToEnetPeer>> /\ Pending' = Pending
        /\ DOMAIN sessions' = DOMAIN sessions
    BY <1>4 DEF Acknowledged, EnableEncryption, inQ, Pending
  <2> QED  BY <2>1, HostedQuiet
<1>5. ASSUME UNCHANGED <<nextConnectionId, connectionIdToEnetPeer, sessions, netToSim, simNetBatch>>
      PROVE  Hosted'
  BY <1>5, HostedQuiet DEF Pending
<1>6. ASSUME NEW p \in Peers, NEW c \in ConnectionIds,
             ReceiveOtherVersion(p, c) \/ ReceiveAuth(p, c) \/ ReceiveReady(p, c)
      PROVE  Hosted'
  BY <1>5, <1>6 DEF ReceiveOtherVersion, ReceiveAuth, ReceiveReady, Accept, tables, inQ
<1>7. CASE DrainSimulationToNetwork \/ SendReliable \/ \E ctx \in unacked : Freed(ctx)
  BY <1>5, <1>7 DEF DrainSimulationToNetwork, SendReliable, Freed, tables, inQ
<1> QED
  BY <1>1, <1>2, <1>3, <1>4, <1>6, <1>7, HostedConnect DEF NetworkThread

(* A handler takes a message.  Sessions begin only for a connection whose  *)
(* CONNECT waited, and the end of a connection leaves nothing of it.       *)
LEMMA HostedProcess ==
  ASSUME IInv, Hosted, NEW type \in NetMessageTypes, NEW msg, Process(msg, type),
         \A c \in DOMAIN sessions' :
           \/ c \in DOMAIN sessions
           \/ type = "CONNECT" /\ c = msg.connectionId,
         type = "DISCONNECT" => msg.connectionId \notin DOMAIN sessions'
  PROVE  Hosted'
<1> DEFINE b == msg.connectionId
<1>1. /\ b \in ConnectionIds /\ Waiting(type, b) /\ msg.type = type
      /\ \A t, c : Waiting(t, c)' => Waiting(t, c)
      /\ type = "DISCONNECT" => \A t : ~Waiting(t, b)'
      /\ UNCHANGED <<nextConnectionId, connectionIdToEnetPeer>>
  BY ProcessFacts
<1>2. \A c : Living(c)' => Living(c)
  BY <1>1 DEF Living
<1>3. type = "DISCONNECT" => ~Living(b)'
  BY <1>1 DEF IInv, PendingFits, Living
<1>4. ASSUME NEW c, NEW d, Living(c)', LeavesBefore(c, d)
      PROVE  LeavesBefore(c, d)'
  <2>1. /\ simNetBatch # <<>> /\ msg = Head(simNetBatch)
        /\ simNetBatch' = Tail(simNetBatch) /\ netToSim' = netToSim
    BY DEF Process
  <2> QED  BY <1>1, <1>3, <1>4, <2>1, LeavesTaken DEF IInv
<1> QED  BY <1>1, <1>2, <1>4, HostedKept DEF IInv, TypeOK

LEMMA HostedSimulation ==
  ASSUME IInv, Hosted, SimulationThread
  PROVE  Hosted'
<1> DEFINE msg == Head(simNetBatch)
<1>1. CASE HandleConnect
  <2>1. Process(msg, "CONNECT") /\ DOMAIN sessions' = DOMAIN sessions \cup {msg.connectionId}
    BY <1>1 DEF HandleConnect, Put
  <2> HIDE DEF msg
  <2> QED  BY <2>1, HostedProcess DEF NetMessageTypes
<1>2. CASE HandleDisconnect
  <2>1. Process(msg, "DISCONNECT") /\ DOMAIN sessions' = DOMAIN sessions \ {msg.connectionId}
    BY <1>2 DEF HandleDisconnect, Erase
  <2> HIDE DEF msg
  <2> QED  BY <2>1, HostedProcess DEF NetMessageTypes
<1>3. CASE HandleHello \/ HandleAuth \/ HandleReady
  <2>1. /\ Process(msg, "HELLO") \/ Process(msg, "AUTH") \/ Process(msg, "READY")
        /\ DOMAIN sessions' = DOMAIN sessions
    BY <1>3 DEF HandleHello, HandleAuth, HandleReady
  <2> HIDE DEF msg
  <2> QED  BY <2>1, HostedProcess DEF NetMessageTypes
<1>4. CASE DrainQueues
  <2>1. /\ UNCHANGED <<nextConnectionId, connectionIdToEnetPeer, sessions>>
        /\ simNetBatch = <<>> /\ simNetBatch' = netToSim /\ netToSim' = <<>>
    BY <1>4 DEF DrainQueues, tables
  <2>2. Pending' = Pending
    BY <2>1, ConcatEmptySeq DEF Pending, IInv, TypeOK
  <2> QED  BY <2>1, <2>2, HostedQuiet
<1>5. CASE HandleValidateTokenResponse
  <2>1. /\ UNCHANGED <<nextConnectionId, connectionIdToEnetPeer>> /\ Pending' = Pending
        /\ DOMAIN sessions' = DOMAIN sessions
    BY <1>5 DEF HandleValidateTokenResponse, tables, inQ, Pending
  <2> QED  BY <2>1, HostedQuiet
<1> QED  BY <1>1, <1>2, <1>3, <1>4, <1>5 DEF SimulationThread

LEMMA HostedInit == Init => Hosted
<1> SUFFICES ASSUME Init PROVE Hosted
  OBVIOUS
<1>1. /\ nextConnectionId = 1 /\ DOMAIN connectionIdToEnetPeer = {}
  BY DEF Init, EmptyMap
<1> DEFINE none == [c \in {} |-> 0]
<1>2. 1 .. nextConnectionId - 1 = {}
  BY <1>1
<1>3. HostedOn(none)
  BY <1>1, <1>2 DEF HostedOn
<1> QED  BY <1>3 DEF Hosted

LEMMA HostedStep ==
  ASSUME IInv, Hosted, [Next]_vars
  PROVE  Hosted'
<1>1. TypeOK'
  BY TypeStep DEF IInv
<1>2. CASE UNCHANGED vars \/ HttpThread
  <2>1. /\ UNCHANGED <<nextConnectionId, connectionIdToEnetPeer, sessions>>
        /\ Pending' = Pending
    BY <1>2 DEF vars, HttpThread, DrainRequests, ValidateToken, tables, inQ, Pending
  <2> QED  BY <2>1, HostedQuiet
<1> QED  BY <1>1, <1>2, HostedNetwork, HostedSimulation DEF Next

(* The sessions of two connections never come from the same slot.          *)
LEMMA HostedFits ==
  ASSUME IInv, Hosted
  PROVE  SessionsFitTheHost
<1>1. PICK slot : HostedOn(slot)
  BY DEF Hosted
<1> DEFINE S == DOMAIN sessions
           f == [c \in S |-> slot[c]]
<1>2. S \subseteq ConnectionIds /\ S \subseteq 1 .. nextConnectionId - 1
  BY ConstantsAssumption DEF IInv, TypeOK, IdentifiersIssued, ConnectionIds
<1>3. \A c \in S : slot[c] \in Peers
  BY <1>1, <1>2 DEF HostedOn
<1>4. ASSUME NEW c \in S, NEW d \in S, c < d
      PROVE  slot[c] # slot[d]
  <2>1. SUFFICES ASSUME slot[c] = slot[d] PROVE FALSE
    OBVIOUS
  <2>2. LeavesBefore(c, d)
    BY <1>1, <1>2, <1>4, <2>1 DEF HostedOn, Living
  <2>3. Waiting("CONNECT", d)
    BY <2>2 DEF LeavesBefore, Waiting
  <2> QED  BY <1>2, <2>3 DEF IInv, PendingFits, Unborn
<1>5. ASSUME NEW c \in S, NEW d \in S, slot[c] = slot[d]
      PROVE  c = d
  <2>1. c \in Nat /\ d \in Nat
    BY <1>2 DEF ConnectionIds
  <2>2. ~(c < d) /\ ~(d < c)
    BY <1>4, <1>5
  <2> QED  BY <2>1, <2>2
<1>6. f \in Injection(S, Peers)
  BY <1>3, <1>5 DEF Injection, IsInjective
<1>7. Cardinality(S) <= Cardinality(Peers)
  <2> HIDE DEF S, f
  <2> QED  BY <1>6, PeersAssumption, FS_Injection
<1> QED  BY <1>7 DEF SessionsFitTheHost

(* The simulation never holds more sessions than the host has slots, so    *)
(* that a match counted on sessions is never larger than the host.         *)
THEOREM SessionsStayWithinTheHost == Spec => []SessionsFitTheHost
<1>1. IInv /\ Hosted => SessionsFitTheHost
  BY HostedFits
<1>2. IInv /\ Hosted /\ [Next]_vars => Hosted'
  BY HostedStep
<1> QED  BY <1>1, <1>2, HostedInit, InvariantHolds, PTL DEF Spec
=============================================================================
