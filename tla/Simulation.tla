------------------------------ MODULE Simulation -----------------------------
(***************************************************************************)
(* Simulation thread, the part of a tick that owns the sessions            *)
(* (src/src/simulation): drain the queues, process the messages of the     *)
(* network thread, then those of the HTTP thread.                          *)
(*                                                                         *)
(* A handler is one step.  In the code its session update and its push are *)
(* two critical sections; a drain of the consumer that falls between them  *)
(* only moves the message to the next batch.  The two drains are one step: *)
(* what another thread pushes between them goes to one of the queues, and  *)
(* could as well have been pushed before or after both.                    *)
(***************************************************************************)
EXTENDS ServerState

DrainQueues ==
  /\ simNetBatch = <<>> /\ simHttpBatch = <<>>
  /\ netToSim # <<>> \/ httpToSim # <<>>
  /\ simNetBatch' = netToSim   /\ netToSim' = <<>>
  /\ simHttpBatch' = httpToSim /\ httpToSim' = <<>>
  /\ UNCHANGED <<tables, sessions, enet, accepted, outQ, simToHttp, httpBatch>>

NewSession ==
  [isTransportConnected       |-> TRUE,
   isSecureSessionEstablished |-> FALSE,
   isPacketEncryptionEnabled  |-> FALSE,
   authStatus                 |-> "None",
   isReadyForMatch            |-> FALSE,
   keys                       |-> NoKey]

(* The next message of the batch is msg; the rest stays.                   *)
Process(msg, type) ==
  /\ simNetBatch # <<>>
  /\ msg = Head(simNetBatch)
  /\ msg.type = type
  /\ simNetBatch' = Tail(simNetBatch)
  /\ UNCHANGED <<tables, enet, accepted, netToSim, netOutBatch,
                 httpBatch, httpToSim, simHttpBatch>>

(* Mutant: the CONNECT is taken and no session is created.                 *)
HandleConnectLost ==
  Process(Head(simNetBatch), "CONNECT") /\ UNCHANGED <<sessions, simToNet, simToHttp>>

HandleConnect ==
  LET msg == Head(simNetBatch) IN
  /\ Process(msg, "CONNECT")
  /\ sessions' = Put(sessions, msg.connectionId, NewSession)
  /\ UNCHANGED <<simToNet, simToHttp>>

(* Mutant: the DISCONNECT is taken and the session stays.                  *)
HandleDisconnectLost ==
  Process(Head(simNetBatch), "DISCONNECT") /\ UNCHANGED <<sessions, simToNet, simToHttp>>

HandleDisconnect ==
  LET msg == Head(simNetBatch) IN
  /\ Process(msg, "DISCONNECT")
  /\ sessions' = Erase(sessions, msg.connectionId)
  /\ UNCHANGED <<simToNet, simToHttp>>

(* Mutant: the refused signature also turns the replica of the encryption  *)
(* off, though the transport goes on encrypting.                           *)
KeysAndEncryptionCleared(s) ==
  [s EXCEPT !.keys = NoKey, !.isSecureSessionEstablished = FALSE,
            !.isPacketEncryptionEnabled = FALSE]

(* What the hello leaves in the session: a refused key exchange keeps the  *)
(* flag and the keys there were, a refused signature clears both.          *)
KeysAccepted(s, key) == [s EXCEPT !.keys = key, !.isSecureSessionEstablished = TRUE]
KeysCleared(s)       == [s EXCEPT !.keys = NoKey, !.isSecureSessionEstablished = FALSE]

HandleHello ==
  LET msg == Head(simNetBatch)
      c   == msg.connectionId
      Answer(ok) == Append(simToNet, [connectionId |-> c, disconnectAfterAck |-> ~ok,
                                      enableEncryptionAfterAck |-> ok])
  IN
  /\ Process(msg, "HELLO")
  /\ \/ /\ c \notin DOMAIN sessions
        /\ UNCHANGED <<sessions, simToNet>>
     \/ /\ c \in DOMAIN sessions /\ msg.key \in WeakKeys
        /\ simToNet' = Answer(FALSE)
        /\ UNCHANGED sessions
     \/ /\ c \in DOMAIN sessions /\ msg.key \notin WeakKeys
        /\ sessions' = [sessions EXCEPT ![c] = KeysAccepted(@, msg.key)]
        /\ simToNet' = Answer(TRUE)
     \/ /\ c \in DOMAIN sessions /\ msg.key \notin WeakKeys
        /\ SigningCanFail
        /\ sessions' = [sessions EXCEPT ![c] = KeysCleared(@)]
        /\ simToNet' = Answer(FALSE)
  /\ UNCHANGED simToHttp

(* Mutant: a token is sent to the backend each time it is received.        *)
MayValidateAgain(c) == c \in DOMAIN sessions

(* A token is sent to the backend once per session.                        *)
MayValidate(c) == c \in DOMAIN sessions /\ sessions[c].authStatus = "None"

HandleAuth ==
  LET msg == Head(simNetBatch)
      c   == msg.connectionId
  IN
  /\ Process(msg, "AUTH")
  /\ IF MayValidate(c)
     THEN /\ sessions' = [sessions EXCEPT ![c].authStatus = "WaitingAuth"]
          /\ simToHttp' = Append(simToHttp, c)
     ELSE UNCHANGED <<sessions, simToHttp>>
  /\ UNCHANGED simToNet

HandleReady ==
  LET msg == Head(simNetBatch)
      c   == msg.connectionId
  IN
  /\ Process(msg, "READY")
  /\ sessions' = IF c \in DOMAIN sessions
                 THEN [sessions EXCEPT ![c].isReadyForMatch = TRUE]
                 ELSE sessions
  /\ UNCHANGED <<simToNet, simToHttp>>

(* The answer of the backend, applied to whatever session its connection   *)
(* identifier still names.                                                 *)
HandleValidateTokenResponse ==
  /\ simNetBatch = <<>> /\ simHttpBatch # <<>>
  /\ LET msg == Head(simHttpBatch)
         c   == msg.connectionId
     IN  IF c \in DOMAIN sessions
         THEN /\ sessions' = [sessions EXCEPT ![c].authStatus =
                                IF msg.isValid THEN "Valid" ELSE "Invalid"]
              /\ simToNet' = Append(simToNet,
                   [connectionId |-> c, disconnectAfterAck |-> ~msg.isValid,
                    enableEncryptionAfterAck |-> FALSE])
         ELSE UNCHANGED <<sessions, simToNet>>
  /\ simHttpBatch' = Tail(simHttpBatch)
  /\ UNCHANGED <<tables, enet, accepted, inQ, netOutBatch, simToHttp, httpBatch, httpToSim>>
=============================================================================
