----------------------------- MODULE HttpService -----------------------------
(***************************************************************************)
(* HTTP thread (src/src/services/http): it waits for requests of the       *)
(* simulation, sends them one by one to the backend and pushes the answer. *)
(* The backend is outside: it accepts or refuses the token, or does not    *)
(* answer, which counts as a refusal.                                      *)
(***************************************************************************)
EXTENDS ServerState

DrainRequests ==
  /\ httpBatch = <<>> /\ simToHttp # <<>>
  /\ httpBatch' = simToHttp
  /\ simToHttp' = <<>>
  /\ UNCHANGED <<tables, sessions, enet, accepted, inQ, outQ, httpToSim, simHttpBatch>>

(* Mutant: a failed request is given up without an answer.                 *)
ValidateTokenOrGiveUp(isValid) ==
  /\ httpBatch # <<>>
  /\ httpToSim' = IF isValid
                  THEN Append(httpToSim, [connectionId |-> Head(httpBatch), isValid |-> TRUE])
                  ELSE httpToSim
  /\ httpBatch' = Tail(httpBatch)
  /\ UNCHANGED <<tables, sessions, enet, accepted, inQ, outQ, simToHttp, simHttpBatch>>

ValidateToken(isValid) ==
  /\ httpBatch # <<>>
  /\ httpToSim' = Append(httpToSim, [connectionId |-> Head(httpBatch), isValid |-> isValid])
  /\ httpBatch' = Tail(httpBatch)
  /\ UNCHANGED <<tables, sessions, enet, accepted, inQ, outQ, simToHttp, simHttpBatch>>
=============================================================================
