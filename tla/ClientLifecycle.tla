---------------------------- MODULE ClientLifecycle --------------------------
(***************************************************************************)
(* What the match sees of a connection: it joins, has one token validated, *)
(* may then announce that it is ready, and leaves once for all.  This is   *)
(* the promise that GameServer keeps with three threads, five queues and a *)
(* transport that reports losses late.                                     *)
(***************************************************************************)
CONSTANT Clients

VARIABLES
  stage, \* where each client stands
  ready  \* the clients that announced they are ready for the match

lifecycle == <<stage, ready>>

Stages == {"absent", "connected", "validating", "valid", "invalid", "gone"}

LifecycleTypeOK ==
  /\ stage \in [Clients -> Stages]
  /\ ready \subseteq Clients

LifecycleInit ==
  /\ stage = [c \in Clients |-> "absent"]
  /\ ready = {}

Move(c, from, to) ==
  /\ stage[c] \in from
  /\ \E s \in to : stage' = [stage EXCEPT ![c] = s]

Join(c)        == Move(c, {"absent"}, {"connected"}) /\ UNCHANGED ready
SubmitToken(c) == Move(c, {"connected"}, {"validating"}) /\ UNCHANGED ready
Decide(c)      == Move(c, {"validating"}, {"valid", "invalid"}) /\ UNCHANGED ready
BecomeReady(c) == stage[c] = "valid" /\ ready' = ready \cup {c} /\ UNCHANGED stage
Leave(c)       == Move(c, Stages \ {"absent", "gone"}, {"gone"}) /\ ready' = ready \ {c}

ClientStep(c) ==
  Join(c) \/ SubmitToken(c) \/ Decide(c) \/ BecomeReady(c) \/ Leave(c)

LifecycleNext == \E c \in Clients : ClientStep(c)

LifecycleSpec == LifecycleInit /\ [][LifecycleNext]_lifecycle

(* Every validation is decided unless the client leaves first: the HTTP    *)
(* client has a timeout and a timeout counts as a refusal.                 *)
ValidationsEnd ==
  \A c \in Clients : stage[c] = "validating" ~> stage[c] \in {"valid", "invalid", "gone"}

(* A client that was refused does not stay: the answer it gets carries the *)
(* order to disconnect it.                                                 *)
RefusedClientsLeave ==
  \A c \in Clients : stage[c] = "invalid" ~> stage[c] = "gone"
=============================================================================
