------------------------------ MODULE MatchFlow ------------------------------
(***************************************************************************)
(* The match (src/src/simulation/match_flow.cpp): once enough clients are  *)
(* connected the simulation sends MATCH_INIT and WORLD_STATIC_STATE_INIT,  *)
(* once they are all ready MATCH_START with a countdown, and it starts the *)
(* match when the countdown is over.  The network thread sends what the    *)
(* simulation queued later, and only to clients that are authenticated     *)
(* when it does.                                                           *)
(*                                                                         *)
(* The clients come, authenticate and go as ClientLifecycle says, which    *)
(* GameServer implements; their messages are processed at the beginning of *)
(* a tick, so the steps of ClientLifecycle are taken between two ticks.    *)
(*                                                                         *)
(* A client has its own queue of outgoing packets: nothing depends on the  *)
(* order in which the one queue of the code serves different clients.      *)
(***************************************************************************)
EXTENDS ClientLifecycle, Naturals, Sequences, FiniteSets

CONSTANTS
  MaxClientsConnected, \* ServerConfig::maxClientsConnected
  CountdownTicks,      \* rcnet_engine_durationMsToTicks(3000)
  MaxTick,             \* bound on currentTick
  SendCanFail          \* may a packet to an authenticated client be dropped?

ASSUME MatchAssumption ==
  /\ MaxClientsConnected \in Nat \ {0}
  /\ CountdownTicks \in Nat
  /\ MaxTick \in Nat
  /\ SendCanFail \in BOOLEAN

VARIABLES
  currentTick,
  \* GameState
  matchInitSent, worldStaticStateInitSent, matchStartSent, matchStarted, matchStartTick,
  outgoing, \* for each client, the packets queued for it
  received  \* for each client, the packets sent to it, in order

flow == <<matchInitSent, worldStaticStateInitSent, matchStartSent, matchStarted, matchStartTick>>
vars == <<stage, ready, currentTick, flow, outgoing, received>>

Packet == [type : {"MATCH_INIT", "WORLD_STATIC_STATE_INIT", "MATCH_START"}, startTick : Nat]

TypeOK ==
  /\ LifecycleTypeOK
  /\ currentTick \in Nat
  /\ matchInitSent \in BOOLEAN /\ worldStaticStateInitSent \in BOOLEAN
  /\ matchStartSent \in BOOLEAN /\ matchStarted \in BOOLEAN
  /\ matchStartTick \in Nat
  /\ outgoing \in [Clients -> Seq(Packet)]
  /\ received \in [Clients -> Seq(Packet)]

Init ==
  /\ LifecycleInit
  /\ currentTick = 0
  /\ matchInitSent = FALSE /\ worldStaticStateInitSent = FALSE
  /\ matchStartSent = FALSE /\ matchStarted = FALSE
  /\ matchStartTick = 0
  /\ outgoing = [c \in Clients |-> <<>>]
  /\ received = [c \in Clients |-> <<>>]

-----------------------------------------------------------------------------
(* The clients.                                                            *)

(* networkState.sessions holds every connected client, authenticated or    *)
(* not.                                                                    *)
Sessions == {c \in Clients : stage[c] \in {"connected", "validating", "valid", "invalid"}}

EnoughSessions == Cardinality(Sessions) >= MaxClientsConnected

(* The ENet host has MaxClientsConnected slots, and the simulation         *)
(* processes the DISCONNECT of a slot before the CONNECT that reuses it.   *)
ClientActs(c) ==
  /\ stage[c] = "absent" => ~EnoughSessions
  /\ ClientStep(c)
  /\ UNCHANGED <<currentTick, flow, outgoing, received>>

-----------------------------------------------------------------------------
(* The simulation.                                                         *)

(* Mutant: nobody asks whether the sessions are ready.                     *)
EnoughSessionsOnly == EnoughSessions

AllSessionsReady == EnoughSessions /\ Sessions \subseteq ready

(* Ticks are counted from the one that sends MATCH_START, the earlier ones *)
(* being alike, and no further than MaxTick.                               *)
NextTick == IF matchStartSent /\ currentTick < MaxTick THEN currentTick + 1 ELSE currentTick

(* Mutant: the countdown is announced as long as everybody is ready.       *)
StartsCountdownAgain == AllSessionsReady

StartsCountdown == ~matchStartSent /\ AllSessionsReady

(* Mutant: MATCH_INIT is queued again at every tick.                       *)
InitPacketsEachTick == <<[type |-> "MATCH_INIT", startTick |-> 0]>>

(* What CheckMatchFlow queues for each session.                            *)
InitPackets ==
  IF matchInitSent THEN <<>> ELSE <<[type |-> "MATCH_INIT", startTick |-> 0]>>
StaticPackets ==
  IF worldStaticStateInitSent THEN <<>>
  ELSE <<[type |-> "WORLD_STATIC_STATE_INIT", startTick |-> 0]>>
StartPackets ==
  IF StartsCountdown
  THEN <<[type |-> "MATCH_START", startTick |-> NextTick + CountdownTicks]>>
  ELSE <<>>

NewPackets == InitPackets \o StaticPackets \o StartPackets

(* Mutants: the match starts at no other tick than the announced one, or   *)
(* one tick too early.                                                     *)
CountdownOverExactly(tick, startTick) == tick = startTick
CountdownOverEarly(tick, startTick) == tick + 1 >= startTick

CountdownOver(tick, startTick) == tick >= startTick

(* Without enough sessions nothing happens, whatever was announced.        *)
TickWithoutMatch ==
  /\ ~EnoughSessions
  /\ currentTick' = NextTick
  /\ UNCHANGED <<stage, ready, flow, outgoing, received>>

TickWithMatch ==
  /\ EnoughSessions
  /\ currentTick' = NextTick
  /\ outgoing' = [c \in Clients |->
                    IF c \in Sessions
                    THEN outgoing[c] \o NewPackets
                    ELSE outgoing[c]]
  /\ matchInitSent' = TRUE
  /\ worldStaticStateInitSent' = TRUE
  /\ matchStartSent' = (matchStartSent \/ StartsCountdown)
  /\ matchStartTick' = IF StartsCountdown THEN NextTick + CountdownTicks ELSE matchStartTick
  /\ matchStarted' = (matchStarted \/ (matchStartSent' /\ CountdownOver(NextTick, matchStartTick')))
  /\ UNCHANGED <<stage, ready, received>>

Tick == TickWithoutMatch \/ TickWithMatch

-----------------------------------------------------------------------------
(* The network thread.                                                     *)

(* IsPeerAllowedToSendPacket, read when the packet is sent.  An            *)
(* authenticated client is encrypted (AuthenticationIsEncrypted).          *)
MayReceiveGameTraffic(c) == stage[c] = "valid"

Send(c) ==
  /\ outgoing[c] # <<>>
  /\ outgoing' = [outgoing EXCEPT ![c] = Tail(@)]
  /\ \/ /\ MayReceiveGameTraffic(c)
        /\ received' = [received EXCEPT ![c] = Append(@, Head(outgoing[c]))]
     \/ /\ ~MayReceiveGameTraffic(c) \/ SendCanFail
        /\ UNCHANGED received
  /\ UNCHANGED <<stage, ready, currentTick, flow>>

Next ==
  \/ \E c \in Clients : ClientActs(c)
  \/ Tick
  \/ \E c \in Clients : Send(c)

Spec == Init /\ [][Next]_vars

(* The engine calls the simulation tick and the outgoing network tick      *)
(* periodically; the clients need not do anything.                         *)
FairSpec == Spec /\ WF_vars(Tick) /\ \A c \in Clients : WF_vars(Send(c))

-----------------------------------------------------------------------------

Rank(packet) ==
  CASE packet.type = "MATCH_INIT"              -> 1
    [] packet.type = "WORLD_STATIC_STATE_INIT" -> 2
    [] packet.type = "MATCH_START"             -> 3

(* A client gets each packet of the flow at most once and in the order of  *)
(* the flow, though it may miss some: three flags guard three loops over   *)
(* sessions that come and go.                                              *)
FlowInOrder ==
  \A c \in Clients : \A i, j \in DOMAIN received[c] :
    i < j => Rank(received[c][i]) < Rank(received[c][j])

(* There is one countdown: every client that was told a start tick was     *)
(* told the same, and the match is never started before it.                *)
AnnouncedTickHolds ==
  /\ \A c \in Clients : \A i \in DOMAIN received[c] :
       received[c][i].type = "MATCH_START" => received[c][i].startTick = matchStartTick
  /\ matchStarted => matchStartSent /\ currentTick >= matchStartTick

-----------------------------------------------------------------------------
(* The inductive invariant behind these two.                               *)

(* What is queued for a client continues what was sent to it.              *)
QueueInOrder ==
  \A c \in Clients :
    /\ \A i, j \in DOMAIN outgoing[c] :
         i < j => Rank(outgoing[c][i]) < Rank(outgoing[c][j])
    /\ \A i \in DOMAIN received[c], j \in DOMAIN outgoing[c] :
         Rank(received[c][i]) < Rank(outgoing[c][j])

(* A packet exists only if its flag is set, and carries the one start tick.*)
Announced(packet) ==
  CASE packet.type = "MATCH_INIT"              -> matchInitSent
    [] packet.type = "WORLD_STATIC_STATE_INIT" -> worldStaticStateInitSent
    [] packet.type = "MATCH_START"             ->
         matchStartSent /\ packet.startTick = matchStartTick

PacketsAnnounced ==
  \A c \in Clients :
    /\ \A i \in DOMAIN received[c] : Announced(received[c][i])
    /\ \A i \in DOMAIN outgoing[c] : Announced(outgoing[c][i])

(* The flags are set in the order of the flow.                             *)
FlagsInOrder ==
  /\ matchInitSent = worldStaticStateInitSent
  /\ matchStartSent => matchInitSent
  /\ matchStarted => matchStartSent /\ currentTick >= matchStartTick

IInv ==
  /\ TypeOK
  /\ FlowInOrder
  /\ QueueInOrder
  /\ PacketsAnnounced
  /\ FlagsInOrder

-----------------------------------------------------------------------------
(* MATCH_START is queued for clients that are all authenticated, so the    *)
(* guard of the network thread drops it for none that stays.               *)
StartQueued(c)   == \E i \in DOMAIN outgoing[c] : outgoing[c][i].type = "MATCH_START"
StartReceived(c) == \E i \in DOMAIN received[c] : received[c][i].type = "MATCH_START"

StartReachesPlayers ==
  \A c \in Clients : StartQueued(c) ~> StartReceived(c) \/ stage[c] = "gone"

(* If the server stays full of ready clients the match starts in the end,  *)
(* also when clients left and were replaced during the countdown, and the  *)
(* tick that was announced went by without enough of them.                 *)
MatchStarts == <>[]AllSessionsReady => <>matchStarted

(* match_flow.cpp:59: MATCH_INIT goes once to all the clients; hence a     *)
(* client that is in a match that started was sent it.                     *)
PlayersAreInitialised ==
  matchStarted =>
    \A c \in Clients : stage[c] = "valid" =>
      \E i \in DOMAIN (received[c] \o outgoing[c]) :
        (received[c] \o outgoing[c])[i].type = "MATCH_INIT"
=============================================================================
