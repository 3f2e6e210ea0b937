----------------------------- MODULE SnapshotFlow -----------------------------
(***************************************************************************)
(* Snapshots and inputs, the unreliable traffic of the game.  On its       *)
(* production ticks the simulation queues a snapshot for every session;    *)
(* the network thread drains the queue, keeps the last snapshot of each    *)
(* connection, gives it an identifier and sends it                         *)
(* (src/src/simulation/snapshots.cpp and                                   *)
(* src/src/network/transport/outgoing).  The inputs of a client carry the  *)
(* identifier of the last snapshot it received                             *)
(* (src/src/simulation/process/incoming/input_message.cpp).                *)
(*                                                                         *)
(* ENet drops unreliable packets but neither duplicates nor reorders them, *)
(* and a client acknowledges what it received: that is what the code       *)
(* counts on, and what is assumed of the outside here.                     *)
(***************************************************************************)
EXTENDS ClientLifecycle, Naturals, Sequences

CONSTANTS
  MaxTick,   \* bound on the production ticks
  MaxInputs, \* bound on the inputs a client sends
  CanLose    \* may a snapshot be lost on its way?

ASSUME SnapshotAssumption ==
  /\ MaxTick \in Nat /\ MaxInputs \in Nat
  /\ CanLose \in BOOLEAN

VARIABLES
  departed,     \* clients whose transport ended; the simulation may not know yet
  currentTick,
  queued,       \* ticks of the snapshots in the outgoing queue, for each client
  coalesced,    \* tick of the one snapshot kept for this outgoing tick, or 0
  patched,      \* the snapshot that was given its identifier, not sent yet
  \* the session: identifiers of snapshots, inputs not applied yet
  serverNextSnapshotId, serverLastSentSnapshotId, clientLastAckedSnapshotId,
  pendingInputs,
  \* the clients: last snapshot handed to ENet, snapshots under way, last one
  \* received, inputs under way to the simulation, inputs sent
  handed, toClient, seen, inputs, inputCount

session == <<serverNextSnapshotId, serverLastSentSnapshotId, clientLastAckedSnapshotId,
             pendingInputs>>
outgoing == <<queued, coalesced, patched>>
client   == <<seen, inputs, inputCount>>
vars == <<lifecycle, departed, currentTick, outgoing, session, handed, toClient, client>>

Snapshot == [id : Nat, tick : Nat]
NoSnapshot == [id |-> 0, tick |-> 0]
Nobody == [id |-> 0, tick |-> 0, to |-> "nobody"]

Init ==
  /\ LifecycleInit
  /\ departed = {}
  /\ currentTick = 0
  /\ queued = [c \in Clients |-> <<>>]
  /\ coalesced = [c \in Clients |-> 0]
  /\ patched = Nobody
  /\ serverNextSnapshotId = [c \in Clients |-> 1]
  /\ serverLastSentSnapshotId = [c \in Clients |-> 0]
  /\ clientLastAckedSnapshotId = [c \in Clients |-> 0]
  /\ pendingInputs = [c \in Clients |-> <<>>]
  /\ handed = [c \in Clients |-> NoSnapshot]
  /\ toClient = [c \in Clients |-> <<>>]
  /\ seen = [c \in Clients |-> NoSnapshot]
  /\ inputs = [c \in Clients |-> <<>>]
  /\ inputCount = [c \in Clients |-> 0]

-----------------------------------------------------------------------------
(* The clients come and go as ClientLifecycle says, but the simulation     *)
(* learns only later that a transport ended.                               *)

Sessions == {c \in Clients : stage[c] \in {"connected", "validating", "valid", "invalid"}}

Depart(c) ==
  /\ c \in Sessions \ departed
  /\ departed' = departed \cup {c}
  /\ UNCHANGED <<lifecycle, currentTick, outgoing, session, handed, toClient, client>>

ClientActs(c) ==
  /\ ClientStep(c)
  /\ stage'[c] = "gone" => c \in departed
  /\ UNCHANGED <<departed, currentTick, outgoing, session, handed, toClient, client>>

-----------------------------------------------------------------------------
(* The simulation.                                                         *)

(* A production tick: one snapshot for every session, authenticated or not.*)
ProduceSnapshots ==
  /\ currentTick < MaxTick
  /\ currentTick' = currentTick + 1
  /\ queued' = [c \in Clients |->
                  IF c \in Sessions THEN Append(queued[c], currentTick') ELSE queued[c]]
  /\ UNCHANGED <<lifecycle, departed, coalesced, patched, session, handed, toClient, client>>

(* Mutants of HandleInput: it believes acknowledged whatever was sent last; *)
(* it takes the newest input first.                                        *)
HandleInputAcksLastSent(c) ==
  /\ inputs[c] # <<>>
  /\ c \in Sessions
  /\ clientLastAckedSnapshotId' =
       [clientLastAckedSnapshotId EXCEPT ![c] = serverLastSentSnapshotId[c]]
  /\ inputs' = [inputs EXCEPT ![c] = Tail(@)]
  /\ UNCHANGED <<lifecycle, departed, currentTick, outgoing, serverNextSnapshotId,
                 serverLastSentSnapshotId, pendingInputs, handed, toClient, seen, inputCount>>

HandleInputNewestFirst(c) ==
  /\ inputs[c] # <<>>
  /\ c \in Sessions
  /\ LET newest == Len(inputs[c]) IN
       /\ clientLastAckedSnapshotId' =
            [clientLastAckedSnapshotId EXCEPT ![c] = inputs[c][newest].lastReceivedSnapshotId]
       /\ inputs' = [inputs EXCEPT ![c] = SubSeq(@, 1, newest - 1)]
  /\ UNCHANGED <<lifecycle, departed, currentTick, outgoing, serverNextSnapshotId,
                 serverLastSentSnapshotId, pendingInputs, handed, toClient, seen, inputCount>>

(* serverLastProcessedInputSequenceNumber stays 0: nothing applies the     *)
(* inputs yet, so every input is queued.                                   *)
HandleInput(c) ==
  /\ inputs[c] # <<>>
  /\ LET input == Head(inputs[c]) IN
       IF c \in Sessions
       THEN /\ clientLastAckedSnapshotId' =
                 [clientLastAckedSnapshotId EXCEPT ![c] = input.lastReceivedSnapshotId]
            /\ pendingInputs' =
                 [pendingInputs EXCEPT ![c] = Append(@, input.inputSequenceNumber)]
       ELSE UNCHANGED <<clientLastAckedSnapshotId, pendingInputs>>
  /\ inputs' = [inputs EXCEPT ![c] = Tail(@)]
  /\ UNCHANGED <<lifecycle, departed, currentTick, outgoing, serverNextSnapshotId,
                 serverLastSentSnapshotId, handed, toClient, seen, inputCount>>

-----------------------------------------------------------------------------
(* The network thread.                                                     *)

NetworkIdle == patched = Nobody /\ \A c \in Clients : coalesced[c] = 0

(* Mutant of Kept: the first one is kept.                                  *)
KeptFirst(ticks) == IF ticks = <<>> THEN 0 ELSE ticks[1]

(* Only the last snapshot of each connection is kept.                      *)
Kept(ticks) == IF ticks = <<>> THEN 0 ELSE ticks[Len(ticks)]

DrainAndCoalesce ==
  /\ NetworkIdle
  /\ \E c \in Clients : queued[c] # <<>>
  /\ coalesced' = [c \in Clients |-> Kept(queued[c])]
  /\ queued' = [c \in Clients |-> <<>>]
  /\ UNCHANGED <<lifecycle, departed, currentTick, patched, session, handed, toClient, client>>

(* Mutant of NumberSnapshot: the next identifier stays the same.           *)
NumberSnapshotAgain(c) ==
  /\ serverLastSentSnapshotId' = [serverLastSentSnapshotId EXCEPT ![c] = serverNextSnapshotId[c]]
  /\ UNCHANGED serverNextSnapshotId

(* The identifiers of the session once a snapshot took the next one.       *)
NumberSnapshot(c) ==
  /\ serverNextSnapshotId' = [serverNextSnapshotId EXCEPT ![c] = @ + 1]
  /\ serverLastSentSnapshotId' = [serverLastSentSnapshotId EXCEPT ![c] = serverNextSnapshotId[c]]

(* Under sessionsMutex the snapshot gets its identifier ...                *)
PatchSnapshot(c) ==
  /\ patched = Nobody
  /\ coalesced[c] # 0
  /\ coalesced' = [coalesced EXCEPT ![c] = 0]
  /\ IF c \in Sessions \ departed
     THEN /\ patched' = [id |-> serverNextSnapshotId[c], tick |-> coalesced[c], to |-> c]
          /\ NumberSnapshot(c)
     ELSE UNCHANGED <<patched, serverNextSnapshotId, serverLastSentSnapshotId>>
  /\ UNCHANGED <<lifecycle, departed, currentTick, queued, clientLastAckedSnapshotId,
                 pendingInputs, handed, toClient, client>>

(* ... and it is sent after, if the session is there and authenticated.    *)
(* A send that ENet refuses is a packet that is lost later.                *)
SendSnapshot ==
  /\ patched # Nobody
  /\ patched' = Nobody
  /\ LET c == patched.to
         s == [id |-> patched.id, tick |-> patched.tick]
     IN  IF stage[c] = "valid"
         THEN /\ handed' = [handed EXCEPT ![c] = s]
              /\ toClient' = [toClient EXCEPT ![c] = Append(@, s)]
         ELSE UNCHANGED <<handed, toClient>>
  /\ UNCHANGED <<lifecycle, departed, currentTick, queued, coalesced, session, client>>

-----------------------------------------------------------------------------
(* The clients.                                                            *)

ReceiveSnapshot(c) ==
  /\ toClient[c] # <<>>
  /\ toClient' = [toClient EXCEPT ![c] = Tail(@)]
  /\ \/ seen' = [seen EXCEPT ![c] = Head(toClient[c])]
     \/ CanLose /\ UNCHANGED seen
  /\ UNCHANGED <<lifecycle, departed, currentTick, outgoing, session, handed, inputs, inputCount>>

(* The input passes the guard of GAME_UNRELIABLE and joins the messages    *)
(* for the simulation; one that is lost is one that was not sent.          *)
SendInput(c) ==
  /\ stage[c] = "valid" /\ c \notin departed
  /\ inputCount[c] < MaxInputs
  /\ inputCount' = [inputCount EXCEPT ![c] = @ + 1]
  /\ inputs' = [inputs EXCEPT ![c] =
                  Append(@, [inputSequenceNumber |-> inputCount'[c],
                             lastReceivedSnapshotId |-> seen[c].id])]
  /\ UNCHANGED <<lifecycle, departed, currentTick, outgoing, session, handed, toClient, seen>>

NetworkOutgoingTick ==
  DrainAndCoalesce \/ SendSnapshot \/ \E c \in Clients : PatchSnapshot(c)

Next ==
  \/ ProduceSnapshots
  \/ NetworkOutgoingTick
  \/ \E c \in Clients :
       \/ ClientActs(c) \/ Depart(c)
       \/ HandleInput(c)
       \/ ReceiveSnapshot(c) \/ SendInput(c)

Spec == Init /\ [][Next]_vars

(* The outgoing tick of the network thread keeps being called.             *)
FairSpec == Spec /\ WF_vars(NetworkOutgoingTick)

-----------------------------------------------------------------------------

(* A client never sees time go back: what it receives has a greater        *)
(* identifier and a later tick, though identifiers are given in another    *)
(* thread than ticks, and snapshots in between are dropped.                *)
SnapshotsAdvance ==
  [][\A c \in Clients : seen'[c] # seen[c] =>
       seen'[c].id > seen[c].id /\ seen'[c].tick > seen[c].tick]_vars

(* What the server believes acknowledged was sent, and the belief never    *)
(* goes back: simulation and network thread write the two identifiers of   *)
(* the session at different moments.                                       *)
AcksWereSent ==
  \A c \in Clients : clientLastAckedSnapshotId[c] <= handed[c].id

AcksAdvance ==
  [][\A c \in Clients : clientLastAckedSnapshotId'[c] >= clientLastAckedSnapshotId[c]]_vars

(* Coalescing never drops the newest state: a snapshot produced for an     *)
(* authenticated client is sent, or a later one is.                        *)
FreshStateIsSent ==
  \A c \in Clients, t \in 1 .. MaxTick :
    (stage[c] = "valid" /\ \E i \in DOMAIN queued[c] : queued[c][i] = t)
      ~> (handed[c].tick >= t \/ c \in departed)

(* client.h:107: serverLastSentSnapshotId is the last snapshot that was    *)
(* really sent to the client.                                              *)
LastSentWasSent ==
  \A c \in Clients :
    patched = Nobody => serverLastSentSnapshotId[c] = handed[c].id
=============================================================================
