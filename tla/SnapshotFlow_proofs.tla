------------------------- MODULE SnapshotFlow_proofs --------------------------
(***************************************************************************)
(* Proofs about SnapshotFlow, for any clients, bounds and losses: what a   *)
(* client receives advances, and what the server believes acknowledged was *)
(* sent and never goes back.                                               *)
(*                                                                         *)
(* The snapshots of a client are in order all along their way: seen by the *)
(* client, on the wire, handed to ENet, given an identifier, kept for the  *)
(* outgoing tick, queued.  The invariant says so in three parts, each      *)
(* about neighbouring stages, so that a step disturbs one or two of them.  *)
(***************************************************************************)
EXTENDS SnapshotFlow, SequenceTheorems, TLAPS

Input == [inputSequenceNumber : Nat, lastReceivedSnapshotId : Nat]

(* Every variable holds what the code keeps in it.                         *)
TypeOK ==
  /\ LifecycleTypeOK
  /\ departed \subseteq Clients
  /\ currentTick \in Nat
  /\ queued \in [Clients -> Seq(Nat)]
  /\ coalesced \in [Clients -> Nat]
  /\ patched \in [id : Nat, tick : Nat, to : Clients] \cup {Nobody}
  /\ serverNextSnapshotId \in [Clients -> Nat]
  /\ serverLastSentSnapshotId \in [Clients -> Nat]
  /\ clientLastAckedSnapshotId \in [Clients -> Nat]
  /\ pendingInputs \in [Clients -> Seq(Nat)]
  /\ handed \in [Clients -> Snapshot]
  /\ toClient \in [Clients -> Seq(Snapshot)]
  /\ seen \in [Clients -> Snapshot]
  /\ inputs \in [Clients -> Seq(Input)]
  /\ inputCount \in [Clients -> Nat]

(* s has a smaller identifier and an earlier tick than t.                  *)
Before(s, t) == s.id < t.id /\ s.tick < t.tick
UpTo(s, t)   == s.id <= t.id /\ s.tick <= t.tick

(* On the wire: later than what the client saw, in order, and no later     *)
(* than the last one that was handed to ENet.                              *)
WireInOrder(c) ==
  /\ UpTo(seen[c], handed[c])
  /\ \A i \in 1 .. Len(toClient[c]) :
       Before(seen[c], toClient[c][i]) /\ UpTo(toClient[c][i], handed[c])
  /\ \A i, j \in 1 .. Len(toClient[c]) :
       i < j => Before(toClient[c][i], toClient[c][j])

(* In the server: what is queued is later than what is kept, or numbered,  *)
(* and this later than what was handed to ENet; a number given is not the  *)
(* next one.                                                               *)
ServerInOrder(c) ==
  /\ handed[c].id < serverNextSnapshotId[c]
  /\ handed[c].tick <= currentTick
  /\ \A i \in 1 .. Len(queued[c]) :
       handed[c].tick < queued[c][i] /\ queued[c][i] <= currentTick
  /\ coalesced[c] # 0 =>
       /\ handed[c].tick < coalesced[c] /\ coalesced[c] <= currentTick
       /\ \A i \in 1 .. Len(queued[c]) : coalesced[c] < queued[c][i]
  /\ (patched # Nobody /\ patched.to = c) =>
       /\ Before(handed[c], patched)
       /\ patched.id < serverNextSnapshotId[c] /\ patched.tick <= currentTick
       /\ coalesced[c] = 0
       /\ \A i \in 1 .. Len(queued[c]) : patched.tick < queued[c][i]

(* The inputs of a client acknowledge in order, and only what it saw.      *)
AcksInOrder(c) ==
  /\ clientLastAckedSnapshotId[c] <= seen[c].id
  /\ \A i \in 1 .. Len(inputs[c]) :
       /\ clientLastAckedSnapshotId[c] <= inputs[c][i].lastReceivedSnapshotId
       /\ inputs[c][i].lastReceivedSnapshotId <= seen[c].id
  /\ \A i, j \in 1 .. Len(inputs[c]) :
       i < j => inputs[c][i].lastReceivedSnapshotId <= inputs[c][j].lastReceivedSnapshotId

(* The conjunction that every step preserves.                              *)
IInv ==
  /\ TypeOK
  /\ \A c \in Clients : WireInOrder(c) /\ ServerInOrder(c) /\ AcksInOrder(c)

LEMMA BeforeFollowsUpTo ==
  ASSUME NEW r \in Snapshot, NEW s \in Snapshot, NEW t \in Snapshot, UpTo(r, s), Before(s, t)
  PROVE  UpTo(r, t) /\ Before(r, t)
BY DEF UpTo, Before, Snapshot

-----------------------------------------------------------------------------
(* Sequences.                                                              *)

LEMMA AppendIs ==
  ASSUME NEW S, NEW q \in Seq(S), NEW x \in S
  PROVE  /\ Append(q, x) \in Seq(S) /\ Len(q) \in Nat /\ Len(Append(q, x)) = Len(q) + 1
         /\ \A i \in 1 .. Len(q) : Append(q, x)[i] = q[i] /\ q[i] \in S
         /\ Append(q, x)[Len(q) + 1] = x
         /\ 1 .. Len(q) + 1 = 1 .. Len(q) \cup {Len(q) + 1}
<1>1. Len(q) \in Nat  BY LenProperties
<1>2. 1 .. Len(q) + 1 = 1 .. Len(q) \cup {Len(q) + 1}  BY <1>1
<1> QED  BY <1>1, <1>2, AppendProperties, ElementOfSeq

LEMMA TailIs ==
  ASSUME NEW S, NEW q \in Seq(S), q # <<>>
  PROVE  /\ Tail(q) \in Seq(S) /\ Len(q) \in Nat \ {0} /\ Len(Tail(q)) = Len(q) - 1
         /\ Head(q) = q[1] /\ q[1] \in S
         /\ \A i \in 1 .. Len(q) - 1 : Tail(q)[i] = q[i + 1] /\ i + 1 \in 1 .. Len(q)
<1>1. Len(q) \in Nat \ {0}  BY EmptySeq, LenProperties
<1> QED  BY <1>1, HeadTailProperties, ElementOfSeq

LEMMA KeptIs ==
  ASSUME NEW q \in Seq(Nat)
  PROVE  /\ Kept(q) \in Nat
         /\ Kept(q) # 0 => \E i \in 1 .. Len(q) : Kept(q) = q[i]
<1>1. CASE q = <<>>  BY <1>1 DEF Kept
<1>2. CASE q # <<>>
  <2>1. Len(q) \in 1 .. Len(q) /\ q[Len(q)] \in Nat  BY <1>2, TailIs, ElementOfSeq
  <2> QED  BY <1>2, <2>1 DEF Kept
<1> QED  BY <1>1, <1>2

-----------------------------------------------------------------------------
(* Types.                                                                  *)

LEMMA InitTypes == Init => TypeOK
BY DEF Init, TypeOK, LifecycleInit, LifecycleTypeOK, Stages, Snapshot, NoSnapshot, lifecycle

(* A step of the life of a client keeps its types.                         *)
LEMMA LifecycleTypes ==
  ASSUME LifecycleTypeOK, NEW c \in Clients, ClientStep(c)
  PROVE  LifecycleTypeOK'
BY DEF LifecycleTypeOK, ClientStep, Join, SubmitToken, Decide, BecomeReady, Leave, Move, Stages

LEMMA NextTypes == TypeOK /\ [Next]_vars => TypeOK'
<1> SUFFICES ASSUME TypeOK, [Next]_vars PROVE TypeOK'
  OBVIOUS
<1> USE DEF TypeOK
<1>1. CASE ProduceSnapshots
  <2>1. currentTick' \in Nat  BY <1>1 DEF ProduceSnapshots
  <2>2. \A c \in Clients : Append(queued[c], currentTick') \in Seq(Nat)  BY <2>1, AppendIs
  <2>3. queued' \in [Clients -> Seq(Nat)]  BY <1>1, <2>2 DEF ProduceSnapshots
  <2> QED
    BY <1>1, <2>1, <2>3 DEF ProduceSnapshots, LifecycleTypeOK, lifecycle, session, client
<1>2. CASE DrainAndCoalesce
  <2>1. coalesced' \in [Clients -> Nat]  BY <1>2, KeptIs DEF DrainAndCoalesce
  <2>2. queued' \in [Clients -> Seq(Nat)]  BY <1>2 DEF DrainAndCoalesce
  <2> QED
    BY <1>2, <2>1, <2>2 DEF DrainAndCoalesce, LifecycleTypeOK, lifecycle, session, client
<1>3. CASE SendSnapshot
  <2> DEFINE s == [id |-> patched.id, tick |-> patched.tick]
  <2>1. s \in Snapshot /\ patched.to \in Clients  BY <1>3 DEF SendSnapshot, Snapshot
  <2>2. /\ handed' \in [Clients -> Snapshot]
        /\ toClient' \in [Clients -> Seq(Snapshot)]
    <3>1. Append(toClient[patched.to], s) \in Seq(Snapshot)  BY <2>1, AppendIs
    <3>2. CASE stage[patched.to] = "valid"
      <4>1. /\ handed' = [handed EXCEPT ![patched.to] = s]
            /\ toClient' = [toClient EXCEPT ![patched.to] = Append(@, s)]
        BY <1>3, <3>2 DEF SendSnapshot
      <4> HIDE DEF s
      <4> QED  BY <2>1, <3>1, <4>1
    <3>3. CASE stage[patched.to] # "valid"
      BY <1>3, <3>3 DEF SendSnapshot
    <3> QED  BY <3>2, <3>3
  <2> QED  BY <1>3, <2>2 DEF SendSnapshot, LifecycleTypeOK, lifecycle, session, client
<1>4. ASSUME NEW c \in Clients, PatchSnapshot(c) PROVE TypeOK'
  <2>1. coalesced' \in [Clients -> Nat]  BY <1>4 DEF PatchSnapshot
  <2>2. /\ patched' \in [id : Nat, tick : Nat, to : Clients] \cup {Nobody}
        /\ serverNextSnapshotId' \in [Clients -> Nat]
        /\ serverLastSentSnapshotId' \in [Clients -> Nat]
    <3>1. CASE c \in Sessions \ departed
      <4>1. /\ patched' = [id |-> serverNextSnapshotId[c], tick |-> coalesced[c], to |-> c]
            /\ NumberSnapshot(c)
        BY <1>4, <3>1 DEF PatchSnapshot
      <4> QED  BY <4>1 DEF NumberSnapshot
    <3>2. CASE c \notin Sessions \ departed
      BY <1>4, <3>2 DEF PatchSnapshot
    <3> QED  BY <3>1, <3>2
  <2> QED  BY <1>4, <2>1, <2>2 DEF PatchSnapshot, LifecycleTypeOK, lifecycle, client
<1>5. ASSUME NEW c \in Clients, ClientActs(c) PROVE TypeOK'
  BY <1>5, LifecycleTypes DEF ClientActs, outgoing, session, client
<1>6. ASSUME NEW c \in Clients, Depart(c) PROVE TypeOK'
  BY <1>6 DEF Depart, Sessions, LifecycleTypeOK, lifecycle, outgoing, session, client
<1>7. ASSUME NEW c \in Clients, HandleInput(c) PROVE TypeOK'
  <2>1. Head(inputs[c]) \in Input /\ Tail(inputs[c]) \in Seq(Input)
    BY <1>7, TailIs DEF HandleInput
  <2>2. /\ Head(inputs[c]).lastReceivedSnapshotId \in Nat
        /\ Head(inputs[c]).inputSequenceNumber \in Nat
    BY <2>1 DEF Input
  <2>3. Append(pendingInputs[c], Head(inputs[c]).inputSequenceNumber) \in Seq(Nat)
    BY <2>2, AppendIs
  <2> QED
    BY <1>7, <2>1, <2>2, <2>3 DEF HandleInput, LifecycleTypeOK, lifecycle, outgoing
<1>8. ASSUME NEW c \in Clients, ReceiveSnapshot(c) PROVE TypeOK'
  <2>1. Head(toClient[c]) \in Snapshot /\ Tail(toClient[c]) \in Seq(Snapshot)
    BY <1>8, TailIs DEF ReceiveSnapshot
  <2> QED
    BY <1>8, <2>1 DEF ReceiveSnapshot, LifecycleTypeOK, lifecycle, outgoing, session
<1>9. ASSUME NEW c \in Clients, SendInput(c) PROVE TypeOK'
  <2> DEFINE i == [inputSequenceNumber |-> inputCount'[c], lastReceivedSnapshotId |-> seen[c].id]
  <2>1. inputCount' \in [Clients -> Nat]  BY <1>9 DEF SendInput
  <2>2. i \in Input  BY <2>1 DEF Input, Snapshot
  <2>3. Append(inputs[c], i) \in Seq(Input)  BY <2>2, AppendIs
  <2> QED
    BY <1>9, <2>1, <2>3 DEF SendInput, LifecycleTypeOK, lifecycle, outgoing, session
<1>10. CASE UNCHANGED vars
  BY <1>10 DEF vars, LifecycleTypeOK, lifecycle, outgoing, session, client
<1> QED
  BY <1>1, <1>2, <1>3, <1>4, <1>5, <1>6, <1>7, <1>8, <1>9, <1>10
  DEF Next, NetworkOutgoingTick
-----------------------------------------------------------------------------
(* The order on the wire.                                                  *)

LEMMA WireStep == IInv /\ [Next]_vars => \A c \in Clients : WireInOrder(c)'
<1> SUFFICES ASSUME IInv, [Next]_vars, NEW c \in Clients
             PROVE  WireInOrder(c)'
  OBVIOUS
<1> DEFINE q == toClient[c]
           n == Len(q)
<1>1. /\ q \in Seq(Snapshot) /\ n \in Nat
      /\ seen[c] \in Snapshot /\ handed[c] \in Snapshot
      /\ \A i \in 1 .. n : q[i] \in Snapshot
      /\ WireInOrder(c) /\ ServerInOrder(c)
  BY LenProperties, ElementOfSeq DEF IInv, TypeOK
<1>2. ASSUME SendSnapshot, patched.to = c, stage[c] = "valid"
      PROVE  WireInOrder(c)'
  <2> DEFINE s == [id |-> patched.id, tick |-> patched.tick]
  <2>1. /\ toClient'[c] = Append(q, s) /\ handed'[c] = s /\ seen' = seen
        /\ patched # Nobody
    BY <1>2 DEF SendSnapshot, IInv, TypeOK, client
  <2>2. s \in Snapshot /\ Before(handed[c], s)
    BY <1>1, <1>2, <2>1 DEF IInv, TypeOK, ServerInOrder, Before, Snapshot
  <2> HIDE DEF s, q
  <2>3. /\ Len(toClient'[c]) = n + 1
        /\ \A i \in 1 .. n : toClient'[c][i] = q[i]
        /\ toClient'[c][n + 1] = s
        /\ 1 .. n + 1 = 1 .. n \cup {n + 1}
    BY <1>1, <2>1, <2>2, AppendIs
  <2> HIDE DEF n
  <2>4. UpTo(seen[c], handed[c])
        /\ \A i \in 1 .. n : Before(seen[c], q[i]) /\ UpTo(q[i], handed[c])
    BY <1>1 DEF WireInOrder, q, n
  <2>5. \A i, j \in 1 .. n : i < j => Before(q[i], q[j])
    BY <1>1 DEF WireInOrder, q, n
  <2>6. UpTo(seen[c], s) /\ Before(seen[c], s) /\ UpTo(s, s)
    BY <1>1, <2>2, <2>4 DEF UpTo, Before, Snapshot
  <2>7. \A i \in 1 .. n : UpTo(q[i], s) /\ Before(q[i], s)
    <3> TAKE i \in 1 .. n
    <3>1. q[i] \in Snapshot /\ UpTo(q[i], handed[c])
      BY <1>1, <2>4
    <3> QED  BY <1>1, <2>2, <3>1, BeforeFollowsUpTo
  <2>8. \A i \in 1 .. n + 1 : Before(seen[c], toClient'[c][i]) /\ UpTo(toClient'[c][i], s)
    BY <2>3, <2>4, <2>6, <2>7
  <2>9. \A i, j \in 1 .. n + 1 : i < j => Before(toClient'[c][i], toClient'[c][j])
    <3> SUFFICES ASSUME NEW i \in 1 .. n + 1, NEW j \in 1 .. n + 1, i < j
                 PROVE  Before(toClient'[c][i], toClient'[c][j])
      OBVIOUS
    <3>1. i \in 1 .. n  BY <1>1
    <3>2. CASE j \in 1 .. n  BY <2>3, <2>5, <3>1, <3>2
    <3>3. CASE j = n + 1  BY <2>3, <2>7, <3>1, <3>3
    <3> QED  BY <2>3, <3>2, <3>3
  <2> QED  BY <2>1, <2>3, <2>6, <2>8, <2>9 DEF WireInOrder
<1>3. ASSUME ReceiveSnapshot(c)
      PROVE  WireInOrder(c)'
  <2>1. /\ q # <<>> /\ toClient'[c] = Tail(q) /\ handed' = handed
        /\ seen'[c] \in {Head(q), seen[c]}
    BY <1>3 DEF ReceiveSnapshot, IInv, TypeOK
  <2> HIDE DEF q
  <2>2. /\ n \in Nat \ {0} /\ Len(toClient'[c]) = n - 1 /\ Head(q) = q[1] /\ 1 \in 1 .. n
        /\ \A i \in 1 .. n - 1 : toClient'[c][i] = q[i + 1] /\ i + 1 \in 1 .. n
    BY <1>1, <2>1, TailIs
  <2> HIDE DEF n
  <2>3. /\ UpTo(seen[c], handed[c])
        /\ \A i \in 1 .. n : Before(seen[c], q[i]) /\ UpTo(q[i], handed[c])
        /\ \A i, j \in 1 .. n : i < j => Before(q[i], q[j])
    BY <1>1 DEF WireInOrder, q, n
  <2>4. UpTo(seen'[c], handed[c])
    BY <2>1, <2>2, <2>3
  <2>5. \A i \in 1 .. n - 1 : Before(seen'[c], q[i + 1]) /\ UpTo(q[i + 1], handed[c])
    <3> SUFFICES ASSUME NEW i \in 1 .. n - 1
                 PROVE  Before(seen'[c], q[i + 1]) /\ UpTo(q[i + 1], handed[c])
      OBVIOUS
    <3>1. 1 < i + 1 /\ i + 1 \in 1 .. n  BY <2>2
    <3> QED  BY <2>1, <2>2, <2>3, <3>1
  <2>6. \A i, j \in 1 .. n - 1 : i < j => Before(q[i + 1], q[j + 1])
    <3> SUFFICES ASSUME NEW i \in 1 .. n - 1, NEW j \in 1 .. n - 1, i < j
                 PROVE  Before(q[i + 1], q[j + 1])
      OBVIOUS
    <3>1. i + 1 < j + 1  BY <2>2
    <3> QED  BY <2>2, <2>3, <3>1
  <2> QED  BY <2>1, <2>2, <2>4, <2>5, <2>6 DEF WireInOrder
<1>4. CASE UNCHANGED <<toClient[c], seen[c], handed[c]>>
  BY <1>1, <1>4 DEF WireInOrder
<1>5. \/ UNCHANGED <<toClient[c], seen[c], handed[c]>>
      \/ SendSnapshot /\ patched.to = c /\ stage[c] = "valid"
      \/ ReceiveSnapshot(c)
  <2>1. CASE SendSnapshot
    <3>1. CASE patched.to = c /\ stage[c] = "valid"
      BY <2>1, <3>1
    <3>2. CASE ~(patched.to = c /\ stage[c] = "valid")
      BY <2>1, <3>2 DEF SendSnapshot, IInv, TypeOK, client
    <3> QED  BY <3>1, <3>2
  <2>2. ASSUME NEW d \in Clients, ReceiveSnapshot(d), d # c
        PROVE  UNCHANGED <<toClient[c], seen[c], handed[c]>>
    BY <2>2 DEF ReceiveSnapshot, IInv, TypeOK
  <2>3. ASSUME NEW d \in Clients,
               ClientActs(d) \/ Depart(d) \/ HandleInput(d) \/ SendInput(d) \/ PatchSnapshot(d)
        PROVE  UNCHANGED <<toClient, seen, handed>>
    BY <2>3 DEF ClientActs, Depart, HandleInput, SendInput, PatchSnapshot, client
  <2>4. CASE ProduceSnapshots \/ DrainAndCoalesce \/ UNCHANGED vars
    BY <2>4 DEF ProduceSnapshots, DrainAndCoalesce, client, vars
  <2> QED  BY <2>1, <2>2, <2>3, <2>4 DEF Next, NetworkOutgoingTick
<1> QED  BY <1>2, <1>3, <1>4, <1>5

-----------------------------------------------------------------------------
(* The order in the server.                                                *)

LEMMA ServerStep == IInv /\ [Next]_vars => \A c \in Clients : ServerInOrder(c)'
<1> SUFFICES ASSUME IInv, [Next]_vars, NEW c \in Clients
             PROVE  ServerInOrder(c)'
  OBVIOUS
<1> DEFINE q == queued[c]
           n == Len(q)
<1>1. /\ q \in Seq(Nat) /\ n \in Nat /\ coalesced[c] \in Nat /\ currentTick \in Nat
      /\ serverNextSnapshotId[c] \in Nat
      /\ handed[c] \in Snapshot /\ handed[c].id \in Nat /\ handed[c].tick \in Nat
      /\ patched # Nobody => patched.id \in Nat /\ patched.tick \in Nat /\ patched.to \in Clients
      /\ \A i \in 1 .. n : q[i] \in Nat
      /\ ServerInOrder(c)
  BY LenProperties, ElementOfSeq DEF IInv, TypeOK, Snapshot
<1> HIDE DEF q, n
<1>2. CASE ProduceSnapshots
  <2>1. /\ currentTick' = currentTick + 1 /\ currentTick + 1 \in Nat
        /\ UNCHANGED <<coalesced, patched, handed, serverNextSnapshotId>>
    BY <1>1, <1>2 DEF ProduceSnapshots, session
  <2>2. \A i \in 1 .. Len(queued'[c]) :
          queued'[c][i] = currentTick + 1 \/ \E j \in 1 .. n : queued'[c][i] = q[j]
    <3>1. CASE queued'[c] = q
      BY <1>1, <3>1 DEF n
    <3>2. CASE queued'[c] = Append(q, currentTick + 1)
      BY <1>1, <2>1, <3>2, AppendIs DEF n
    <3> QED  BY <1>2, <2>1, <3>1, <3>2 DEF ProduceSnapshots, q
  <2>3. /\ handed[c].id < serverNextSnapshotId[c]
        /\ handed[c].tick <= currentTick
        /\ \A i \in 1 .. n : handed[c].tick < q[i] /\ q[i] <= currentTick
    BY <1>1 DEF ServerInOrder, q, n
  <2>4. \A i \in 1 .. Len(queued'[c]) :
          handed[c].tick < queued'[c][i] /\ queued'[c][i] <= currentTick + 1
    <3> SUFFICES ASSUME NEW i \in 1 .. Len(queued'[c])
                 PROVE  handed[c].tick < queued'[c][i] /\ queued'[c][i] <= currentTick + 1
      OBVIOUS
    <3>1. CASE queued'[c][i] = currentTick + 1
      BY <1>1, <2>3, <3>1
    <3>2. ASSUME NEW j \in 1 .. n, queued'[c][i] = q[j]
          PROVE  handed[c].tick < queued'[c][i] /\ queued'[c][i] <= currentTick + 1
      <4>1. q[j] \in Nat /\ handed[c].tick < q[j] /\ q[j] <= currentTick  BY <1>1, <2>3
      <4> QED  BY <1>1, <3>2, <4>1
    <3> QED  BY <2>2, <3>1, <3>2
  <2>5. coalesced[c] # 0 =>
          /\ handed[c].tick < coalesced[c] /\ coalesced[c] <= currentTick + 1
          /\ \A i \in 1 .. Len(queued'[c]) : coalesced[c] < queued'[c][i]
    <3>1. coalesced[c] # 0 =>
            /\ handed[c].tick < coalesced[c] /\ coalesced[c] <= currentTick
            /\ \A i \in 1 .. n : coalesced[c] < q[i]
      BY <1>1 DEF ServerInOrder, q, n
    <3> QED  BY <1>1, <2>1, <2>2, <3>1
  <2>6. (patched # Nobody /\ patched.to = c) =>
          /\ Before(handed[c], patched)
          /\ patched.id < serverNextSnapshotId[c] /\ patched.tick <= currentTick + 1
          /\ coalesced[c] = 0
          /\ \A i \in 1 .. Len(queued'[c]) : patched.tick < queued'[c][i]
    <3>1. (patched # Nobody /\ patched.to = c) =>
            /\ Before(handed[c], patched)
            /\ patched.id < serverNextSnapshotId[c] /\ patched.tick <= currentTick
            /\ coalesced[c] = 0
            /\ \A i \in 1 .. n : patched.tick < q[i]
      BY <1>1 DEF ServerInOrder, q, n
    <3> SUFFICES ASSUME patched # Nobody, patched.to = c
                 PROVE  /\ patched.tick <= currentTick + 1
                        /\ \A i \in 1 .. Len(queued'[c]) : patched.tick < queued'[c][i]
      BY <3>1
    <3>2. patched.tick \in Nat /\ patched.tick <= currentTick  BY <1>1, <3>1
    <3>3. patched.tick < currentTick + 1 /\ patched.tick <= currentTick + 1
      BY <1>1, <3>2
    <3>4. \A i \in 1 .. Len(queued'[c]) : patched.tick < queued'[c][i]
      <4> TAKE i \in 1 .. Len(queued'[c])
      <4>1. queued'[c][i] = currentTick + 1 \/ \E j \in 1 .. n : queued'[c][i] = q[j]
        BY <2>2
      <4> QED  BY <3>1, <3>3, <4>1
    <3> QED  BY <3>3, <3>4
  <2>7. handed[c].tick <= currentTick + 1  BY <1>1, <2>3
  <2> QED  BY <2>1, <2>3, <2>4, <2>5, <2>6, <2>7 DEF ServerInOrder
<1>3. CASE DrainAndCoalesce
  <2>1. /\ coalesced'[c] = Kept(q) /\ queued'[c] = <<>> /\ patched = Nobody
        /\ UNCHANGED <<currentTick, patched, handed, serverNextSnapshotId>>
    BY <1>3 DEF DrainAndCoalesce, NetworkIdle, session, q
  <2>2. Kept(q) # 0 => \E i \in 1 .. n : Kept(q) = q[i]
    BY <1>1, KeptIs DEF n
  <2>3. 1 .. Len(queued'[c]) = {}
    BY <2>1
  <2> QED  BY <1>1, <2>1, <2>2, <2>3 DEF ServerInOrder, q, n
<1>4. ASSUME NEW d \in Clients, PatchSnapshot(d)
      PROVE  ServerInOrder(c)'
  <2>1. /\ patched = Nobody /\ coalesced[d] # 0 /\ coalesced' = [coalesced EXCEPT ![d] = 0]
        /\ UNCHANGED <<currentTick, queued, handed>>
    BY <1>4 DEF PatchSnapshot
  <2>2. CASE d = c /\ d \in Sessions \ departed
    <3>1. /\ patched' = [id |-> serverNextSnapshotId[c], tick |-> coalesced[c], to |-> c]
          /\ serverNextSnapshotId'[c] = serverNextSnapshotId[c] + 1
          /\ coalesced'[c] = 0
      BY <1>4, <2>1, <2>2 DEF PatchSnapshot, NumberSnapshot, IInv, TypeOK
    <3> QED  BY <1>1, <2>1, <2>2, <3>1 DEF ServerInOrder, Before, q, n
  <2>3. CASE d # c
    <3>1. /\ coalesced'[c] = coalesced[c]
          /\ serverNextSnapshotId'[c] = serverNextSnapshotId[c]
          /\ patched' = Nobody \/ patched'.to # c
      BY <1>4, <2>1, <2>3 DEF PatchSnapshot, NumberSnapshot, IInv, TypeOK
    <3> QED  BY <1>1, <2>1, <3>1 DEF ServerInOrder, q, n
  <2>4. CASE d = c /\ d \notin Sessions \ departed
    <3>1. coalesced'[c] = 0 /\ UNCHANGED <<serverNextSnapshotId, patched>>
      BY <1>4, <2>1, <2>4 DEF PatchSnapshot, IInv, TypeOK
    <3> QED  BY <1>1, <2>1, <3>1 DEF ServerInOrder, q, n
  <2> QED  BY <2>2, <2>3, <2>4
<1>5. CASE SendSnapshot
  <2>1. /\ patched # Nobody /\ patched' = Nobody
        /\ UNCHANGED <<currentTick, queued, coalesced, serverNextSnapshotId>>
    BY <1>5 DEF SendSnapshot, session
  <2>2. CASE handed'[c] = handed[c]
    BY <1>1, <2>1, <2>2 DEF ServerInOrder, q, n
  <2>3. CASE patched.to = c /\ handed'[c] = [id |-> patched.id, tick |-> patched.tick]
    BY <1>1, <2>1, <2>3 DEF ServerInOrder, q, n
  <2>4. \/ handed'[c] = handed[c]
        \/ patched.to = c /\ handed'[c] = [id |-> patched.id, tick |-> patched.tick]
    BY <1>1, <1>5, <2>1 DEF SendSnapshot, IInv, TypeOK
  <2> QED  BY <2>2, <2>3, <2>4
<1>6. CASE UNCHANGED <<currentTick, queued, coalesced, patched, handed, serverNextSnapshotId>>
  BY <1>1, <1>6 DEF ServerInOrder, q, n
<1>7. ASSUME NEW d \in Clients,
             ClientActs(d) \/ Depart(d) \/ HandleInput(d) \/ SendInput(d) \/ ReceiveSnapshot(d)
      PROVE  UNCHANGED <<currentTick, queued, coalesced, patched, handed, serverNextSnapshotId>>
  BY <1>7 DEF ClientActs, Depart, HandleInput, SendInput, ReceiveSnapshot, outgoing, session
<1>8. UNCHANGED vars =>
        UNCHANGED <<currentTick, queued, coalesced, patched, handed, serverNextSnapshotId>>
  BY DEF vars, outgoing, session
<1> QED
  BY <1>2, <1>3, <1>4, <1>5, <1>6, <1>7, <1>8 DEF Next, NetworkOutgoingTick

-----------------------------------------------------------------------------
(* The order of the acknowledgements.                                      *)

LEMMA AcksStep == IInv /\ [Next]_vars => \A c \in Clients : AcksInOrder(c)'
<1> SUFFICES ASSUME IInv, [Next]_vars, NEW c \in Clients
             PROVE  AcksInOrder(c)'
  OBVIOUS
<1> DEFINE q == inputs[c]
           n == Len(q)
           Ack(i) == q[i].lastReceivedSnapshotId
<1>1. /\ q \in Seq(Input) /\ n \in Nat
      /\ seen[c].id \in Nat /\ clientLastAckedSnapshotId[c] \in Nat
      /\ \A i \in 1 .. n : q[i] \in Input /\ Ack(i) \in Nat
      /\ AcksInOrder(c) /\ WireInOrder(c)
  <2>1. q \in Seq(Input)  BY DEF IInv, TypeOK
  <2> HIDE DEF q
  <2>2. \A i \in 1 .. n : q[i] \in Input  BY <2>1, ElementOfSeq
  <2>3. \A i \in 1 .. n : Ack(i) \in Nat  BY <2>2 DEF Input
  <2> QED  BY <2>1, <2>2, <2>3, LenProperties DEF IInv, TypeOK, Snapshot
<1> HIDE DEF q, n
<1>2. ASSUME HandleInput(c)
      PROVE  AcksInOrder(c)'
  <2>1. /\ q # <<>> /\ inputs'[c] = Tail(q) /\ seen' = seen
        /\ clientLastAckedSnapshotId'[c] \in
             {clientLastAckedSnapshotId[c], Head(q).lastReceivedSnapshotId}
    BY <1>2 DEF HandleInput, IInv, TypeOK, q
  <2>2. /\ n \in Nat \ {0} /\ Len(inputs'[c]) = n - 1 /\ Head(q) = q[1] /\ 1 \in 1 .. n
        /\ \A i \in 1 .. n - 1 : inputs'[c][i] = q[i + 1] /\ i + 1 \in 1 .. n
    BY <1>1, <2>1, TailIs DEF n
  <2>3. /\ clientLastAckedSnapshotId[c] <= Ack(1) /\ Ack(1) <= seen[c].id
        /\ \A i \in 1 .. n - 1 : Ack(1) <= Ack(i + 1) /\ Ack(i + 1) <= seen[c].id
                                 /\ clientLastAckedSnapshotId[c] <= Ack(i + 1)
        /\ \A i, j \in 1 .. n - 1 : i < j => Ack(i + 1) <= Ack(j + 1)
    <3>1. \A i \in 1 .. n - 1 : 1 < i + 1 /\ i + 1 \in 1 .. n  BY <2>2
    <3>2. \A i, j \in 1 .. n - 1 : i < j => i + 1 < j + 1  BY <2>2
    <3> QED  BY <1>1, <2>2, <3>1, <3>2 DEF AcksInOrder, q, n
  <2>4. /\ clientLastAckedSnapshotId'[c] <= seen[c].id
        /\ \A i \in 1 .. n - 1 : clientLastAckedSnapshotId'[c] <= Ack(i + 1)
    BY <1>1, <2>1, <2>2, <2>3 DEF AcksInOrder
  <2> QED  BY <2>1, <2>2, <2>3, <2>4 DEF AcksInOrder
<1>3. ASSUME ReceiveSnapshot(c)
      PROVE  AcksInOrder(c)'
  <2>1. /\ UNCHANGED <<inputs, clientLastAckedSnapshotId>>
        /\ seen'[c] = seen[c] \/ (toClient[c] # <<>> /\ seen'[c] = Head(toClient[c]))
    BY <1>3 DEF ReceiveSnapshot, IInv, TypeOK, session
  <2>2. seen'[c].id \in Nat /\ seen[c].id <= seen'[c].id
    <3>1. CASE seen'[c] = seen[c]  BY <1>1, <3>1
    <3>2. CASE toClient[c] # <<>> /\ seen'[c] = Head(toClient[c])
      <4>1. toClient[c] \in Seq(Snapshot)  BY DEF IInv, TypeOK
      <4>2. /\ 1 \in 1 .. Len(toClient[c]) /\ Head(toClient[c]) = toClient[c][1]
            /\ toClient[c][1] \in Snapshot
        BY <3>2, <4>1, TailIs
      <4> QED  BY <1>1, <3>2, <4>2 DEF WireInOrder, Before, Snapshot
    <3> QED  BY <2>1, <3>1, <3>2
  <2> QED  BY <1>1, <2>1, <2>2 DEF AcksInOrder, q, n
<1>4. ASSUME SendInput(c)
      PROVE  AcksInOrder(c)'
  <2> DEFINE x == [inputSequenceNumber |-> inputCount'[c], lastReceivedSnapshotId |-> seen[c].id]
  <2>1. /\ inputs'[c] = Append(q, x)
        /\ UNCHANGED <<seen, clientLastAckedSnapshotId>>
        /\ inputCount'[c] \in Nat
    BY <1>4 DEF SendInput, IInv, TypeOK, session, q
  <2>2. x \in Input /\ x.lastReceivedSnapshotId = seen[c].id  BY <1>1, <2>1 DEF Input
  <2> HIDE DEF x
  <2>3. /\ Len(inputs'[c]) = n + 1 /\ 1 .. n + 1 = 1 .. n \cup {n + 1}
        /\ \A i \in 1 .. n : inputs'[c][i] = q[i]
        /\ inputs'[c][n + 1] = x
    BY <1>1, <2>1, <2>2, AppendIs DEF n
  <2>4. /\ \A i \in 1 .. n : clientLastAckedSnapshotId[c] <= Ack(i) /\ Ack(i) <= seen[c].id
        /\ \A i, j \in 1 .. n : i < j => Ack(i) <= Ack(j)
        /\ clientLastAckedSnapshotId[c] <= seen[c].id
    BY <1>1 DEF AcksInOrder, q, n
  <2>5. \A i, j \in 1 .. n + 1 : i < j =>
          inputs'[c][i].lastReceivedSnapshotId <= inputs'[c][j].lastReceivedSnapshotId
    <3> SUFFICES ASSUME NEW i \in 1 .. n + 1, NEW j \in 1 .. n + 1, i < j
                 PROVE  inputs'[c][i].lastReceivedSnapshotId <= inputs'[c][j].lastReceivedSnapshotId
      OBVIOUS
    <3>1. i \in 1 .. n  BY <1>1
    <3> QED  BY <2>2, <2>3, <2>4, <3>1
  <2> QED  BY <1>1, <2>1, <2>2, <2>3, <2>4, <2>5 DEF AcksInOrder
<1>5. CASE UNCHANGED <<inputs[c], seen[c], clientLastAckedSnapshotId[c]>>
  BY <1>1, <1>5 DEF AcksInOrder
<1>6. ASSUME NEW d \in Clients, d # c, HandleInput(d) \/ ReceiveSnapshot(d) \/ SendInput(d)
      PROVE  UNCHANGED <<inputs[c], seen[c], clientLastAckedSnapshotId[c]>>
  BY <1>6 DEF HandleInput, ReceiveSnapshot, SendInput, IInv, TypeOK, session
<1>7. ASSUME NEW d \in Clients, ClientActs(d) \/ Depart(d) \/ PatchSnapshot(d)
      PROVE  UNCHANGED <<inputs, seen, clientLastAckedSnapshotId>>
  BY <1>7 DEF ClientActs, Depart, PatchSnapshot, session, client
<1>8. ProduceSnapshots \/ DrainAndCoalesce \/ SendSnapshot \/ UNCHANGED vars =>
        UNCHANGED <<inputs, seen, clientLastAckedSnapshotId>>
  BY DEF ProduceSnapshots, DrainAndCoalesce, SendSnapshot, vars, session, client
<1> QED
  BY <1>2, <1>3, <1>4, <1>5, <1>6, <1>7, <1>8 DEF Next, NetworkOutgoingTick

-----------------------------------------------------------------------------

LEMMA InitInv == Init => IInv
<1> SUFFICES ASSUME Init PROVE IInv
  OBVIOUS
<1>1. \A c \in Clients : WireInOrder(c) /\ ServerInOrder(c) /\ AcksInOrder(c)
  <2> SUFFICES ASSUME NEW c \in Clients
               PROVE  WireInOrder(c) /\ ServerInOrder(c) /\ AcksInOrder(c)
    OBVIOUS
  <2>1. /\ toClient[c] = <<>> /\ queued[c] = <<>> /\ inputs[c] = <<>>
        /\ seen[c] = NoSnapshot /\ handed[c] = NoSnapshot
        /\ coalesced[c] = 0 /\ patched = Nobody /\ currentTick = 0
        /\ serverNextSnapshotId[c] = 1 /\ clientLastAckedSnapshotId[c] = 0
    BY DEF Init
  <2>2. 1 .. Len(<<>>) = {}  OBVIOUS
  <2>3. WireInOrder(c)  BY <2>1, <2>2 DEF WireInOrder, UpTo, NoSnapshot
  <2>4. ServerInOrder(c)  BY <2>1, <2>2 DEF ServerInOrder, NoSnapshot
  <2>5. AcksInOrder(c)  BY <2>1, <2>2 DEF AcksInOrder, NoSnapshot
  <2> QED  BY <2>3, <2>4, <2>5
<1> QED  BY <1>1, InitTypes DEF IInv

(* The snapshots of every client are in order all along their way.         *)
THEOREM SnapshotsInOrder == Spec => []IInv
<1>1. IInv /\ [Next]_vars => IInv'
  BY NextTypes, WireStep, ServerStep, AcksStep DEF IInv
<1> QED  BY <1>1, InitInv, PTL DEF Spec

(* What the server believes acknowledged was sent.                         *)
THEOREM AcksAreOfSentSnapshots == Spec => []AcksWereSent
<1>1. IInv => AcksWereSent
  <2> SUFFICES ASSUME IInv, NEW c \in Clients
               PROVE  clientLastAckedSnapshotId[c] <= handed[c].id
    BY DEF AcksWereSent
  <2>1. clientLastAckedSnapshotId[c] <= seen[c].id /\ seen[c].id <= handed[c].id
    BY DEF IInv, AcksInOrder, WireInOrder, UpTo
  <2> QED  BY <2>1 DEF IInv, TypeOK, Snapshot
<1> QED  BY <1>1, SnapshotsInOrder, PTL

(* A client never sees time go back, whatever is coalesced, dropped before *)
(* the client is authenticated, or lost.                                   *)
THEOREM ClientsSeeTimeAdvance == Spec => SnapshotsAdvance
<1> DEFINE A == \A c \in Clients : seen'[c] # seen[c] =>
                   seen'[c].id > seen[c].id /\ seen'[c].tick > seen[c].tick
<1>1. ASSUME IInv, Next PROVE A
  <2> SUFFICES ASSUME NEW c \in Clients, seen'[c] # seen[c]
               PROVE  seen'[c].id > seen[c].id /\ seen'[c].tick > seen[c].tick
    OBVIOUS
  <2>1. PICK d \in Clients : ReceiveSnapshot(d)
    BY <1>1 DEF Next, NetworkOutgoingTick, ProduceSnapshots, DrainAndCoalesce, SendSnapshot,
       PatchSnapshot, ClientActs, Depart, HandleInput, SendInput, client
  <2>2. d = c /\ toClient[c] # <<>> /\ seen'[c] = Head(toClient[c])
    BY <1>1, <2>1 DEF ReceiveSnapshot, IInv, TypeOK
  <2>3. toClient[c] \in Seq(Snapshot)  BY <1>1 DEF IInv, TypeOK
  <2>4. /\ 1 \in 1 .. Len(toClient[c]) /\ Head(toClient[c]) = toClient[c][1]
        /\ toClient[c][1] \in Snapshot
    BY <2>2, <2>3, TailIs
  <2> QED  BY <1>1, <2>2, <2>4 DEF IInv, TypeOK, WireInOrder, Before, Snapshot
<1>2. IInv /\ [Next]_vars => [A]_vars
  BY <1>1
<1> QED  BY <1>2, SnapshotsInOrder, PTL DEF Spec, SnapshotsAdvance

(* The belief of the server never goes back.                               *)
THEOREM AcknowledgementsAdvance == Spec => AcksAdvance
<1> DEFINE A == \A c \in Clients : clientLastAckedSnapshotId'[c] >= clientLastAckedSnapshotId[c]
<1>1. ASSUME IInv, Next PROVE A
  <2> SUFFICES ASSUME NEW c \in Clients
               PROVE  clientLastAckedSnapshotId'[c] >= clientLastAckedSnapshotId[c]
    OBVIOUS
  <2>1. CASE clientLastAckedSnapshotId'[c] = clientLastAckedSnapshotId[c]
    BY <1>1, <2>1 DEF IInv, TypeOK
  <2>2. CASE clientLastAckedSnapshotId'[c] # clientLastAckedSnapshotId[c]
    <3>1. PICK d \in Clients : HandleInput(d)
      BY <1>1, <2>2 DEF Next, NetworkOutgoingTick, ProduceSnapshots, DrainAndCoalesce,
         SendSnapshot, PatchSnapshot, ClientActs, Depart, ReceiveSnapshot, SendInput, session
    <3>2. /\ inputs[c] # <<>>
          /\ clientLastAckedSnapshotId'[c] = Head(inputs[c]).lastReceivedSnapshotId
      BY <1>1, <2>2, <3>1 DEF HandleInput, IInv, TypeOK
    <3>3. inputs[c] \in Seq(Input)  BY <1>1 DEF IInv, TypeOK
    <3>4. 1 \in 1 .. Len(inputs[c]) /\ Head(inputs[c]) = inputs[c][1] /\ inputs[c][1] \in Input
      BY <3>2, <3>3, TailIs
    <3> QED  BY <1>1, <3>2, <3>4 DEF IInv, TypeOK, AcksInOrder, Input
  <2> QED  BY <2>1, <2>2
<1>2. IInv /\ [Next]_vars => [A]_vars
  BY <1>1
<1> QED  BY <1>2, SnapshotsInOrder, PTL DEF Spec, AcksAdvance
=============================================================================
