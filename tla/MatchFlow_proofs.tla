--------------------------- MODULE MatchFlow_proofs ---------------------------
(***************************************************************************)
(* Proofs that the packets of the match flow reach every client at most    *)
(* once and in order, and that the announced start tick holds, for every   *)
(* set of clients, size of the match and countdown.                        *)
(***************************************************************************)
EXTENDS MatchFlow, TLAPS

(* The packets of a sequence have increasing ranks.                        *)
Increasing(q) == \A i, j \in DOMAIN q : i < j => Rank(q[i]) < Rank(q[j])

(* All of p comes before all of q.                                         *)
Precedes(p, q) == \A i \in DOMAIN p, j \in DOMAIN q : Rank(p[i]) < Rank(q[j])

(* A packet this tick may queue.                                           *)
Fresh(packet) ==
  CASE packet.type = "MATCH_INIT"              -> ~matchInitSent
    [] packet.type = "WORLD_STATIC_STATE_INIT" -> ~worldStaticStateInitSent
    [] packet.type = "MATCH_START"             ->
         StartsCountdown /\ packet.startTick = NextTick + CountdownTicks

-----------------------------------------------------------------------------
(* Sequences of packets.                                                   *)

(* The elements of a concatenation are those of its parts.                 *)
LEMMA ConcatElements ==
  ASSUME NEW p \in Seq(Packet), NEW q \in Seq(Packet), NEW i \in DOMAIN (p \o q)
  PROVE  \/ i \in DOMAIN p /\ (p \o q)[i] = p[i]
         \/ /\ i > Len(p) /\ i - Len(p) \in DOMAIN q
            /\ (p \o q)[i] = q[i - Len(p)]
  OBVIOUS

(* Two increasing sequences, the first before the second, make one.        *)
LEMMA ConcatIncreasing ==
  ASSUME NEW p \in Seq(Packet), NEW q \in Seq(Packet),
         Increasing(p), Increasing(q), Precedes(p, q)
  PROVE  Increasing(p \o q)
  <1> SUFFICES ASSUME NEW i \in DOMAIN (p \o q), NEW j \in DOMAIN (p \o q), i < j
               PROVE  Rank((p \o q)[i]) < Rank((p \o q)[j])
    BY DEF Increasing
  <1>1. i \in Nat /\ j \in Nat /\ Len(p) \in Nat /\ DOMAIN p = 1 .. Len(p)
    OBVIOUS
  <1>2. CASE j \in DOMAIN p /\ (p \o q)[j] = p[j]
    <2>1. i \in DOMAIN p /\ (p \o q)[i] = p[i]
      BY <1>1, <1>2, ConcatElements
    <2> QED BY <1>2, <2>1 DEF Increasing
  <1>3. CASE /\ j > Len(p) /\ j - Len(p) \in DOMAIN q
             /\ (p \o q)[j] = q[j - Len(p)]
    <2>1. CASE i \in DOMAIN p /\ (p \o q)[i] = p[i]
      BY <1>3, <2>1 DEF Precedes
    <2>2. CASE /\ i > Len(p) /\ i - Len(p) \in DOMAIN q
               /\ (p \o q)[i] = q[i - Len(p)]
      <3>1. i - Len(p) < j - Len(p)
        BY <1>1
      <3> QED BY <1>3, <2>2, <3>1 DEF Increasing
    <2> QED BY <2>1, <2>2, ConcatElements
  <1> QED BY <1>2, <1>3, ConcatElements

(* What comes before both parts comes before the whole.                    *)
LEMMA ConcatFollows ==
  ASSUME NEW r \in Seq(Packet), NEW p \in Seq(Packet), NEW q \in Seq(Packet),
         Precedes(r, p), Precedes(r, q)
  PROVE  Precedes(r, p \o q)
  BY ConcatElements DEF Precedes

(* A tail keeps the elements and their order.                              *)
LEMMA TailElements ==
  ASSUME NEW q \in Seq(Packet), q # <<>>
  PROVE  /\ Tail(q) \in Seq(Packet)
         /\ Head(q) \in Packet
         /\ 1 \in DOMAIN q /\ Head(q) = q[1]
         /\ \A i \in DOMAIN Tail(q) : i \in Nat /\ 1 < i + 1 /\ i + 1 \in DOMAIN q
                                      /\ Tail(q)[i] = q[i + 1]
  OBVIOUS

(* The elements of an extended sequence.                                   *)
LEMMA AppendElements ==
  ASSUME NEW q \in Seq(Packet), NEW e \in Packet, NEW i \in DOMAIN Append(q, e)
  PROVE  \/ i \in DOMAIN q /\ Append(q, e)[i] = q[i]
         \/ i = Len(q) + 1 /\ Append(q, e)[i] = e
  OBVIOUS

-----------------------------------------------------------------------------
(* What a tick queues.                                                     *)

(* An announced packet comes before one this tick may queue.               *)
LEMMA AnnouncedBeforeFresh ==
  ASSUME TypeOK, FlagsInOrder,
         NEW p \in Packet, NEW q \in Packet, Announced(p), Fresh(q)
  PROVE  Rank(p) < Rank(q)
  <1>1. /\ matchInitSent \in BOOLEAN /\ worldStaticStateInitSent \in BOOLEAN
        /\ matchStartSent \in BOOLEAN
    BY DEF TypeOK
  <1>2. /\ p.type \in {"MATCH_INIT", "WORLD_STATIC_STATE_INIT", "MATCH_START"}
        /\ q.type \in {"MATCH_INIT", "WORLD_STATIC_STATE_INIT", "MATCH_START"}
    BY DEF Packet
  <1>3. CASE q.type = "MATCH_INIT"
    <2>1. ~matchInitSent /\ ~worldStaticStateInitSent /\ ~matchStartSent
      BY <1>1, <1>3 DEF Fresh, FlagsInOrder
    <2> QED BY <1>2, <2>1 DEF Announced
  <1>4. CASE q.type = "WORLD_STATIC_STATE_INIT"
    <2>1. ~matchInitSent /\ ~worldStaticStateInitSent /\ ~matchStartSent
      BY <1>1, <1>4 DEF Fresh, FlagsInOrder
    <2> QED BY <1>2, <2>1 DEF Announced
  <1>5. CASE q.type = "MATCH_START"
    <2>1. ~matchStartSent
      BY <1>5 DEF Fresh, StartsCountdown
    <2>2. p.type # "MATCH_START"
      BY <2>1 DEF Announced
    <2> QED BY <1>2, <1>5, <2>2 DEF Rank
  <1> QED BY <1>2, <1>3, <1>4, <1>5

(* The packets of the tick are fresh and in order.                         *)
LEMMA NewPacketsFresh ==
  ASSUME TypeOK, FlagsInOrder
  PROVE  /\ NewPackets \in Seq(Packet)
         /\ Increasing(NewPackets)
         /\ \A i \in DOMAIN NewPackets : Fresh(NewPackets[i])
  <1> DEFINE I == [type |-> "MATCH_INIT", startTick |-> 0]
             W == [type |-> "WORLD_STATIC_STATE_INIT", startTick |-> 0]
             S == [type |-> "MATCH_START", startTick |-> NextTick + CountdownTicks]
  <1>1. NextTick \in Nat /\ NextTick + CountdownTicks \in Nat
    BY MatchAssumption DEF TypeOK, NextTick
  <1>2. I \in Packet /\ W \in Packet /\ S \in Packet
    BY <1>1 DEF Packet
  <1>3. Rank(I) = 1 /\ Rank(W) = 2 /\ Rank(S) = 3
    BY DEF Rank
  <1>4. /\ ~matchInitSent => Fresh(I)
        /\ ~worldStaticStateInitSent => Fresh(W)
        /\ StartsCountdown => Fresh(S)
    BY DEF Fresh
  <1>5. /\ InitPackets = IF matchInitSent THEN <<>> ELSE <<I>>
        /\ StaticPackets = IF worldStaticStateInitSent THEN <<>> ELSE <<W>>
        /\ StartPackets = IF StartsCountdown THEN <<S>> ELSE <<>>
    BY DEF InitPackets, StaticPackets, StartPackets
  <1> HIDE DEF I, W, S
  <1>6. /\ InitPackets \in Seq(Packet)
        /\ \A i \in DOMAIN InitPackets : i = 1 /\ InitPackets[i] = I /\ Fresh(I)
    BY <1>2, <1>4, <1>5
  <1>7. /\ StaticPackets \in Seq(Packet)
        /\ \A i \in DOMAIN StaticPackets : i = 1 /\ StaticPackets[i] = W /\ Fresh(W)
    BY <1>2, <1>4, <1>5
  <1>8. /\ StartPackets \in Seq(Packet)
        /\ \A i \in DOMAIN StartPackets : i = 1 /\ StartPackets[i] = S /\ Fresh(S)
    BY <1>2, <1>4, <1>5
  <1>9. Increasing(InitPackets) /\ Increasing(StaticPackets) /\ Increasing(StartPackets)
    BY <1>6, <1>7, <1>8 DEF Increasing
  <1> DEFINE IW == InitPackets \o StaticPackets
  <1>10. IW \in Seq(Packet)
    BY <1>6, <1>7
  <1>11. \A i \in DOMAIN IW : (IW[i] = I /\ Fresh(I)) \/ (IW[i] = W /\ Fresh(W))
    <2> TAKE i \in DOMAIN IW
    <2> HIDE DEF IW
    <2>1. CASE i \in DOMAIN InitPackets /\ IW[i] = InitPackets[i]
      BY <1>6, <2>1
    <2>2. CASE /\ i - Len(InitPackets) \in DOMAIN StaticPackets
               /\ IW[i] = StaticPackets[i - Len(InitPackets)]
      BY <1>7, <2>2
    <2> QED BY <1>6, <1>7, <2>1, <2>2, ConcatElements DEF IW
  <1>12. Precedes(InitPackets, StaticPackets)
    BY <1>3, <1>6, <1>7 DEF Precedes
  <1>13. Increasing(IW)
    BY <1>6, <1>7, <1>9, <1>12, ConcatIncreasing
  <1>14. NewPackets = IW \o StartPackets
    BY DEF NewPackets
  <1> HIDE DEF IW
  <1>15. Precedes(IW, StartPackets)
    BY <1>3, <1>8, <1>11 DEF Precedes
  <1>16. Increasing(NewPackets)
    BY <1>8, <1>9, <1>10, <1>13, <1>14, <1>15, ConcatIncreasing
  <1>17. NewPackets \in Seq(Packet)
    BY <1>8, <1>10, <1>14
  <1>18. \A i \in DOMAIN NewPackets : Fresh(NewPackets[i])
    <2> TAKE i \in DOMAIN NewPackets
    <2>1. CASE i \in DOMAIN IW /\ NewPackets[i] = IW[i]
      BY <1>11, <2>1
    <2>2. CASE /\ i - Len(IW) \in DOMAIN StartPackets
               /\ NewPackets[i] = StartPackets[i - Len(IW)]
      BY <1>8, <2>2
    <2> QED BY <1>8, <1>10, <1>14, <2>1, <2>2, ConcatElements
  <1> QED BY <1>16, <1>17, <1>18

-----------------------------------------------------------------------------
(* The steps.                                                              *)

(* The clients' own steps leave the flow alone.                            *)
LEMMA LifecycleTyped ==
  ASSUME LifecycleTypeOK, NEW c \in Clients, ClientStep(c)
  PROVE  LifecycleTypeOK'
  BY DEF LifecycleTypeOK, ClientStep, Join, SubmitToken, Decide, BecomeReady, Leave, Move, Stages

LEMMA UnchangedFlow ==
  ASSUME IInv, UNCHANGED <<currentTick, flow, outgoing, received>>, LifecycleTypeOK'
  PROVE  IInv'
  <1> USE DEF flow
  <1>1. TypeOK'
    BY DEF IInv, TypeOK
  <1>2. FlowInOrder'
    BY DEF IInv, FlowInOrder
  <1>3. QueueInOrder'
    BY DEF IInv, QueueInOrder
  <1>4. PacketsAnnounced'
    BY DEF IInv, PacketsAnnounced, Announced
  <1>5. FlagsInOrder'
    BY DEF IInv, FlagsInOrder
  <1> QED BY <1>1, <1>2, <1>3, <1>4, <1>5 DEF IInv

(* A tick without enough sessions only counts.                             *)
LEMMA TickWithoutMatchStep == ASSUME IInv, TickWithoutMatch PROVE IInv'
  <1> USE DEF flow
  <1>1. currentTick' \in Nat /\ currentTick' >= currentTick
    BY DEF IInv, TypeOK, TickWithoutMatch, NextTick
  <1>2. TypeOK'
    BY <1>1 DEF IInv, TypeOK, TickWithoutMatch, LifecycleTypeOK
  <1>3. FlowInOrder' /\ QueueInOrder'
    BY DEF IInv, FlowInOrder, QueueInOrder, TickWithoutMatch
  <1>4. PacketsAnnounced'
    BY DEF IInv, PacketsAnnounced, Announced, TickWithoutMatch
  <1>5. FlagsInOrder'
    BY <1>1 DEF IInv, TypeOK, FlagsInOrder, TickWithoutMatch
  <1> QED BY <1>2, <1>3, <1>4, <1>5 DEF IInv

(* A tick of the match queues fresh packets after announced ones.          *)
LEMMA TickWithMatchStep == ASSUME IInv, TickWithMatch PROVE IInv'
  <1> USE DEF flow
  <1> DEFINE New == NewPackets
  <1>1. TypeOK /\ FlagsInOrder /\ PacketsAnnounced /\ FlowInOrder /\ QueueInOrder
    BY DEF IInv
  <1>2. /\ New \in Seq(Packet)
        /\ Increasing(New)
        /\ \A i \in DOMAIN New : Fresh(New[i])
    BY <1>1, NewPacketsFresh
  <1>3. currentTick' = NextTick /\ NextTick \in Nat /\ NextTick >= currentTick
    BY <1>1 DEF TypeOK, TickWithMatch, NextTick
  <1>4. \A c \in Clients : /\ outgoing[c] \in Seq(Packet) /\ received[c] \in Seq(Packet)
                           /\ received'[c] = received[c]
                           /\ outgoing'[c] = outgoing[c] \/ outgoing'[c] = outgoing[c] \o New
    <2> TAKE c \in Clients
    <2>1. outgoing'[c] = IF c \in Sessions THEN outgoing[c] \o NewPackets ELSE outgoing[c]
      BY DEF TickWithMatch
    <2>2. outgoing[c] \in Seq(Packet) /\ received[c] \in Seq(Packet)
      BY <1>1 DEF TypeOK
    <2> QED BY <2>1, <2>2 DEF TickWithMatch
  <1>5. /\ matchInitSent' = TRUE /\ worldStaticStateInitSent' = TRUE
        /\ matchStartSent' = (matchStartSent \/ StartsCountdown)
        /\ matchStartTick' = IF StartsCountdown THEN NextTick + CountdownTicks ELSE matchStartTick
        /\ matchStarted' = (matchStarted \/ (matchStartSent' /\ NextTick >= matchStartTick'))
        /\ UNCHANGED <<stage, ready, received>>
    BY DEF TickWithMatch, CountdownOver
  <1>6. \A p \in Packet : Announced(p) => Announced(p)'
    BY <1>5 DEF Announced, StartsCountdown, Packet
  <1>7. \A p \in Packet : Fresh(p) => Announced(p)'
    BY <1>5 DEF Announced, Fresh, Packet
  <1>8. \A c \in Clients : Precedes(outgoing[c], New) /\ Precedes(received[c], New)
    <2> TAKE c \in Clients
    <2>1. \A j \in DOMAIN New : New[j] \in Packet /\ Fresh(New[j])
      BY <1>2
    <2>2. \A i \in DOMAIN outgoing[c] : outgoing[c][i] \in Packet /\ Announced(outgoing[c][i])
      BY <1>1, <1>4 DEF PacketsAnnounced
    <2>3. \A i \in DOMAIN received[c] : received[c][i] \in Packet /\ Announced(received[c][i])
      BY <1>1, <1>4 DEF PacketsAnnounced
    <2> QED BY <1>1, <2>1, <2>2, <2>3, AnnouncedBeforeFresh DEF Precedes
  <1> HIDE DEF New
  <1>9. TypeOK'
    <2>1. outgoing' \in [Clients -> Seq(Packet)]
      <3>1. ASSUME NEW c \in Clients PROVE outgoing'[c] \in Seq(Packet)
        <4>1. outgoing[c] \in Seq(Packet) /\ outgoing[c] \o New \in Seq(Packet)
          BY <1>2, <1>4
        <4> QED BY <1>4, <4>1
      <3>2. outgoing' = [c \in Clients |-> outgoing'[c]]
        BY DEF TickWithMatch
      <3> QED BY <3>1, <3>2
    <2>2. matchStartSent' \in BOOLEAN /\ matchStarted' \in BOOLEAN
      BY <1>1, <1>5 DEF TypeOK, StartsCountdown
    <2>3. matchStartTick' \in Nat
      BY <1>1, <1>3, <1>5, MatchAssumption DEF TypeOK
    <2> QED BY <1>1, <1>3, <1>5, <2>1, <2>2, <2>3 DEF TypeOK, LifecycleTypeOK
  <1>10. FlowInOrder'
    BY <1>1, <1>5 DEF FlowInOrder
  <1>11. QueueInOrder'
    <2> SUFFICES ASSUME NEW c \in Clients
                 PROVE  Increasing(outgoing'[c]) /\ Precedes(received[c], outgoing'[c])
      BY <1>5 DEF QueueInOrder, Increasing, Precedes
    <2>1. Increasing(outgoing[c]) /\ Precedes(received[c], outgoing[c])
      BY <1>1 DEF QueueInOrder, Increasing, Precedes
    <2>2. Increasing(outgoing[c] \o New)
      BY <1>2, <1>4, <1>8, <2>1, ConcatIncreasing
    <2>3. Precedes(received[c], outgoing[c] \o New)
      BY <1>2, <1>4, <1>8, <2>1, ConcatFollows
    <2> QED BY <1>4, <2>1, <2>2, <2>3
  <1>12. PacketsAnnounced'
    <2>1. \A c \in Clients : \A i \in DOMAIN received[c] : Announced(received[c][i])'
      BY <1>1, <1>4, <1>5, <1>6 DEF PacketsAnnounced
    <2>2. ASSUME NEW c \in Clients, NEW i \in DOMAIN outgoing'[c]
          PROVE  Announced(outgoing[c][i])'
      <3>1. CASE outgoing'[c] = outgoing[c]
        BY <1>1, <1>4, <1>6, <2>2, <3>1 DEF PacketsAnnounced
      <3>2. CASE outgoing'[c] = outgoing[c] \o New
        <4>1. CASE i \in DOMAIN outgoing[c] /\ outgoing'[c][i] = outgoing[c][i]
          BY <1>1, <1>4, <1>6, <4>1 DEF PacketsAnnounced
        <4>2. CASE /\ i - Len(outgoing[c]) \in DOMAIN New
                   /\ outgoing'[c][i] = New[i - Len(outgoing[c])]
          BY <1>2, <1>7, <4>2
        <4> QED BY <1>2, <1>4, <2>2, <3>2, <4>1, <4>2, ConcatElements
      <3> QED BY <1>4, <3>1, <3>2
    <2> QED BY <1>5, <2>1, <2>2 DEF PacketsAnnounced
  <1>13. FlagsInOrder'
    BY <1>1, <1>3, <1>5 DEF TypeOK, FlagsInOrder, StartsCountdown
  <1> QED BY <1>9, <1>10, <1>11, <1>12, <1>13 DEF IInv

(* Sending moves the first packet of a queue, or drops it.                 *)
LEMMA SendStep == ASSUME IInv, NEW c \in Clients, Send(c) PROVE IInv'
  <1> USE DEF flow
  <1> DEFINE q == outgoing[c]  r == received[c]
  <1>1. TypeOK /\ FlagsInOrder /\ PacketsAnnounced /\ FlowInOrder /\ QueueInOrder
    BY DEF IInv
  <1>2. /\ q \in Seq(Packet) /\ q # <<>> /\ r \in Seq(Packet)
        /\ outgoing' = [outgoing EXCEPT ![c] = Tail(q)]
        /\ received' = received \/ received' = [received EXCEPT ![c] = Append(r, Head(q))]
        /\ UNCHANGED <<stage, ready, currentTick, flow>>
    BY <1>1 DEF Send, TypeOK
  <1>3. /\ outgoing'[c] = Tail(q)
        /\ received'[c] = r \/ received'[c] = Append(r, Head(q))
        /\ \A d \in Clients \ {c} : outgoing'[d] = outgoing[d] /\ received'[d] = received[d]
    BY <1>1, <1>2 DEF TypeOK
  <1>4. /\ Tail(q) \in Seq(Packet)
        /\ Head(q) \in Packet
        /\ 1 \in DOMAIN q /\ Head(q) = q[1]
        /\ \A i \in DOMAIN Tail(q) : i \in Nat /\ 1 < i + 1 /\ i + 1 \in DOMAIN q
                                     /\ Tail(q)[i] = q[i + 1]
    BY <1>2, TailElements
  <1>5. Increasing(q) /\ Increasing(r) /\ Precedes(r, q)
    BY <1>1 DEF QueueInOrder, FlowInOrder, Increasing, Precedes
  <1>6. Increasing(Tail(q)) /\ Precedes(r, Tail(q))
    BY <1>4, <1>5 DEF Increasing, Precedes
  <1> HIDE DEF q, r
  <1>7. Increasing(Append(r, Head(q)))
    <2> SUFFICES ASSUME NEW i \in DOMAIN Append(r, Head(q)),
                        NEW j \in DOMAIN Append(r, Head(q)), i < j
                 PROVE  Rank(Append(r, Head(q))[i]) < Rank(Append(r, Head(q))[j])
      BY DEF Increasing
    <2>1. i \in DOMAIN r /\ Append(r, Head(q))[i] = r[i]
      BY <1>2, <1>4, AppendElements
    <2>2. CASE j \in DOMAIN r /\ Append(r, Head(q))[j] = r[j]
      BY <1>5, <2>1, <2>2 DEF Increasing
    <2>3. CASE Append(r, Head(q))[j] = Head(q)
      BY <1>4, <1>5, <2>1, <2>3 DEF Precedes
    <2> QED BY <1>2, <1>4, <2>2, <2>3, AppendElements
  <1>8. Precedes(Append(r, Head(q)), Tail(q))
    <2> SUFFICES ASSUME NEW i \in DOMAIN Append(r, Head(q)), NEW j \in DOMAIN Tail(q)
                 PROVE  Rank(Append(r, Head(q))[i]) < Rank(Tail(q)[j])
      BY DEF Precedes
    <2>1. CASE i \in DOMAIN r /\ Append(r, Head(q))[i] = r[i]
      BY <1>6, <2>1 DEF Precedes
    <2>2. CASE Append(r, Head(q))[i] = Head(q)
      BY <1>4, <1>5, <2>2 DEF Increasing
    <2> QED BY <1>2, <1>4, <2>1, <2>2, AppendElements
  <1>9. TypeOK'
    <2>1. Append(r, Head(q)) \in Seq(Packet)
      BY <1>2, <1>4
    <2> QED BY <1>1, <1>2, <1>4, <2>1 DEF TypeOK, LifecycleTypeOK
  <1>10. FlowInOrder'
    <2> SUFFICES ASSUME NEW d \in Clients PROVE Increasing(received'[d])
      BY DEF FlowInOrder, Increasing
    <2>1. Increasing(received[d])
      BY <1>1 DEF FlowInOrder, Increasing
    <2> QED BY <1>3, <1>5, <1>7, <2>1
  <1>11. QueueInOrder'
    <2> SUFFICES ASSUME NEW d \in Clients
                 PROVE  Increasing(outgoing'[d]) /\ Precedes(received'[d], outgoing'[d])
      BY DEF QueueInOrder, Increasing, Precedes
    <2>1. Increasing(outgoing[d]) /\ Precedes(received[d], outgoing[d])
      BY <1>1 DEF QueueInOrder, Increasing, Precedes
    <2> QED BY <1>3, <1>6, <1>8, <2>1
  <1>12. PacketsAnnounced'
    <2>1. \A p : Announced(p) => Announced(p)'
      BY <1>2 DEF Announced
    <2>2. \A d \in Clients : /\ \A i \in DOMAIN received[d] : Announced(received[d][i])
                             /\ \A i \in DOMAIN outgoing[d] : Announced(outgoing[d][i])
      BY <1>1 DEF PacketsAnnounced
    <2>3. ASSUME NEW d \in Clients, NEW i \in DOMAIN received'[d]
          PROVE  Announced(received[d][i])'
      <3>1. PICK p : p = received'[d][i]
        OBVIOUS
      <3>2. Announced(p)
        <4>1. CASE received'[d] = received[d]
          BY <2>2, <2>3, <3>1, <4>1
        <4>2. CASE d = c /\ received'[d] = Append(r, Head(q))
          <5>1. CASE i \in DOMAIN r /\ Append(r, Head(q))[i] = r[i]
            BY <2>2, <3>1, <4>2, <5>1 DEF r
          <5>2. CASE Append(r, Head(q))[i] = Head(q)
            BY <1>4, <2>2, <3>1, <4>2, <5>2 DEF q
          <5> QED BY <1>2, <1>4, <2>3, <4>2, <5>1, <5>2, AppendElements
        <4> QED BY <1>3, <4>1, <4>2 DEF r
      <3> QED BY <2>1, <3>1, <3>2
    <2>4. ASSUME NEW d \in Clients, NEW i \in DOMAIN outgoing'[d]
          PROVE  Announced(outgoing[d][i])'
      <3>1. PICK p : p = outgoing'[d][i]
        OBVIOUS
      <3>2. Announced(p)
        <4>1. CASE d # c
          BY <1>3, <2>2, <2>4, <3>1, <4>1
        <4>2. CASE d = c
          <5>1. i \in DOMAIN Tail(q) /\ p = Tail(q)[i]
            BY <1>3, <2>4, <3>1, <4>2
          <5> QED BY <1>4, <2>2, <4>2, <5>1 DEF q
        <4> QED BY <4>1, <4>2
      <3> QED BY <2>1, <3>1, <3>2
    <2> QED BY <2>3, <2>4 DEF PacketsAnnounced
  <1>13. FlagsInOrder'
    BY <1>1, <1>2 DEF FlagsInOrder
  <1> QED BY <1>9, <1>10, <1>11, <1>12, <1>13 DEF IInv

-----------------------------------------------------------------------------

(* The initial state and every step keep the invariant.                    *)
LEMMA InitIInv == Init => IInv
  <1> SUFFICES ASSUME Init PROVE IInv
    OBVIOUS
  <1>1. TypeOK
    <2>1. LifecycleTypeOK
      BY DEF Init, LifecycleInit, LifecycleTypeOK, Stages
    <2>2. <<>> \in Seq(Packet)
      OBVIOUS
    <2>3. outgoing \in [Clients -> Seq(Packet)] /\ received \in [Clients -> Seq(Packet)]
      BY <2>2 DEF Init
    <2> QED BY <2>1, <2>3 DEF Init, TypeOK
  <1>2. FlowInOrder /\ QueueInOrder /\ PacketsAnnounced
    BY DEF Init, FlowInOrder, QueueInOrder, PacketsAnnounced
  <1>3. FlagsInOrder
    BY DEF Init, FlagsInOrder
  <1> QED BY <1>1, <1>2, <1>3 DEF IInv

LEMMA StepIInv == IInv /\ [Next]_vars => IInv'
  <1> SUFFICES ASSUME IInv, [Next]_vars PROVE IInv'
    OBVIOUS
  <1>1. ASSUME NEW c \in Clients, ClientActs(c) PROVE IInv'
    <2>1. LifecycleTypeOK'
      BY <1>1, LifecycleTyped DEF ClientActs, IInv, TypeOK
    <2> QED BY <1>1, <2>1, UnchangedFlow DEF ClientActs
  <1>2. CASE TickWithoutMatch
    BY <1>2, TickWithoutMatchStep
  <1>3. CASE TickWithMatch
    BY <1>3, TickWithMatchStep
  <1>4. ASSUME NEW c \in Clients, Send(c) PROVE IInv'
    BY <1>4, SendStep
  <1>5. CASE UNCHANGED vars
    <2>1. LifecycleTypeOK'
      BY <1>5 DEF vars, IInv, TypeOK, LifecycleTypeOK
    <2> QED BY <1>5, <2>1, UnchangedFlow DEF vars
  <1> QED BY <1>1, <1>2, <1>3, <1>4, <1>5 DEF Next, Tick

(* The inductive invariant of the match flow.                              *)
THEOREM MatchInvariant == Spec => []IInv
  BY InitIInv, StepIInv, PTL DEF Spec

(* Every client gets the packets of the flow at most once and in order     *)
(* (CheckMatchFlow and the outgoing queue).                                *)
THEOREM FlowStaysInOrder == Spec => []FlowInOrder
  <1>1. IInv => FlowInOrder
    BY DEF IInv
  <1> QED BY <1>1, MatchInvariant, PTL

(* There is one countdown and the match does not start before its end.     *)
THEOREM AnnouncedTickStays == Spec => []AnnouncedTickHolds
  <1>1. IInv => AnnouncedTickHolds
    BY DEF IInv, AnnouncedTickHolds, PacketsAnnounced, Announced, FlagsInOrder
  <1> QED BY <1>1, MatchInvariant, PTL
=============================================================================
