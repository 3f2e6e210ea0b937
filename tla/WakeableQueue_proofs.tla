------------------------ MODULE WakeableQueue_proofs --------------------------
(***************************************************************************)
(* No wake-up of a service thread is lost, and the queue with its service  *)
(* thread implements the mailbox, for every set of messages, with or       *)
(* without subscriptions and for every bound on the pushes.                *)
(***************************************************************************)
EXTENDS WakeableQueue, TLAPS

IInv == TypeOK /\ NoLostWakeup

LEMMA InitIInv == Init => IInv
<1> SUFFICES ASSUME Init PROVE IInv
  OBVIOUS
<1>1. subscribed \in BOOLEAN
  BY Zenon DEF Init
<1>2. /\ q = <<>> /\ stopped = FALSE /\ notifying = {} /\ thread = "pass"
      /\ batch = <<>> /\ running = TRUE /\ pushes = 0
  BY DEF Init
<1>3. q \in Seq(Messages) /\ batch \in Seq(Messages) /\ pushes \in Nat
  BY <1>2
<1> QED BY <1>1, <1>2, <1>3, Zenon DEF IInv, TypeOK, NoLostWakeup

LEMMA NextIInv == IInv /\ [Next]_vars => IInv'
<1> SUFFICES ASSUME IInv, [Next]_vars PROVE IInv'
  OBVIOUS
<1> USE QueueAssumption DEF IInv, TypeOK, NoLostWakeup
<1>1. ASSUME NEW m \in Messages, Push(m) PROVE IInv'
  BY <1>1 DEF Push
<1>2. ASSUME NEW n \in {"one", "all"}, Notify(n) PROVE IInv'
  BY <1>2 DEF Notify
<1>3. CASE Stop
  BY <1>3 DEF Stop
<1>4. CASE Quit
  BY <1>4 DEF Quit
<1>5. CASE Subscribe
  BY <1>5 DEF Subscribe
<1>6. CASE WaitAndDrain
  <2>1. CASE ~WaitIsOver
    BY <1>6, <2>1 DEF WaitAndDrain, WaitIsOver
  <2>2. CASE WaitIsOver /\ ReturnsFalse
    BY <1>6, <2>2 DEF WaitAndDrain, ReturnsFalse
  <2>3. CASE WaitIsOver /\ ~ReturnsFalse
    BY <1>6, <2>3 DEF WaitAndDrain, WaitIsOver, ReturnsFalse, Drain
  <2> QED BY <2>1, <2>2, <2>3
<1>7. CASE HandleMessage
  <2>1. Tail(batch) \in Seq(Messages)
    BY <1>7 DEF HandleMessage
  <2> QED BY <1>7, <2>1 DEF HandleMessage
<1>8. CASE EndThread
  BY <1>8 DEF EndThread
<1>9. CASE WakeSpuriously
  BY <1>9 DEF WakeSpuriously
<1>10. CASE UNCHANGED vars
  BY <1>10 DEF vars
<1>11. CASE BeginPass
  BY <1>11 DEF BeginPass
<1> QED BY <1>1, <1>2, <1>3, <1>4, <1>5, <1>6, <1>7, <1>8, <1>9, <1>10, <1>11
        DEF Next, ServiceThread

LEMMA IInvHolds == Spec => []IInv
  BY InitIInv, NextIInv, PTL DEF Spec

(* The state of the pass of a service thread is well formed.               *)
THEOREM TypeCorrect == Spec => []TypeOK
  BY IInvHolds, PTL DEF IInv

(* The service thread never sleeps with work to do and no notification     *)
(* due: waitAndDrain, push and stop together (simulation_to_http.h,        *)
(* simulation_to_nats.h).                                                  *)
THEOREM WakeupsAreKept == Spec => []NoLostWakeup
  BY IInvHolds, PTL DEF IInv

-----------------------------------------------------------------------------
(* The refinement: what is drained or handled is what the mailbox holds.   *)

LEMMA MailboxInit == Init => M!Init
<1> SUFFICES ASSUME Init PROVE M!Init
  OBVIOUS
<1>1. batch = <<>> /\ q = <<>> /\ running = TRUE
  BY DEF Init
<1>2. batch \o q = <<>>
  BY <1>1
<1> QED BY <1>1, <1>2 DEF M!Init

(* Putting at the end of the queue is putting at the end of the box, and   *)
(* handling the first of the batch is handling the first of the box.       *)
LEMMA BoxAppend ==
  ASSUME NEW S, NEW s \in Seq(S), NEW t \in Seq(S), NEW m \in S
  PROVE  s \o Append(t, m) = Append(s \o t, m)
  OBVIOUS

LEMMA BoxTail ==
  ASSUME NEW S, NEW s \in Seq(S), NEW t \in Seq(S), s # <<>>
  PROVE  s \o t # <<>> /\ Tail(s \o t) = Tail(s) \o t
  OBVIOUS

LEMMA MailboxStep == IInv /\ [Next]_vars => [M!Next]_(M!vars)
<1> SUFFICES ASSUME IInv, [Next]_vars PROVE [M!Next]_(M!vars)
  OBVIOUS
<1> USE DEF IInv
<1>1. ASSUME NEW m \in Messages, Push(m) PROVE M!Next
  <2>1. batch' \o q' = Append(batch \o q, m) /\ running' = running
    BY <1>1, BoxAppend DEF Push, TypeOK
  <2> QED BY <2>1 DEF M!Next, M!Put
<1>2. CASE Quit
  <2>1. batch' \o q' = batch \o q /\ running /\ running' = FALSE
    BY <1>2 DEF Quit
  <2> QED BY <2>1 DEF M!Next, M!Close
<1>3. CASE HandleMessage
  <2>1. batch # <<>> /\ batch' = Tail(batch) /\ q' = q /\ running' = running
    BY <1>3 DEF HandleMessage, TypeOK
  <2>2. batch \o q # <<>> /\ batch' \o q' = Tail(batch \o q)
    BY <2>1, BoxTail DEF TypeOK
  <2> QED BY <2>1, <2>2 DEF M!Next, M!Handle
<1>4. CASE WaitAndDrain
  <2>1. running' = running /\ thread # "handling"
    BY <1>4 DEF WaitAndDrain
  <2>2. batch = <<>>
    BY <2>1 DEF TypeOK
  <2>3. \/ batch' = batch /\ q' = q
        \/ batch' = q /\ q' = <<>>
    BY <1>4 DEF WaitAndDrain, Drain
  <2>4. batch' \o q' = batch \o q
    BY <2>2, <2>3 DEF TypeOK
  <2> QED BY <2>1, <2>4 DEF M!vars
<1>5. ASSUME batch' = batch, q' = q, running' = running PROVE UNCHANGED M!vars
  BY <1>5 DEF M!vars
<1>6. ASSUME NEW n \in {"one", "all"}, Notify(n) PROVE UNCHANGED M!vars
  BY <1>5, <1>6 DEF Notify
<1>7. CASE Stop
  BY <1>5, <1>7 DEF Stop
<1>8. CASE Subscribe
  BY <1>5, <1>8 DEF Subscribe
<1>9. CASE EndThread
  BY <1>5, <1>9 DEF EndThread
<1>10. CASE WakeSpuriously
  BY <1>5, <1>10 DEF WakeSpuriously
<1>11. CASE UNCHANGED vars
  BY <1>5, <1>11 DEF vars
<1>12. CASE BeginPass
  BY <1>5, <1>12 DEF BeginPass
<1> QED BY <1>1, <1>2, <1>3, <1>4, <1>6, <1>7, <1>8, <1>9, <1>10, <1>11, <1>12
        DEF Next, ServiceThread

(* The queues Simulation -> HTTP and Simulation -> NATS lose, duplicate    *)
(* and reorder nothing between push and the handler of the message.        *)
THEOREM QueueIsMailbox == Spec => MailboxImplemented
  BY MailboxInit, MailboxStep, IInvHolds, PTL DEF MailboxImplemented, M!Spec, Spec
=============================================================================
