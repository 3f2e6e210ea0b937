----------------------------- MODULE WakeableQueue ----------------------------
(***************************************************************************)
(* The queues Simulation -> HTTP and Simulation -> NATS: a deque and a     *)
(* flag `stopped' under a mutex, with a condition variable on which the    *)
(* service thread waits                                                    *)
(* (src/include/core/threading/queues/simulation_to_http.h and             *)
(* simulation_to_nats.h), and the pass the engine makes that thread run    *)
(* again and again (src/src/services/http/entrypoint.cpp and               *)
(* src/src/services/nats/entrypoint.cpp).                                  *)
(*                                                                         *)
(* A section under the mutex is one step; the notification comes after the *)
(* mutex is released and is a step of its own.  Waiting on the condition   *)
(* variable releases the mutex and falls asleep in one step, and may end   *)
(* without a notification.                                                 *)
(***************************************************************************)
EXTENDS Naturals, Sequences

CONSTANTS
  Messages,
  MustSubscribe, \* does a pass subscribe first (NATS), or not (HTTP)?
  MaxPushes      \* bound on the messages pushed

ASSUME QueueAssumption == MustSubscribe \in BOOLEAN /\ MaxPushes \in Nat

VARIABLES
  q, stopped,  \* the queue
  notifying,   \* notifications due: "one" of a push, "all" of a stop
  thread,      \* where the service thread is
  batch,       \* what it drained and has not handled yet
  subscribed,  \* subscriptionsInitialized
  running,     \* the engine runs
  pushes

vars == <<q, stopped, notifying, thread, batch, subscribed, running, pushes>>

Init ==
  /\ q = <<>> /\ stopped = FALSE
  /\ notifying = {}
  /\ thread = "pass" /\ batch = <<>>
  /\ subscribed = ~MustSubscribe
  /\ running = TRUE
  /\ pushes = 0

-----------------------------------------------------------------------------
(* The simulation thread: push, then notify_one.                           *)

(* Mutant of Push: notify_one is called when the queue was not empty.      *)
PushNotifyingLate(m) ==
  /\ "one" \notin notifying
  /\ pushes < MaxPushes
  /\ pushes' = pushes + 1
  /\ q' = Append(q, m)
  /\ notifying' = IF q # <<>> THEN notifying \cup {"one"} ELSE notifying
  /\ UNCHANGED <<stopped, thread, batch, subscribed, running>>

Push(m) ==
  /\ "one" \notin notifying
  /\ pushes < MaxPushes
  /\ pushes' = pushes + 1
  /\ q' = Append(q, m)
  /\ notifying' = notifying \cup {"one"}
  /\ UNCHANGED <<stopped, thread, batch, subscribed, running>>

(* Only the service thread waits on the condition variable, so notify_one  *)
(* and notify_all do the same.                                             *)
Notify(n) ==
  /\ n \in notifying
  /\ notifying' = notifying \ {n}
  /\ thread' = IF thread = "asleep" THEN "woken" ELSE thread
  /\ UNCHANGED <<q, stopped, batch, subscribed, running, pushes>>

(* Mutant of Stop: it notifies nobody.                                     *)
StopSilently ==
  /\ ~stopped
  /\ stopped' = TRUE
  /\ UNCHANGED <<q, notifying, thread, batch, subscribed, running, pushes>>

(* The thread that ends the engine wakes the service threads.              *)
Stop ==
  /\ ~stopped
  /\ stopped' = TRUE
  /\ notifying' = notifying \cup {"all"}
  /\ UNCHANGED <<q, thread, batch, subscribed, running, pushes>>

-----------------------------------------------------------------------------
(* The service thread.                                                     *)

(* The engine runs another pass, which goes straight to the wait once it   *)
(* has subscribed.                                                         *)
BeginPass ==
  /\ running /\ thread = "pass" /\ subscribed
  /\ thread' = "entering"
  /\ UNCHANGED <<q, stopped, notifying, batch, subscribed, running, pushes>>

(* A try that fails ends the pass, changes nothing, and is made again by   *)
(* the next one.                                                           *)
Subscribe ==
  /\ running /\ thread = "pass" /\ ~subscribed
  /\ subscribed' = TRUE
  /\ thread' = "entering"
  /\ UNCHANGED <<q, stopped, notifying, batch, running, pushes>>

(* Mutant of WaitIsOver: after a wake-up it is not looked at again.        *)
WaitIsOverOnce == stopped \/ q # <<>> \/ thread = "woken"

(* The thread sleeps unless, and until, the predicate of the wait holds.   *)
WaitIsOver == stopped \/ q # <<>>

(* Mutant of ReturnsFalse: what was pushed before the stop is left there.  *)
ReturnsFalseWhenStopped == stopped

ReturnsFalse == stopped /\ q = <<>>

(* Mutant of Drain: a copy in the place of the swap.                       *)
DrainCopy == batch' = q /\ UNCHANGED q

Drain == batch' = q /\ q' = <<>>

WaitAndDrain ==
  /\ thread \in {"entering", "woken"}
  /\ \/ /\ ~WaitIsOver
        /\ thread' = "asleep"
        /\ UNCHANGED <<q, batch>>
     \/ /\ WaitIsOver /\ ReturnsFalse
        /\ thread' = "pass"
        /\ UNCHANGED <<q, batch>>
     \/ /\ WaitIsOver /\ ~ReturnsFalse
        /\ Drain
        /\ thread' = "handling"
  /\ UNCHANGED <<stopped, notifying, subscribed, running, pushes>>

WakeSpuriously ==
  /\ thread = "asleep"
  /\ thread' = "woken"
  /\ UNCHANGED <<q, stopped, notifying, batch, subscribed, running, pushes>>

(* The messages of the batch are handled one by one, without the mutex.    *)
HandleMessage ==
  /\ thread = "handling"
  /\ batch' = Tail(batch)
  /\ thread' = IF batch' = <<>> THEN "pass" ELSE "handling"
  /\ UNCHANGED <<q, stopped, notifying, subscribed, running, pushes>>

-----------------------------------------------------------------------------
(* The engine.                                                             *)

Quit ==
  /\ running
  /\ running' = FALSE
  /\ UNCHANGED <<q, stopped, notifying, thread, batch, subscribed, pushes>>

(* The engine calls no further pass.                                       *)
EndThread ==
  /\ ~running /\ thread = "pass"
  /\ thread' = "ended"
  /\ UNCHANGED <<q, stopped, notifying, batch, subscribed, running, pushes>>

ServiceThread == BeginPass \/ Subscribe \/ WaitAndDrain \/ HandleMessage \/ EndThread

Next ==
  \/ \E m \in Messages : Push(m)
  \/ \E n \in {"one", "all"} : Notify(n)
  \/ Stop \/ Quit
  \/ ServiceThread \/ WakeSpuriously

Spec == Init /\ [][Next]_vars

(* The threads go on, the engine that quits wakes the service threads, and *)
(* a subscription that is tried again and again is granted in the end.     *)
FairSpec ==
  /\ Spec
  /\ WF_vars(ServiceThread)
  /\ \A n \in {"one", "all"} : WF_vars(Notify(n))
  /\ WF_vars(~running /\ Stop)

-----------------------------------------------------------------------------

(* The variables keep their types; the thread handles a batch exactly when *)
(* there is one, and its pass ends only with the engine.                   *)
TypeOK ==
  /\ q \in Seq(Messages) /\ batch \in Seq(Messages)
  /\ stopped \in BOOLEAN /\ running \in BOOLEAN /\ subscribed \in BOOLEAN
  /\ notifying \subseteq {"one", "all"}
  /\ pushes \in Nat
  /\ thread \in {"pass", "entering", "asleep", "woken", "handling", "ended"}
  /\ thread = "handling" <=> batch # <<>>
  /\ thread = "ended" => ~running

(* No wake-up is lost: when the service thread sleeps though there is work *)
(* or the queue was stopped, a notification is due.                        *)
NoLostWakeup ==
  thread = "asleep" /\ (q # <<>> \/ stopped) => notifying # {}

(* The queue, with what the thread drained, is a mailbox: every message is *)
(* handled once and in order, stop() included.                             *)
M == INSTANCE Mailbox WITH box <- batch \o q, open <- running

MailboxImplemented == M!Spec

(* ... and no message waits for ever while the engine runs.                *)
MailboxServed == M!FairSpec

(* The engine can end: rcnet_wake_blocking_threads gets the service thread *)
(* out of its wait.                                                        *)
ShutdownEnds == ~running ~> thread = "ended"
=============================================================================
