------------------------------- MODULE Mailbox --------------------------------
(***************************************************************************)
(* What a wakeable queue of the server promises to the two threads it      *)
(* joins: messages are handled once each, in the order they were put in,   *)
(* and none waits for ever while the server is open.                       *)
(***************************************************************************)
EXTENDS Sequences

CONSTANT Messages

VARIABLES box, open

vars == <<box, open>>

Init == box = <<>> /\ open = TRUE

Put(m) ==
  /\ box' = Append(box, m)
  /\ UNCHANGED open

Handle ==
  /\ box # <<>>
  /\ box' = Tail(box)
  /\ UNCHANGED open

Close ==
  /\ open
  /\ open' = FALSE
  /\ UNCHANGED box

Next == Handle \/ Close \/ \E m \in Messages : Put(m)

Spec == Init /\ [][Next]_vars

(* Once closed, what is left in the box may stay there.                    *)
FairSpec == Spec /\ WF_vars(open /\ Handle)
=============================================================================
