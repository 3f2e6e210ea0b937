--------------------------- MODULE MCWakeableQueue ----------------------------
(* Instances of WakeableQueue for TLC: messages are model values.          *)
EXTENDS WakeableQueue

CONSTANTS m1, m2

TwoMessages == {m1, m2}
=============================================================================
