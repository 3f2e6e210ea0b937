----------------------------- MODULE MCGameServer ----------------------------
(* Instances of GameServer for TLC: model values for the slots and keys.   *)
EXTENDS GameServer, TLC

CONSTANTS p1, p2, k1, weak

OneSlot == {p1}
TwoSlots == {p1, p2}
StrongKey == {k1}
AllKeys == {k1, weak}
Weak == {weak}
None == {}
=============================================================================
