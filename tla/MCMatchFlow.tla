----------------------------- MODULE MCMatchFlow -----------------------------
(* Instances of MatchFlow for TLC: the clients are model values.           *)
EXTENDS MatchFlow

CONSTANTS c1, c2, c3

TwoClients == {c1, c2}
ThreeClients == {c1, c2, c3}
=============================================================================
