--------------------------- MODULE MCSnapshotFlow ----------------------------
(* Instances of SnapshotFlow for TLC: the clients are model values.        *)
EXTENDS SnapshotFlow

CONSTANTS c1, c2

OneClient == {c1}
TwoClients == {c1, c2}
=============================================================================
