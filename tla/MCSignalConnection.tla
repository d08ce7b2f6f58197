------------------------- MODULE MCSignalConnection -------------------------
(* Three sockets: the current one, one let go by disconnect() whose 'close' *)
(* event is still to come, and the next one to dial.                       *)
EXTENDS SignalConnection, TLC

CONSTANTS k1, k2, k3

MCSockets == {k1, k2, k3}
Symmetry  == Permutations(MCSockets)
=============================================================================
