------------------------- MODULE MCEntrySettlement -------------------------
(* A small instance of EntrySettlement for TLC: one signal of which writes *)
(* and calls may fail, and one that competes with it for the lock.         *)
EXTENDS EntrySettlement

CONSTANTS s1, s2

MCSignals == {s1, s2}
=============================================================================
