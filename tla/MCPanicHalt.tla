---------------------------- MODULE MCPanicHalt ----------------------------
(* Two accounts: `held` is open on the first and `kept` on the second;     *)
(* `sig`, a signal, and `man`, a manual order, come in for the first one.  *)
EXTENDS PanicHalt, TLC

CONSTANTS acct, other, held, kept, sig, man, p1

MCAccountOf == [e \in Entries |-> IF e = kept THEN other ELSE acct]
=============================================================================
