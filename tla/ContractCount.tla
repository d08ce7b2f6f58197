---------------------------- MODULE ContractCount ----------------------------
(***************************************************************************)
(* Sums of contracts, counted contract by contract: every lineage or rung  *)
(* contributes as many units as its entry says. What the code adds up in a *)
(* loop is a cardinality here, so that a step that changes one entry is    *)
(* reasoned about without an induction over the loop.                      *)
(***************************************************************************)
EXTENDS Integers, FiniteSets

\* One unit for each contract that f counts up.
Units(f) == UNION {{s} \X (1..f[s]) : s \in DOMAIN f}

\* What f counts up less what it counts down.
Sum(f) == Cardinality(Units(f)) - Cardinality(Units([s \in DOMAIN f |-> -f[s]]))
=============================================================================
