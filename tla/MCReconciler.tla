---------------------------- MODULE MCReconciler ----------------------------
(* Two lineages of two and one contracts, on one side or netting each other. *)
EXTENDS Reconciler

MCLineages  == {1, 2}
MCSize      == <<2, 1>>
MCDirs      == {<<1, 1>>, <<1, -1>>}
MCUserSizes == {0, 1}

Unspoilt == ways = {}
=============================================================================
