----------------------------- MODULE MCExitStop -----------------------------
(* Two updates of one position, three order ids, every venue setting. *)
EXTENDS ExitStop, TLC

MCSeqs    == {1, 2}
MCLevel   == <<1, 2>>
MCOrderSymmetry == Permutations(Orders)
MCConfigs == [noReduceOnly : BOOLEAN, opposed : BOOLEAN]
=============================================================================
