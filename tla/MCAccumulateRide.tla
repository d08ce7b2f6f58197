-------------------------- MODULE MCAccumulateRide --------------------------
(* A plan over a position, one beside another ride, with contracts of the  *)
(* user's beside both, and one that waits.                                 *)
EXTENDS AccumulateRide

MCSeqs   == 1..2
MCLadder == 1..1
MCSize   == <<2>>
MCStarts == {[phase |-> "ladder",  base |-> 1, parent |-> 0],
             [phase |-> "armed",   base |-> 1, parent |-> 1],
             [phase |-> "waiting", base |-> 0, parent |-> 0]}
=============================================================================
