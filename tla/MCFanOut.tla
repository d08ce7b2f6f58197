------------------------------ MODULE MCFanOut ------------------------------
(* One bot on two subscriptions. *)
EXTENDS FanOut

MCSubs2 == 1..2
=============================================================================
