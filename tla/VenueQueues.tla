---------------------------- MODULE VenueQueues ----------------------------
(***************************************************************************)
(* What services/order-lock.ts promises: one first-come first-served queue *)
(* per exchange, whose head alone may be at work, and which moves on       *)
(* whichever way the head ends.                                            *)
(***************************************************************************)
EXTENDS Sequences

CONSTANTS Ops, Lanes

VARIABLES
    queue,    \* per exchange, the operations asked for and not settled
    working,  \* the operations at work
    asked     \* every operation asked for so far

vars == <<queue, working, asked>>

Init ==
    /\ queue   = [l \in Lanes |-> <<>>]
    /\ working = {}
    /\ asked   = {}

Ask(op, l) ==
    /\ op \notin asked
    /\ asked' = asked \cup {op}
    /\ queue' = [queue EXCEPT ![l] = Append(@, op)]
    /\ UNCHANGED working

Begin(l) ==
    /\ queue[l] # <<>>
    /\ Head(queue[l]) \notin working
    /\ working' = working \cup {Head(queue[l])}
    /\ UNCHANGED <<queue, asked>>

Settle(l) ==
    /\ queue[l] # <<>>
    /\ Head(queue[l]) \in working
    /\ working' = working \ {Head(queue[l])}
    /\ queue'   = [queue EXCEPT ![l] = Tail(@)]
    /\ UNCHANGED asked

Next == \E l \in Lanes : Begin(l) \/ Settle(l) \/ \E op \in Ops : Ask(op, l)

Spec == Init /\ [][Next]_vars
=============================================================================
