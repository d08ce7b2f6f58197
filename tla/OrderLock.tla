----------------------------- MODULE OrderLock -----------------------------
(***************************************************************************)
(* The serial order lock: withOrderLock(exchange, fn) runs fn after every  *)
(* operation queued before it for the same exchange has settled. The queue *)
(* is no queue in the code but a chain of promises: opChains keeps the     *)
(* last operation of each exchange, and each operation waits for its own   *)
(* predecessor. An operation checks its guards against the book of a       *)
(* venue, awaits the order there, and then updates that book. Some read    *)
(* the book they check before they ask for the lock.                       *)
(*                                                                         *)
(* Source: node-backend/src/services/order-lock.ts and its callers in      *)
(* websocket/signal-client.ts and services/.                               *)
(***************************************************************************)
EXTENDS Naturals, Sequences, FiniteSets

CONSTANTS
    Ops,        \* order operations, each run once
    NoOp,       \* no operation
    Lanes,      \* the canonical exchange keys, the fallback one included
    NoLane,     \* at no venue
    Canon,      \* exchange key as given -> canonical: trimmed, lower case, or the fallback
    Key,        \* the exchange key each operation is queued under
    Work,       \* the venues each operation places orders at
    Unlocked,   \* operations that place orders without taking the lock
    Early,      \* operations whose guards are passed before they take the lock
    Stalled     \* operations with a call that is never answered

ASSUME LockAssumption ==
    /\ NoOp \notin Ops /\ IsFiniteSet(Ops)
    /\ NoLane \notin Lanes
    /\ Canon \in [DOMAIN Canon -> Lanes]
    /\ Key \in [Ops -> DOMAIN Canon]
    /\ Work \in [Ops -> SUBSET Lanes]
    /\ Unlocked \subseteq Ops
    /\ Early \subseteq Ops \ Unlocked
    /\ Stalled \subseteq Ops

VARIABLES
    opChains,  \* the operation queued last on each exchange
    prev,      \* the one each operation waits for
    phase,     \* where each operation is
    at,        \* the venue it has passed its guards for, its order outstanding
    seen,      \* the book of each venue as its guards read it
    left,      \* venues it still has to place orders at
    book       \* per venue, how many operations have updated our book of it

vars == <<opChains, prev, phase, at, seen, left, book>>

Lane(op) == Canon[Key[op]]

Settled(op) == phase[op] \in {"resolved", "rejected"}

TypeOK ==
    /\ opChains \in [Lanes -> Ops \cup {NoOp}]
    /\ prev  \in [Ops -> Ops \cup {NoOp}]
    /\ phase \in [Ops -> {"idle", "read", "queued", "running", "resolved", "rejected"}]
    /\ at    \in [Ops -> Lanes \cup {NoLane}]
    /\ seen  \in [Ops -> [Lanes -> 0..Cardinality(Ops)]]
    /\ left  \in [Ops -> SUBSET Lanes]
    /\ book  \in [Lanes -> 0..Cardinality(Ops)]

Init ==
    /\ opChains = [l \in Lanes |-> NoOp]
    /\ prev  = [op \in Ops |-> NoOp]
    /\ phase = [op \in Ops |-> "idle"]
    /\ at    = [op \in Ops |-> NoLane]
    /\ seen  = [op \in Ops |-> [l \in Lanes |-> 0]]
    /\ left  = Work
    /\ book  = [l \in Lanes |-> 0]

----------------------------------------------------------------------------
(* A manual entry or close, a roll of the user's, an order of the          *)
(* synthetic dollar, an adoption: rails and sizes are read, at the venues  *)
(* it is to order at, before the lock is asked for and not again under it. *)
ReadEarly(op) ==
    /\ phase[op] = "idle"
    /\ op \in Early
    /\ phase' = [phase EXCEPT ![op] = "read"]
    /\ seen'  = [seen EXCEPT ![op] = [l \in Lanes |-> IF l \in Work[op] THEN book[l] ELSE 0]]
    /\ UNCHANGED <<opChains, prev, at, left, book>>

(* Where an operation is when it asks for the lock. *)
Asks(op) == phase[op] = IF op \in Early THEN "read" ELSE "idle"

(* Mutant: one chain for every exchange. *)
WithOrderLockGlobal(op) ==
    /\ Asks(op)
    /\ op \notin Unlocked
    /\ phase'    = [phase EXCEPT ![op] = "queued"]
    /\ prev'     = [prev EXCEPT ![op] = opChains[Lane(op)]]
    /\ opChains' = [l \in Lanes |-> op]
    /\ UNCHANGED <<at, seen, left, book>>

(* Mutant: the chain is looked up under the key as it was given, so two    *)
(* spellings of one exchange do not find each other.                       *)
WithOrderLockUnnormalised(op) ==
    /\ Asks(op)
    /\ op \notin Unlocked
    /\ phase'    = [phase EXCEPT ![op] = "queued"]
    /\ LET tail == opChains[Lane(op)]
       IN  prev' = [prev EXCEPT ![op] = IF tail # NoOp /\ Key[tail] = Key[op] THEN tail ELSE NoOp]
    /\ opChains' = [opChains EXCEPT ![Lane(op)] = op]
    /\ UNCHANGED <<at, seen, left, book>>

WithOrderLock(op) ==
    /\ Asks(op)
    /\ op \notin Unlocked
    /\ phase'    = [phase EXCEPT ![op] = "queued"]
    /\ prev'     = [prev EXCEPT ![op] = opChains[Lane(op)]]
    /\ opChains' = [opChains EXCEPT ![Lane(op)] = op]
    /\ UNCHANGED <<at, seen, left, book>>

(* An operation that goes to the venue without the lock.                   *)
RunUnlocked(op) ==
    /\ phase[op] = "idle"
    /\ op \in Unlocked
    /\ phase' = [phase EXCEPT ![op] = "running"]
    /\ UNCHANGED <<opChains, prev, at, seen, left, book>>

(* Mutant: fn runs without waiting for the operation queued before it.     *)
StartAtOnce(op) ==
    /\ phase[op] = "queued"
    /\ phase' = [phase EXCEPT ![op] = "running"]
    /\ UNCHANGED <<opChains, prev, at, seen, left, book>>

(* prev.then(fn, fn): after a resolved and after a rejected predecessor.   *)
Start(op) ==
    /\ phase[op] = "queued"
    /\ prev[op] # NoOp => Settled(prev[op])
    /\ phase' = [phase EXCEPT ![op] = "running"]
    /\ UNCHANGED <<opChains, prev, at, seen, left, book>>

(* The guards pass, on the book as it is or as it was read early, and the  *)
(* order goes out.                                                         *)
PlaceAt(op, l) ==
    /\ phase[op] = "running"
    /\ at[op] = NoLane
    /\ l \in left[op]
    /\ at'   = [at EXCEPT ![op] = l]
    /\ seen' = IF op \in Early THEN seen ELSE [seen EXCEPT ![op][l] = book[l]]
    /\ UNCHANGED <<opChains, prev, phase, left, book>>

(* Mutant: a venue ordered at stays on the list of venues to order at.     *)
UpdateForgets(op) ==
    /\ phase[op] = "running"
    /\ at[op] # NoLane
    /\ book' = [book EXCEPT ![at[op]] = @ + 1]
    /\ at'   = [at EXCEPT ![op] = NoLane]
    /\ UNCHANGED <<opChains, prev, phase, seen, left>>

(* The order's answer is back and the book is updated.                     *)
Update(op) ==
    /\ phase[op] = "running"
    /\ at[op] # NoLane
    /\ book' = [book EXCEPT ![at[op]] = @ + 1]
    /\ left' = [left EXCEPT ![op] = @ \ {at[op]}]
    /\ at'   = [at EXCEPT ![op] = NoLane]
    /\ UNCHANGED <<opChains, prev, phase, seen>>

Resolve(op) ==
    /\ phase[op] = "running"
    /\ left[op] = {}
    /\ phase' = [phase EXCEPT ![op] = "resolved"]
    /\ UNCHANGED <<opChains, prev, at, seen, left, book>>

Reject(op) ==
    /\ phase[op] = "running"
    /\ phase' = [phase EXCEPT ![op] = "rejected"]
    /\ at'    = [at EXCEPT ![op] = NoLane]
    /\ UNCHANGED <<opChains, prev, seen, left, book>>

Await(op) == Update(op) \/ Resolve(op) \/ Reject(op) \/ \E l \in Lanes : PlaceAt(op, l)

Next ==
    \E op \in Ops :
        \/ ReadEarly(op) \/ WithOrderLock(op) \/ RunUnlocked(op)
        \/ Start(op) \/ Await(op)

Spec == Init /\ [][Next]_vars

(* A settled promise runs its continuation; an operation that is not stuck *)
(* on a call gets its answers.                                             *)
Fairness ==
    /\ \A op \in Ops : WF_vars(Start(op))
    /\ \A op \in Ops \ Stalled : WF_vars(Await(op))

FairSpec == Spec /\ Fairness

----------------------------------------------------------------------------
(* Properties *)

(* The operation orders at a venue outside the queue of that venue. The    *)
(* lock cannot order it there: PANIC takes no lock, and a fan-out holds    *)
(* only the lock of its first account's exchange.                          *)
Outside(op, l) == l \in Work[op] /\ (op \in Unlocked \/ Lane(op) # l)

(* No operation that passes its guards under the lock has an order         *)
(* outstanding on guards that another operation's update of the same book  *)
(* has since made stale (order-lock.ts:5-8), on a venue that no operation  *)
(* works at outside its queue. Operations that passed theirs early stand   *)
(* in the same queues: they can be stale, but make no other one so.        *)
NoStaleGuard ==
    \A op \in Ops \ Early :
        (at[op] # NoLane /\ \A w \in Ops : ~Outside(w, at[op]))
            => seen[op][at[op]] = book[at[op]]

(* Every queued operation settles, although operations before it may throw *)
(* and although a call on ANOTHER exchange is never answered.              *)
EveryOpSettles ==
    \A op \in Ops :
        (op \notin Unlocked /\ \A other \in Stalled : Lane(other) # Lane(op))
            => (phase[op] = "queued" ~> Settled(op))

Waiting(l) == {op \in Ops \ Unlocked : Lane(op) = l /\ phase[op] \in {"queued", "running"}}

(* q is the chain of the exchange, as far as it has not settled: it ends   *)
(* with what was queued last, and each operation waits for the one before. *)
Linked(q, l) ==
    LET n == Cardinality(Waiting(l))
    IN  /\ n > 0 => q[n] = opChains[l]
        /\ \A i \in 2..n : prev[q[i]] = q[i - 1]

(* The promise chain of an exchange read as the queue of its operations.   *)
Chain ==
    [l \in Lanes |->
        CHOOSE q \in [1..Cardinality(Waiting(l)) -> Waiting(l)] : Linked(q, l)]

Queues == INSTANCE VenueQueues WITH
    queue   <- Chain,
    working <- {op \in Ops \ Unlocked : phase[op] = "running"},
    asked   <- {op \in Ops \ Unlocked : phase[op] \notin {"idle", "read"}}

(* The promise chains behave as one FIFO queue per exchange whose head     *)
(* alone is at work (VenueQueues), throws included.                        *)
ImplementsQueues == Queues!Spec

=============================================================================
