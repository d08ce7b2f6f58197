-------------------------- MODULE EntryPath_proof --------------------------
(***************************************************************************)
(* Proofs about the four parts an entry passes through, each of which is a *)
(* specification of its own: the order lock, the connection that brings    *)
(* the signals, the entry from its order to its booking, and the fan-out   *)
(* of a signal over the accounts that follow its bot.                      *)
(***************************************************************************)
EXTENDS OrderLock, SignalConnection, EntrySettlement, FanOut,
        FiniteSetTheorems, SequenceTheorems, WellFoundedInduction, TLAPS

----------------------------------------------------------------------------
(***************************************************************************)
(* Proofs about the order lock, for every set of operations and venues.    *)
(* A chain is only linked backwards: an operation knows the one before it, *)
(* nobody knows the queue. The invariant therefore speaks of a rank that   *)
(* orders the operations of a venue, which no variable holds.              *)
(***************************************************************************)

(* What the proofs need of the types: counters are naturals.               *)
TypeInv ==
    /\ opChains \in [Lanes -> Ops \cup {NoOp}]
    /\ prev  \in [Ops -> Ops \cup {NoOp}]
    /\ phase \in [Ops -> {"idle", "read", "queued", "running", "resolved", "rejected"}]
    /\ at    \in [Ops -> Lanes \cup {NoLane}]
    /\ seen  \in [Ops -> [Lanes -> Nat]]
    /\ left  \in [Ops -> SUBSET Lanes]
    /\ book  \in [Lanes -> Nat]

(* The operations queued on the chain of a venue so far.                   *)
InChain(op, l) == op \in Ops /\ op \notin Unlocked /\ phase[op] \notin {"idle", "read"} /\ Lane(op) = l

(* The rank grows along each chain, each operation waits for the one right *)
(* before it, the table holds the last one, and what is at work or settled *)
(* has only settled operations before it.                                  *)
Ordered(rank) ==
    /\ \A op \in Ops : prev[op] # NoOp => InChain(prev[op], Lane(op)) /\ rank[prev[op]] < rank[op]
    /\ \A l \in Lanes : opChains[l] # NoOp => InChain(opChains[l], l)
    /\ \A l \in Lanes, p \in Ops :
        InChain(p, l) => opChains[l] # NoOp /\ (p = opChains[l] \/ rank[p] < rank[opChains[l]])
    /\ \A op, p \in Ops :
        InChain(op, Lane(op)) /\ InChain(p, Lane(op)) /\ rank[p] < rank[op]
            => /\ prev[op] # NoOp /\ (p = prev[op] \/ rank[p] < rank[prev[op]])
               /\ phase[op] # "queued" => Settled(p)
    /\ \A op, p \in Ops :
        InChain(op, Lane(op)) /\ InChain(p, Lane(op)) /\ op # p
            => rank[p] < rank[op] \/ rank[op] < rank[p]

ChainInv == \E rank \in [Ops -> Nat] : Ordered(rank)

(* An order is outstanding only while its operation works, at a venue it   *)
(* has still to work at; without a lock nothing is queued.                 *)
WorkInv ==
    /\ \A op \in Ops : at[op] # NoLane => phase[op] = "running" /\ at[op] \in left[op]
    /\ \A op \in Ops : left[op] \subseteq Work[op]

(* One locked operation of a venue at work.                                *)
Alone ==
    \A op, p \in Ops :
        /\ op \notin Unlocked /\ p \notin Unlocked /\ Lane(op) = Lane(p)
        /\ phase[op] = "running" /\ phase[p] = "running"
        => op = p

Inv == TypeInv /\ ChainInv /\ WorkInv /\ NoStaleGuard

----------------------------------------------------------------------------
LEMMA LaneType == ASSUME NEW op \in Ops PROVE Lane(op) \in Lanes
BY LockAssumption DEF Lane

(* The types hold initially and through every step.                        *)
LEMMA TypeInit == Init => TypeInv
BY LockAssumption DEF Init, TypeInv

LEMMA TypeStep == TypeInv /\ [Next]_vars => TypeInv'
<1> SUFFICES ASSUME TypeInv, [Next]_vars PROVE TypeInv'
    OBVIOUS
<1> USE LockAssumption, LaneType DEF TypeInv
<1>0. ASSUME NEW op \in Ops, ReadEarly(op) PROVE TypeInv'
    BY <1>0 DEF ReadEarly
<1>1. ASSUME NEW op \in Ops, WithOrderLock(op) PROVE TypeInv'
    BY <1>1 DEF WithOrderLock
<1>2. ASSUME NEW op \in Ops, RunUnlocked(op) PROVE TypeInv'
    BY <1>2 DEF RunUnlocked
<1>3. ASSUME NEW op \in Ops, Start(op) PROVE TypeInv'
    BY <1>3 DEF Start
<1>4. ASSUME NEW op \in Ops, Update(op) PROVE TypeInv'
    BY <1>4 DEF Update
<1>5. ASSUME NEW op \in Ops, Resolve(op) PROVE TypeInv'
    BY <1>5 DEF Resolve
<1>6. ASSUME NEW op \in Ops, Reject(op) PROVE TypeInv'
    BY <1>6 DEF Reject
<1>7. ASSUME NEW op \in Ops, NEW l \in Lanes, PlaceAt(op, l) PROVE TypeInv'
    BY <1>7 DEF PlaceAt
<1>8. CASE UNCHANGED vars
    BY <1>8 DEF vars
<1> QED
    BY <1>0, <1>1, <1>2, <1>3, <1>4, <1>5, <1>6, <1>7, <1>8 DEF Next, Await

(* Of two operations of a chain at work one would be before the other, and *)
(* what is before an operation at work has settled.                        *)
LEMMA OrderedIsAlone == ASSUME TypeInv, ChainInv PROVE Alone
<1>1. PICK rank \in [Ops -> Nat] : Ordered(rank)
    BY DEF ChainInv
<1>2. ASSUME NEW op \in Ops, NEW p \in Ops, op \notin Unlocked, p \notin Unlocked,
             Lane(op) = Lane(p), phase[op] = "running", phase[p] = "running", op # p
      PROVE FALSE
    <2>1. InChain(op, Lane(op)) /\ InChain(p, Lane(op)) /\ InChain(p, Lane(p)) /\ InChain(op, Lane(p))
        BY <1>2 DEF InChain
    <2>2. rank[p] < rank[op] \/ rank[op] < rank[p]
        BY <1>1, <1>2, <2>1 DEF Ordered
    <2>3. Settled(p) \/ Settled(op)
        BY <1>1, <1>2, <2>1, <2>2 DEF Ordered
    <2> QED
        BY <1>2, <2>3 DEF Settled
<1> QED
    BY <1>2 DEF Alone

----------------------------------------------------------------------------
(* The chains: a new operation gets a rank above its predecessor's.        *)
LEMMA ChainInit == Init => ChainInv
<1> SUFFICES ASSUME Init PROVE ChainInv
    OBVIOUS
<1>1. [op \in Ops |-> 0] \in [Ops -> Nat]
    OBVIOUS
<1>2. Ordered([op \in Ops |-> 0])
    BY LockAssumption, LaneType DEF Init, Ordered, InChain
<1> QED
    BY <1>1, <1>2 DEF ChainInv

LEMMA QueueStep ==
    ASSUME TypeInv, NEW rank \in [Ops -> Nat], Ordered(rank), NEW op \in Ops, WithOrderLock(op)
    PROVE ChainInv'
<1> DEFINE tail == opChains[Lane(op)]
           next == [rank EXCEPT ![op] = IF tail = NoOp THEN 0 ELSE rank[tail] + 1]
<1>0. Lane(op) \in Lanes
    BY LaneType
<1>1. tail # NoOp => tail \in Ops /\ InChain(tail, Lane(op)) /\ tail # op
    BY <1>0 DEF WithOrderLock, Asks, Ordered, InChain
<1>2a. next \in [Ops -> Nat]
    BY <1>0, <1>1 DEF TypeInv
<1>2. PICK new \in [Ops -> Nat] : new = next
    BY <1>2a
<1>3. /\ new[op] = IF tail = NoOp THEN 0 ELSE rank[tail] + 1
      /\ \A p \in Ops : p # op => new[p] = rank[p] /\ prev'[p] = prev[p] /\ phase'[p] = phase[p]
      /\ prev'[op] = tail /\ phase'[op] = "queued" /\ phase[op] \in {"idle", "read"}
      /\ op \notin Unlocked
      /\ opChains'[Lane(op)] = op
      /\ \A l \in Lanes : l # Lane(op) => opChains'[l] = opChains[l]
    BY <1>0, <1>2 DEF WithOrderLock, Asks, TypeInv
<1>4. ~InChain(op, Lane(op)) /\ NoOp \notin Ops
    BY <1>3, LockAssumption DEF InChain
<1>5. \A p \in Ops, l \in Lanes : InChain(p, l)' <=> InChain(p, l) \/ (p = op /\ l = Lane(op))
    BY <1>3 DEF InChain, Lane
<1>6. \A p \in Ops : Settled(p)' <=> Settled(p)
    BY <1>3 DEF Settled
<1>7. \A p \in Ops : InChain(p, Lane(op)) => tail # NoOp /\ p # op /\ new[p] < new[op]
    <2> SUFFICES ASSUME NEW p \in Ops, InChain(p, Lane(op))
                 PROVE tail # NoOp /\ p # op /\ new[p] < new[op]
        OBVIOUS
    <2>1. p # op /\ tail # NoOp /\ (p = tail \/ rank[p] < rank[tail])
        BY <1>0, <1>4 DEF Ordered
    <2> QED
        BY <1>1, <1>3, <2>1
<1>8. \A p \in Ops : prev[p] # op
    BY <1>4, LaneType, <1>3 DEF Ordered, InChain
<1> HIDE DEF next, tail
<1>9. Ordered(new)'
    <2>6. \A p \in Ops : Lane(p)' = Lane(p) /\ Lane(p) \in Lanes
        BY LaneType DEF Lane
    <2>1. ASSUME NEW p \in Ops, prev'[p] # NoOp
          PROVE InChain(prev[p], Lane(p))' /\ new[prev'[p]] < new[p]
        <3>1. CASE p = op
            BY <1>0, <1>1, <1>3, <1>5, <1>7, <2>1, <3>1 DEF InChain
        <3>2. CASE p # op
            <4>1. InChain(prev[p], Lane(p)) /\ rank[prev[p]] < rank[p] /\ prev'[p] = prev[p]
                BY <1>3, <2>1, <3>2 DEF Ordered
            <4> QED
                BY <1>3, <1>5, <1>8, <3>2, <4>1, LaneType DEF InChain
        <3> QED
            BY <3>1, <3>2
    <2>2. ASSUME NEW l \in Lanes, opChains'[l] # NoOp PROVE InChain(opChains[l], l)'
        BY <1>3, <1>5, <2>2 DEF Ordered, InChain
    <2>3. ASSUME NEW l \in Lanes, NEW p \in Ops, InChain(p, l)'
          PROVE opChains'[l] # NoOp /\ (p = opChains'[l] \/ new[p] < new[opChains'[l]])
        <3>1. CASE l = Lane(op)
            BY <1>3, <1>4, <1>5, <1>7, <2>3, <3>1
        <3>2. CASE l # Lane(op)
            <4>1. InChain(p, l) /\ opChains'[l] = opChains[l] /\ p # op
                BY <1>3, <1>5, <2>3, <3>2 DEF InChain
            <4>2. opChains[l] # NoOp /\ opChains[l] # op /\ opChains[l] \in Ops
                BY <1>3, <3>2, <4>1 DEF Ordered, InChain
            <4> QED
                BY <1>3, <4>1, <4>2 DEF Ordered
        <3> QED
            BY <3>1, <3>2
    <2>4. ASSUME NEW q \in Ops, NEW p \in Ops, InChain(q, Lane(q))', InChain(p, Lane(q))',
                 new[p] < new[q]
          PROVE /\ prev'[q] # NoOp /\ (p = prev'[q] \/ new[p] < new[prev'[q]])
                /\ phase'[q] # "queued" => Settled(p)'
        <3>1. CASE q = op
            <4>1. InChain(p, Lane(op)) /\ p # op
                BY <1>0, <1>5, <2>4, <3>1, <1>2
            <4>2. tail # NoOp /\ (p = tail \/ rank[p] < rank[tail])
                BY <1>0, <4>1 DEF Ordered, tail
            <4> QED
                BY <1>1, <1>3, <3>1, <4>1, <4>2
        <3>2. CASE q # op
            <4>1. InChain(q, Lane(q))
                BY <1>5, <2>4, <3>2, LaneType
            <4>2. p # op
                BY <1>2, <1>5, <1>7, <2>4, <3>2, <4>1, LaneType DEF InChain
            <4>3. InChain(p, Lane(q)) /\ rank[p] < rank[q]
                BY <1>3, <1>5, <2>4, <3>2, <4>2, LaneType
            <4>4. /\ prev[q] # NoOp /\ (p = prev[q] \/ rank[p] < rank[prev[q]])
                  /\ phase[q] # "queued" => Settled(p)
                BY <4>1, <4>3 DEF Ordered
            <4>5. prev[q] \in Ops /\ prev[q] # op
                BY <1>8, <4>4 DEF TypeInv
            <4> QED
                BY <1>3, <1>6, <3>2, <4>2, <4>4, <4>5
        <3> QED
            BY <3>1, <3>2
    <2>5. ASSUME NEW q \in Ops, NEW p \in Ops, InChain(q, Lane(q))', InChain(p, Lane(q))', q # p
          PROVE new[p] < new[q] \/ new[q] < new[p]
        <3>1. CASE q = op
            <4>1. InChain(p, Lane(op))
                BY <1>0, <1>5, <2>5, <2>6, <3>1, <1>4
            <4> QED
                BY <1>7, <3>1, <4>1
        <3>2. CASE p = op
            <4>1. InChain(q, Lane(q)) /\ Lane(q) = Lane(op)
                BY <1>3, <1>5, <2>5, <2>6, <3>2 DEF InChain
            <4> QED
                BY <1>7, <3>2, <4>1
        <3>3. CASE q # op /\ p # op
            <4>1. InChain(q, Lane(q)) /\ InChain(p, Lane(q))
                BY <1>5, <2>5, <3>3, LaneType
            <4> QED
                BY <1>3, <2>5, <3>3, <4>1 DEF Ordered
        <3> QED
            BY <3>1, <3>2, <3>3
    <2> QED
        BY <2>1, <2>2, <2>3, <2>4, <2>5, <2>6 DEF Ordered
<1> QED
    BY <1>2, <1>9 DEF ChainInv

(* Every other step leaves the chains alone; only the head starts.         *)
LEMMA ChainStep == ASSUME TypeInv, ChainInv, [Next]_vars PROVE ChainInv'
<1>1. PICK rank \in [Ops -> Nat] : Ordered(rank)
    BY DEF ChainInv
<1>2. ASSUME NEW op \in Ops, WithOrderLock(op) PROVE ChainInv'
    BY <1>1, <1>2, QueueStep
<1>3. ASSUME UNCHANGED <<opChains, prev>>,
             \A p \in Ops : phase'[p] = phase[p] \/ p \in Unlocked
                            \/ (phase[p] = "running" /\ phase'[p] \in {"resolved", "rejected"})
                            \/ (phase[p] = "idle" /\ phase'[p] = "read")
                            \/ (phase[p] = "queued" /\ phase'[p] = "running"
                                /\ (prev[p] # NoOp => Settled(prev[p])))
      PROVE ChainInv'
    <2>1. \A p \in Ops, l \in Lanes : InChain(p, l)' <=> InChain(p, l)
        BY <1>3 DEF InChain, Lane
    <2>2. \A p \in Ops : p \notin Unlocked /\ Settled(p) => Settled(p)'
        BY <1>3 DEF Settled
    <2>3. ASSUME NEW op \in Ops, NEW p \in Ops, InChain(op, Lane(op)), InChain(p, Lane(op)),
                 rank[p] < rank[op], phase'[op] # "queued"
          PROVE Settled(p)'
        <3>1. CASE phase[op] # "queued"
            BY <1>1, <2>2, <2>3, <3>1 DEF Ordered, InChain
        <3>2. CASE phase[op] = "queued"
            <4>1. prev[op] # NoOp /\ Settled(prev[op]) /\ op \notin Unlocked
                BY <1>1, <1>3, <2>3, <3>2 DEF Ordered, InChain
            <4>2. InChain(prev[op], Lane(op)) /\ prev[op] \in Ops
                BY <1>1, <4>1 DEF Ordered, TypeInv, InChain
            <4>3. p = prev[op] \/ rank[p] < rank[prev[op]]
                BY <1>1, <2>3 DEF Ordered
            <4>4. Lane(prev[op]) = Lane(op) /\ phase[prev[op]] # "queued"
                BY <4>1, <4>2 DEF InChain, Settled
            <4>5. Settled(p)
                BY <1>1, <2>3, <4>1, <4>2, <4>3, <4>4 DEF Ordered
            <4> QED
                BY <2>2, <2>3, <4>5 DEF InChain
        <3> QED
            BY <3>1, <3>2
    <2>4. \A p \in Ops : Lane(p)' = Lane(p) /\ Lane(p) \in Lanes
        BY LaneType DEF Lane
    <2>5. Ordered(rank)'
        <3>1. \A op \in Ops : prev[op] # NoOp => InChain(prev[op], Lane(op))' /\ rank[prev[op]] < rank[op]
            <4> SUFFICES ASSUME NEW op \in Ops, prev[op] # NoOp
                         PROVE InChain(prev[op], Lane(op))' /\ rank[prev[op]] < rank[op]
                OBVIOUS
            <4>1. InChain(prev[op], Lane(op)) /\ rank[prev[op]] < rank[op] /\ prev[op] \in Ops
                BY <1>1 DEF Ordered, InChain
            <4> QED
                BY <1>3, <2>4, <4>1 DEF InChain
        <3>2. \A l \in Lanes : opChains[l] # NoOp => InChain(opChains[l], l)'
            <4> SUFFICES ASSUME NEW l \in Lanes, opChains[l] # NoOp PROVE InChain(opChains[l], l)'
                OBVIOUS
            <4>1. InChain(opChains[l], l)
                BY <1>1 DEF Ordered
            <4> QED
                BY <1>3, <2>4, <4>1 DEF InChain
        <3>3. \A l \in Lanes, p \in Ops :
                InChain(p, l)' => opChains[l] # NoOp /\ (p = opChains[l] \/ rank[p] < rank[opChains[l]])
            BY <1>1, <2>1 DEF Ordered
        <3>4. \A op, p \in Ops :
                InChain(op, Lane(op))' /\ InChain(p, Lane(op))' /\ rank[p] < rank[op]
                    => /\ prev[op] # NoOp /\ (p = prev[op] \/ rank[p] < rank[prev[op]])
                       /\ phase'[op] # "queued" => Settled(p)'
            BY <1>1, <2>1, <2>3, <2>4 DEF Ordered
        <3>5. \A op, p \in Ops :
                InChain(op, Lane(op))' /\ InChain(p, Lane(op))' /\ op # p
                    => rank[p] < rank[op] \/ rank[op] < rank[p]
            BY <1>1, <2>1, <2>4 DEF Ordered
        <3> QED
            BY <1>3, <2>4, <3>1, <3>2, <3>3, <3>4, <3>5 DEF Ordered
    <2> QED
        BY <2>5 DEF ChainInv
<1> USE DEF TypeInv
<1>4. ASSUME NEW op \in Ops, RunUnlocked(op) PROVE ChainInv'
    BY <1>3, <1>4 DEF RunUnlocked
<1>5. ASSUME NEW op \in Ops, Start(op) PROVE ChainInv'
    BY <1>3, <1>5 DEF Start
<1>6. ASSUME NEW op \in Ops, Update(op) PROVE ChainInv'
    BY <1>3, <1>6 DEF Update
<1>7. ASSUME NEW op \in Ops, Resolve(op) PROVE ChainInv'
    BY <1>3, <1>7 DEF Resolve
<1>8. ASSUME NEW op \in Ops, Reject(op) PROVE ChainInv'
    BY <1>3, <1>8 DEF Reject
<1>9. ASSUME NEW op \in Ops, NEW l \in Lanes, PlaceAt(op, l) PROVE ChainInv'
    BY <1>3, <1>9 DEF PlaceAt
<1>10. CASE UNCHANGED vars
    BY <1>3, <1>10 DEF vars
<1>11. ASSUME NEW op \in Ops, ReadEarly(op) PROVE ChainInv'
    BY <1>3, <1>11 DEF ReadEarly
<1> QED
    BY <1>2, <1>11, <1>4, <1>5, <1>6, <1>7, <1>8, <1>9, <1>10 DEF Next, Await

----------------------------------------------------------------------------
(* Orders and guards.                                                      *)
LEMMA WorkInit == Init => WorkInv /\ NoStaleGuard
BY DEF Init, WorkInv, NoStaleGuard

LEMMA WorkStep == ASSUME TypeInv, WorkInv, [Next]_vars PROVE WorkInv'
<1> USE DEF TypeInv, WorkInv
<1>0. ASSUME NEW op \in Ops, ReadEarly(op) PROVE WorkInv'
    BY <1>0 DEF ReadEarly
<1>1. ASSUME NEW op \in Ops, WithOrderLock(op) PROVE WorkInv'
    BY <1>1 DEF WithOrderLock, Asks
<1>2. ASSUME NEW op \in Ops, RunUnlocked(op) PROVE WorkInv'
    BY <1>2 DEF RunUnlocked
<1>3. ASSUME NEW op \in Ops, Start(op) PROVE WorkInv'
    BY <1>3 DEF Start
<1>4. ASSUME NEW op \in Ops, Update(op) PROVE WorkInv'
    BY <1>4 DEF Update
<1>5. ASSUME NEW op \in Ops, Resolve(op) PROVE WorkInv'
    BY <1>5 DEF Resolve
<1>6. ASSUME NEW op \in Ops, Reject(op) PROVE WorkInv'
    BY <1>6 DEF Reject
<1>7. ASSUME NEW op \in Ops, NEW l \in Lanes, PlaceAt(op, l) PROVE WorkInv'
    BY <1>7 DEF PlaceAt
<1>8. CASE UNCHANGED vars
    BY <1>8 DEF vars
<1> QED
    BY <1>0, <1>1, <1>2, <1>3, <1>4, <1>5, <1>6, <1>7, <1>8 DEF Next, Await

(* Another operation with an order at the same venue would be a second one *)
(* at work in the queue of that venue.                                     *)
LEMMA GuardStep ==
    ASSUME TypeInv, ChainInv, WorkInv, NoStaleGuard, [Next]_vars
    PROVE NoStaleGuard'
<1>1. Alone
    BY OrderedIsAlone
<1>2. ASSUME UNCHANGED book,
             \A op \in Ops \ Early : at'[op] = NoLane \/ (at'[op] = at[op] /\ seen'[op] = seen[op])
      PROVE NoStaleGuard'
    BY <1>2 DEF NoStaleGuard, Outside, Lane
<1> USE DEF TypeInv
<1>0. ASSUME NEW op \in Ops, ReadEarly(op) PROVE NoStaleGuard'
    BY <1>0, <1>2 DEF ReadEarly
<1>3. ASSUME NEW op \in Ops, WithOrderLock(op) PROVE NoStaleGuard'
    BY <1>2, <1>3 DEF WithOrderLock
<1>4. ASSUME NEW op \in Ops, RunUnlocked(op) PROVE NoStaleGuard'
    BY <1>2, <1>4 DEF RunUnlocked
<1>5. ASSUME NEW op \in Ops, Start(op) PROVE NoStaleGuard'
    BY <1>2, <1>5 DEF Start
<1>6. ASSUME NEW op \in Ops, Resolve(op) PROVE NoStaleGuard'
    BY <1>2, <1>6 DEF Resolve
<1>7. ASSUME NEW op \in Ops, Reject(op) PROVE NoStaleGuard'
    BY <1>2, <1>7 DEF Reject
<1>8. ASSUME NEW op \in Ops, NEW l \in Lanes, PlaceAt(op, l) PROVE NoStaleGuard'
    BY <1>8 DEF PlaceAt, NoStaleGuard, Outside, Lane
<1>9. ASSUME NEW op \in Ops, Update(op) PROVE NoStaleGuard'
    <2> SUFFICES ASSUME NEW p \in Ops \ Early, at'[p] # NoLane, \A w \in Ops : ~Outside(w, at'[p])
                 PROVE seen'[p][at'[p]] = book'[at'[p]]
        BY DEF NoStaleGuard, Outside, Lane
    <2>1. p # op /\ at'[p] = at[p] /\ seen' = seen
        BY <1>9 DEF Update
    <2>2. seen[p][at[p]] = book[at[p]] /\ at[p] \in Lanes
        BY <2>1 DEF NoStaleGuard
    <2>3. at[op] # at[p]
        <3> SUFFICES ASSUME at[op] = at[p] PROVE FALSE
            OBVIOUS
        <3>1. at[op] \in Work[op] /\ at[p] \in Work[p] /\ phase[op] = "running" /\ phase[p] = "running"
            BY <1>9, <2>1, LockAssumption DEF WorkInv, Update
        <3>2. op \notin Unlocked /\ p \notin Unlocked /\ Lane(op) = at[p] /\ Lane(p) = at[p]
            BY <2>1, <3>1 DEF Outside
        <3> QED
            BY <1>1, <2>1, <3>1, <3>2 DEF Alone
    <2> QED
        BY <1>9, <2>1, <2>2, <2>3 DEF Update
<1>10. CASE UNCHANGED vars
    BY <1>2, <1>10 DEF vars
<1> QED
    BY <1>0, <1>3, <1>4, <1>5, <1>6, <1>7, <1>8, <1>9, <1>10 DEF Next, Await

----------------------------------------------------------------------------
(* Whatever is queued, started, thrown or stuck: no order of an operation  *)
(* that passes its guards under the lock stands on guards that another     *)
(* operation's update of the same book has made stale, at a venue where    *)
(* every operation goes through the queue (order-lock.ts).                 *)
THEOREM FreshGuards == Spec => []NoStaleGuard
<1>1. Init => Inv
    BY TypeInit, ChainInit, WorkInit DEF Inv
<1>2. Inv /\ [Next]_vars => Inv'
    BY TypeStep, ChainStep, WorkStep, GuardStep DEF Inv
<1>3. Inv => NoStaleGuard
    BY DEF Inv
<1> QED
    BY <1>1, <1>2, <1>3, PTL DEF Spec

(* One operation of a venue's queue at work at a time, whichever way the   *)
(* ones before it ended.                                                   *)
THEOREM OneAtWork == Spec => []Alone
<1>1. Init => TypeInv /\ ChainInv
    BY TypeInit, ChainInit
<1>2. TypeInv /\ ChainInv /\ [Next]_vars => TypeInv' /\ ChainInv'
    BY TypeStep, ChainStep
<1>3. TypeInv /\ ChainInv => Alone
    BY OrderedIsAlone
<1> QED
    BY <1>1, <1>2, <1>3, PTL DEF Spec

----------------------------------------------------------------------------
(* Each update of a book is one operation's only one there: the book of a  *)
(* venue counts the operations that have it behind them.                   *)
UpdatedAt(l) == {op \in Ops : l \in Work[op] \ left[op]}

CountInv ==
    /\ \A l \in Lanes : book[l] = Cardinality(UpdatedAt(l))
    /\ \A op \in Ops, l \in Lanes : seen[op][l] <= Cardinality(Ops)

LEMMA UpdatedAtMostAll ==
    ASSUME NEW l \in Lanes
    PROVE IsFiniteSet(UpdatedAt(l)) /\ Cardinality(UpdatedAt(l)) \in 0..Cardinality(Ops)
<1>1. IsFiniteSet(Ops) /\ UpdatedAt(l) \subseteq Ops
    BY LockAssumption DEF UpdatedAt
<1>2. IsFiniteSet(UpdatedAt(l)) /\ Cardinality(UpdatedAt(l)) <= Cardinality(Ops)
    BY <1>1, FS_Subset
<1> QED
    BY <1>1, <1>2, FS_CardinalityType

LEMMA CountInit == Init => CountInv
<1> SUFFICES ASSUME Init PROVE CountInv
    OBVIOUS
<1>1. \A l \in Lanes : UpdatedAt(l) = {}
    BY DEF Init, UpdatedAt
<1>2. Cardinality({}) = 0 /\ Cardinality(Ops) \in Nat
    BY LockAssumption, FS_EmptySet, FS_CardinalityType
<1> QED
    BY <1>1, <1>2 DEF Init, CountInv

LEMMA CountStep == ASSUME TypeInv, WorkInv, CountInv, [Next]_vars PROVE CountInv'
<1>1. ASSUME UNCHANGED <<book, seen, left>> PROVE CountInv'
    BY <1>1 DEF CountInv, UpdatedAt
<1>2. ASSUME NEW op \in Ops, NEW l \in Lanes, PlaceAt(op, l) PROVE CountInv'
    <2>1. book[l] <= Cardinality(Ops)
        BY UpdatedAtMostAll DEF CountInv
    <2>2. \A p \in Ops, k \in Lanes : seen'[p][k] <= Cardinality(Ops)
        BY <1>2, <2>1 DEF PlaceAt, CountInv, TypeInv
    <2> QED
        BY <1>2, <2>2 DEF PlaceAt, CountInv, UpdatedAt
<1>3. ASSUME NEW op \in Ops, Update(op) PROVE CountInv'
    <2>1. at[op] \in Lanes /\ at[op] \in left[op] /\ left[op] \subseteq Work[op]
        BY <1>3 DEF Update, TypeInv, WorkInv
    <2>2. /\ left'[op] = left[op] \ {at[op]}
          /\ \A p \in Ops : p # op => left'[p] = left[p]
        BY <1>3 DEF Update, TypeInv
    <2>3. ASSUME NEW l \in Lanes PROVE book'[l] = Cardinality(UpdatedAt(l)')
        <3>1. CASE l = at[op]
            <4>1. UpdatedAt(l)' = UpdatedAt(l) \cup {op} /\ op \notin UpdatedAt(l)
                BY <2>1, <2>2, <3>1 DEF UpdatedAt
            <4>2. Cardinality(UpdatedAt(l)') = Cardinality(UpdatedAt(l)) + 1
                BY <4>1, UpdatedAtMostAll, FS_AddElement
            <4> QED
                BY <1>3, <2>1, <3>1, <4>2 DEF Update, TypeInv, CountInv
        <3>2. CASE l # at[op]
            <4>1. UpdatedAt(l)' = UpdatedAt(l)
                BY <2>2, <3>2 DEF UpdatedAt
            <4> QED
                BY <1>3, <2>1, <3>2, <4>1 DEF Update, TypeInv, CountInv
        <3> QED
            BY <3>1, <3>2
    <2> QED
        BY <1>3, <2>3 DEF Update, CountInv
<1>4. ASSUME NEW op \in Ops, WithOrderLock(op) PROVE CountInv'
    BY <1>1, <1>4 DEF WithOrderLock
<1>5. ASSUME NEW op \in Ops, RunUnlocked(op) PROVE CountInv'
    BY <1>1, <1>5 DEF RunUnlocked
<1>6. ASSUME NEW op \in Ops, Start(op) PROVE CountInv'
    BY <1>1, <1>6 DEF Start
<1>7. ASSUME NEW op \in Ops, Resolve(op) PROVE CountInv'
    BY <1>1, <1>7 DEF Resolve
<1>8. ASSUME NEW op \in Ops, Reject(op) PROVE CountInv'
    BY <1>1, <1>8 DEF Reject
<1>9. CASE UNCHANGED vars
    BY <1>1, <1>9 DEF vars
<1>10. ASSUME NEW op \in Ops, ReadEarly(op) PROVE CountInv'
    <2>1. \A l \in Lanes : book[l] <= Cardinality(Ops)
        BY UpdatedAtMostAll DEF CountInv
    <2>2. Cardinality(Ops) \in Nat
        BY LockAssumption, FS_CardinalityType
    <2>3. \A p \in Ops, k \in Lanes : seen'[p][k] <= Cardinality(Ops)
        BY <1>10, <2>1, <2>2 DEF ReadEarly, CountInv, TypeInv
    <2> QED
        BY <1>10, <2>3 DEF ReadEarly, CountInv, UpdatedAt
<1> QED
    BY <1>10, <1>2, <1>3, <1>4, <1>5, <1>6, <1>7, <1>8, <1>9 DEF Next, Await

LEMMA CountsBounded == ASSUME TypeInv, CountInv PROVE TypeOK
<1>1. \A l \in Lanes : book[l] \in 0..Cardinality(Ops)
    BY UpdatedAtMostAll DEF CountInv
<1>2. Cardinality(Ops) \in Nat
    BY LockAssumption, FS_CardinalityType
<1> QED
    BY <1>1, <1>2 DEF TypeInv, TypeOK, CountInv

(* The table holds operations or nothing, every phase is one of the six,   *)
(* and no book is updated more often than there are operations: none is    *)
(* run twice or updates one book twice (order-lock.ts and its callers).    *)
THEOREM TypeCorrect == Spec => []TypeOK
<1>1. Init => TypeInv /\ WorkInv /\ CountInv
    BY TypeInit, WorkInit, CountInit
<1>2. TypeInv /\ WorkInv /\ CountInv /\ [Next]_vars => TypeInv' /\ WorkInv' /\ CountInv'
    BY TypeStep, WorkStep, CountStep
<1>3. TypeInv /\ CountInv => TypeOK
    BY CountsBounded
<1> QED
    BY <1>1, <1>2, <1>3, PTL DEF Spec

----------------------------------------------------------------------------
(* The refinement of VenueQueues. Nothing holds the queue of an exchange;  *)
(* what the chain promises is that there is one, of which the head alone   *)
(* may be at work, and that whoever waits behind nobody may start.         *)
QueueOf(q, l) ==
    /\ q \in Seq(Ops)
    /\ Len(q) = Cardinality(Waiting(l))
    /\ \A i \in 1..Len(q) : q[i] \in Waiting(l)
    /\ \A op \in Waiting(l) : \E i \in 1..Len(q) : q[i] = op
    /\ \A i, k \in 1..Len(q) : q[i] = q[k] => i = k
    /\ \A i \in 2..Len(q) : prev[q[i]] = q[i - 1] /\ phase[q[i]] = "queued"
    /\ Len(q) > 0 => q[Len(q)] = opChains[l]
    /\ Len(q) > 0 => prev[q[1]] = NoOp \/ Settled(prev[q[1]])
    /\ Len(q) = 0 => opChains[l] = NoOp \/ Settled(opChains[l])

QueueInv == \A l \in Lanes : \E q : QueueOf(q, l)

LEMMA WaitingFinite ==
    ASSUME NEW l \in Lanes PROVE IsFiniteSet(Waiting(l)) /\ Cardinality(Waiting(l)) \in Nat
<1>1. Waiting(l) \in SUBSET Ops
    BY DEF Waiting
<1> QED
    BY <1>1, LockAssumption, FS_Subset, FS_CardinalityType

LEMMA LeastNatural ==
    ASSUME NEW S \in SUBSET Nat, S # {}
    PROVE \E n \in S : \A m \in S : n <= m
<1>1. PICK n \in S : \A m \in S : ~(<<m, n>> \in OpToRel(<, Nat))
    BY NatLessThanWellFounded, WFMin
<1>2. \A m \in S : ~(m < n)
    BY <1>1, Zenon DEF OpToRel
<1> QED
    BY <1>2

(* Read back from its end a chain is one sequence only.                    *)
LEMMA OneWayBack ==
    ASSUME NEW l \in Lanes, NEW n \in Nat, n = Cardinality(Waiting(l)), NEW W,
           NEW q \in [1..n -> W], NEW r \in [1..n -> W], Linked(q, l), Linked(r, l)
    PROVE r = q
<1> SUFFICES ASSUME NEW j \in 1..n, r[j] # q[j] PROVE FALSE
    OBVIOUS
<1> DEFINE apart == {d \in Nat : d < n /\ r[n - d] # q[n - d]}
<1>1. n - j \in apart
    OBVIOUS
<1>2. PICK d \in apart : \A e \in apart : d <= e
    BY <1>1, LeastNatural
<1>3. d # 0
    BY <1>2 DEF Linked
<1>4. d - 1 \notin apart /\ d - 1 \in Nat /\ d - 1 < n
    <2>1. d - 1 \in Nat /\ d - 1 < n /\ ~(d <= d - 1)
        BY <1>2, <1>3
    <2> HIDE DEF apart
    <2> QED
        BY <1>2, <2>1
<1>5. r[n - d + 1] = q[n - d + 1] /\ n - d + 1 \in 2..n
    BY <1>2, <1>3, <1>4
<1>6. prev[r[n - d + 1]] = r[n - d] /\ prev[q[n - d + 1]] = q[n - d]
    BY <1>2, <1>5 DEF Linked
<1> QED
    BY <1>2, <1>5, <1>6

LEMMA QueueIsChain ==
    ASSUME NEW l \in Lanes, NEW q, QueueOf(q, l)
    PROVE Chain[l] = q
<1>1. PICK n \in Nat : n = Cardinality(Waiting(l))
    BY WaitingFinite
<1>2. PICK W : W = Waiting(l)
    OBVIOUS
<1>3. q \in [1..n -> W] /\ Linked(q, l)
    BY <1>1, <1>2, LenProperties DEF QueueOf, Linked
<1>4. ASSUME NEW r \in [1..n -> W], Linked(r, l) PROVE r = q
    BY <1>1, <1>3, <1>4, OneWayBack
<1>5. Chain[l] = CHOOSE r \in [1..n -> W] : Linked(r, l)
    BY <1>1, <1>2 DEF Chain
<1> QED
    BY <1>3, <1>4, <1>5

LEMMA ChainIsQueue == \A l \in Lanes : \A q : QueueOf(q, l) => Chain[l] = q
BY QueueIsChain

LEMMA NextChainIsQueue == (\A l \in Lanes : \A q : QueueOf(q, l) => Chain[l] = q)'
BY ChainIsQueue, PTL

(* An operation joins at the end of the queue of its exchange.             *)
LEMMA Joins ==
    ASSUME TypeInv, NEW op \in Ops, WithOrderLock(op), NEW q, QueueOf(q, Lane(op))
    PROVE QueueOf(Append(q, op), Lane(op))'
<1> DEFINE l == Lane(op)
           n == Len(q)
           r == Append(q, op)
<1>1. l \in Lanes /\ Lane(op)' = l
    BY LaneType DEF Lane
<1>2. q \in Seq(Ops) /\ n \in Nat
    BY LenProperties DEF QueueOf
<1>3. /\ r \in Seq(Ops) /\ Len(r) = n + 1 /\ r[n + 1] = op
      /\ \A i \in 1..n : r[i] = q[i]
    BY <1>2
<1>4. /\ prev'[op] = opChains[l] /\ opChains'[l] = op /\ phase'[op] = "queued"
      /\ \A p \in Ops : p # op => prev'[p] = prev[p] /\ phase'[p] = phase[p]
    BY <1>1 DEF WithOrderLock, TypeInv
<1>5. op \notin Waiting(l) /\ Waiting(l)' = Waiting(l) \cup {op}
    BY <1>4 DEF Waiting, WithOrderLock, Asks, Lane
<1>6. Cardinality(Waiting(l)') = n + 1
    <2>1. IsFiniteSet(Waiting(l)) /\ Cardinality(Waiting(l)) = n
        BY <1>1, WaitingFinite DEF QueueOf
    <2> HIDE DEF l, n
    <2> QED
        BY <1>5, <2>1, FS_AddElement
<1>7. \A i \in 1..n : q[i] \in Waiting(l) /\ q[i] \in Ops /\ q[i] # op
    BY <1>5 DEF QueueOf, Waiting
<1>8. \A p \in Ops : Settled(p) => p # op /\ Settled(p)'
    BY <1>4 DEF Settled, WithOrderLock, Asks
<1>9. \A i \in 1..(n + 1), k \in 1..(n + 1) : r[i] = r[k] => i = k
    BY <1>2, <1>3, <1>7 DEF QueueOf
<1>10. \A i \in 2..(n + 1) : prev'[r[i]] = r[i - 1] /\ phase'[r[i]] = "queued"
    <2> SUFFICES ASSUME NEW i \in 2..(n + 1) PROVE prev'[r[i]] = r[i - 1] /\ phase'[r[i]] = "queued"
        OBVIOUS
    <2>1. CASE i = n + 1
        BY <1>2, <1>3, <1>4, <2>1 DEF QueueOf
    <2>2. CASE i # n + 1
        <3>1. i \in 1..n /\ i \in 2..n /\ i - 1 \in 1..n
            BY <1>2, <2>2
        <3>2. prev[q[i]] = q[i - 1] /\ phase[q[i]] = "queued"
            BY <3>1 DEF QueueOf
        <3> QED
            BY <1>3, <1>4, <1>7, <3>1, <3>2
    <2> QED
        BY <2>1, <2>2
<1>11. prev'[r[1]] = NoOp \/ Settled(prev[r[1]])'
    <2>1. CASE n = 0
        BY <1>1, <1>3, <1>4, <1>8, <2>1 DEF QueueOf, TypeInv, Settled
    <2>2. CASE n > 0
        BY <1>2, <1>3, <1>4, <1>7, <1>8, <2>2 DEF QueueOf, TypeInv, Settled
    <2> QED
        BY <1>2, <2>1, <2>2
<1>12. \A p \in Waiting(l)' : \E i \in 1..(n + 1) : r[i] = p
    <2>1. \A p \in Waiting(l) : \E i \in 1..n : q[i] = p
        BY DEF QueueOf
    <2> QED
        BY <1>2, <1>3, <1>5, <2>1
<1>13. \A i \in 1..(n + 1) : r[i] \in Waiting(l)'
    BY <1>2, <1>3, <1>5, <1>7
<1> HIDE DEF r, n, l
<1>14. QueueOf(r, l)'
    BY <1>2, <1>3, <1>4, <1>6, <1>9, <1>10, <1>11, <1>12, <1>13 DEF QueueOf, l
<1> QED
    BY <1>14 DEF r, l

(* The head that settles leaves, and the one behind it is free to start.   *)
LEMMA Leaves ==
    ASSUME TypeInv, NEW op \in Ops, op \notin Unlocked, phase[op] = "running",
           phase' = [phase EXCEPT ![op] = "resolved"] \/ phase' = [phase EXCEPT ![op] = "rejected"],
           UNCHANGED <<opChains, prev>>, NEW q, QueueOf(q, Lane(op))
    PROVE q # << >> /\ Head(q) = op /\ QueueOf(Tail(q), Lane(op))'
<1> DEFINE l == Lane(op)
           n == Len(q)
           r == Tail(q)
<1>1. l \in Lanes /\ Lane(op)' = l
    BY LaneType DEF Lane
<1>2. q \in Seq(Ops) /\ n \in Nat
    BY LenProperties DEF QueueOf
<1>3. op \in Waiting(l)
    BY DEF Waiting
<1>4. PICK k \in 1..n : q[k] = op
    BY <1>3 DEF QueueOf
<1>5. k = 1 /\ n > 0 /\ q[1] = op
    BY <1>2, <1>4 DEF QueueOf
<1>6. q # << >> /\ Head(q) = op /\ r \in Seq(Ops) /\ Len(r) = n - 1 /\ \A i \in 1..(n - 1) : r[i] = q[i + 1]
    BY <1>2, <1>5, HeadTailProperties
<1>7. /\ phase'[op] \in {"resolved", "rejected"}
      /\ \A p \in Ops : p # op => phase'[p] = phase[p]
    BY DEF TypeInv
<1>8. Waiting(l)' = Waiting(l) \ {op}
    BY <1>7 DEF Waiting, Lane
<1>9. Cardinality(Waiting(l)') = n - 1
    <2>1. IsFiniteSet(Waiting(l)) /\ Cardinality(Waiting(l)) = n
        BY <1>1, WaitingFinite DEF QueueOf
    <2> HIDE DEF l, n
    <2> QED
        BY <1>3, <1>8, <2>1, FS_RemoveElement
<1>10. \A i \in 2..n : q[i] \in Waiting(l)' /\ q[i] \in Ops /\ q[i] # op
    BY <1>2, <1>5, <1>8 DEF QueueOf, Waiting
<1>11. \A i \in 1..(n - 1) : r[i] \in Waiting(l)'
    BY <1>2, <1>6, <1>10
<1>12. \A p \in Waiting(l)' : \E i \in 1..(n - 1) : r[i] = p
    <2> SUFFICES ASSUME NEW p \in Waiting(l)' PROVE \E i \in 1..(n - 1) : r[i] = p
        OBVIOUS
    <2>1. PICK i \in 1..n : q[i] = p
        BY <1>8 DEF QueueOf
    <2>2. i # 1
        BY <1>5, <1>8, <2>1
    <2>3. i - 1 \in 1..(n - 1) /\ r[i - 1] = q[i]
        BY <1>2, <1>6, <2>2
    <2> QED
        BY <2>1, <2>3
<1>13. \A i, j \in 1..(n - 1) : r[i] = r[j] => i = j
    BY <1>2, <1>6 DEF QueueOf
<1>14. \A i \in 2..(n - 1) : prev'[r[i]] = r[i - 1] /\ phase'[r[i]] = "queued"
    <2> SUFFICES ASSUME NEW i \in 2..(n - 1) PROVE prev'[r[i]] = r[i - 1] /\ phase'[r[i]] = "queued"
        OBVIOUS
    <2>1. i \in 2..n /\ i + 1 \in 2..n /\ i - 1 \in 1..(n - 1) /\ i \in 1..(n - 1)
        BY <1>2
    <2>2. r[i] = q[i + 1] /\ r[i - 1] = q[i]
        BY <1>6, <2>1
    <2>3. prev[q[i + 1]] = q[i] /\ phase[q[i + 1]] = "queued"
        <3>1. \A j \in 2..n : prev[q[j]] = q[j - 1] /\ phase[q[j]] = "queued"
            BY <1>2 DEF QueueOf
        <3>2. PICK j \in 2..n : j = i + 1 /\ j - 1 = i
            BY <2>1
        <3> QED
            BY <3>1, <3>2
    <2> QED
        BY <1>7, <1>10, <2>1, <2>2, <2>3
<1>15. n - 1 > 0 => r[n - 1] = opChains'[l]
    BY <1>2, <1>6 DEF QueueOf
<1>16. n - 1 > 0 => Settled(prev[r[1]])'
    <2> SUFFICES ASSUME n - 1 > 0 PROVE Settled(prev[r[1]])'
        OBVIOUS
    <2>1. r[1] = q[2] /\ prev[q[2]] = op
        BY <1>2, <1>5, <1>6 DEF QueueOf
    <2> QED
        BY <1>7, <2>1 DEF Settled
<1>17. n - 1 = 0 => Settled(opChains[l])'
    BY <1>2, <1>5, <1>7 DEF QueueOf, Settled
<1> HIDE DEF r, n, l
<1>18. QueueOf(r, l)'
    BY <1>2, <1>5, <1>6, <1>9, <1>11, <1>12, <1>13, <1>14, <1>15, <1>16, <1>17 DEF QueueOf, l
<1> QED
    BY <1>6, <1>18 DEF r, l

(* A queue stays as it is while nobody joins or leaves, though one that    *)
(* waits for nobody may start.                                             *)
LEMMA Stays ==
    ASSUME TypeInv, NEW l \in Lanes, NEW q, QueueOf(q, l),
           Waiting(l)' = Waiting(l), opChains'[l] = opChains[l],
           \A p \in Waiting(l) : prev'[p] = prev[p],
           \A p \in Waiting(l) : phase'[p] = phase[p] \/ prev[p] = NoOp \/ Settled(prev[p]),
           \A p \in Ops : Settled(p) => Settled(p)'
    PROVE QueueOf(q, l)'
<1>1. q \in Seq(Ops) /\ Len(q) \in Nat
    BY LenProperties DEF QueueOf
<1>2. \A i \in 1..Len(q) : q[i] \in Waiting(l) /\ q[i] \in Ops
    BY DEF QueueOf, Waiting
<1>3. ASSUME NEW i \in 2..Len(q) PROVE prev'[q[i]] = q[i - 1] /\ phase'[q[i]] = "queued"
    <2>1. prev[q[i]] = q[i - 1] /\ phase[q[i]] = "queued" /\ q[i] \in Waiting(l) /\ q[i - 1] \in Waiting(l)
        BY <1>1, <1>2 DEF QueueOf
    <2>2. q[i - 1] # NoOp /\ ~Settled(q[i - 1])
        BY <2>1, LockAssumption DEF Waiting, Settled
    <2> QED
        BY <2>1, <2>2
<1>4. Len(q) > 0 => prev'[q[1]] = NoOp \/ Settled(prev[q[1]])'
    BY <1>1, <1>2 DEF QueueOf, TypeInv, Settled
<1>5. Len(q) = 0 => opChains'[l] = NoOp \/ Settled(opChains[l])'
    BY <1>1 DEF QueueOf, TypeInv, Settled
<1> QED
    BY <1>1, <1>2, <1>3, <1>4, <1>5 DEF QueueOf

LEMMA QueueInit == Init => QueueInv
<1> SUFFICES ASSUME Init, NEW l \in Lanes PROVE QueueOf(<< >>, l)
    BY DEF QueueInv
<1>1. Waiting(l) = {} /\ opChains[l] = NoOp
    BY DEF Init, Waiting
<1>2. Cardinality(Waiting(l)) = 0
    BY <1>1, FS_EmptySet
<1>3. << >> \in Seq(Ops) /\ Len(<< >>) = 0
    OBVIOUS
<1> QED
    BY <1>1, <1>2, <1>3 DEF QueueOf

(* A step that starts or settles no locked operation and queues none keeps *)
(* every queue.                                                            *)
LEMMA AllStay ==
    ASSUME TypeInv, QueueInv, UNCHANGED <<opChains, prev>>,
           \A p \in Ops \ Unlocked :
               phase'[p] = phase[p] \/ (phase[p] = "idle" /\ phase'[p] = "read"),
           \A p \in Ops : Settled(p) => Settled(p)'
    PROVE /\ QueueInv'
          /\ \A l \in Lanes : Chain'[l] = Chain[l]
<1>1. ASSUME NEW l \in Lanes, NEW q, QueueOf(q, l) PROVE QueueOf(q, l)'
    <2>1. Waiting(l)' = Waiting(l)
        BY DEF Waiting, Lane
    <2>2. \A p \in Waiting(l) : phase'[p] = phase[p]
        BY DEF Waiting
    <2> QED
        BY <1>1, <2>1, <2>2, Stays
<1>2. ASSUME NEW l \in Lanes PROVE \E q : QueueOf(q, l) /\ QueueOf(q, l)'
    BY <1>1 DEF QueueInv
<1>3. ASSUME NEW l \in Lanes PROVE Chain'[l] = Chain[l]
    <2>1. PICK q : QueueOf(q, l) /\ QueueOf(q, l)'
        BY <1>2
    <2> QED
        BY <2>1, ChainIsQueue, NextChainIsQueue
<1> QED
    BY <1>2, <1>3 DEF QueueInv

LEMMA ChainMap == Chain = [l \in Lanes |-> Chain[l]]
BY DEF Chain

LEMMA NextChainMap == (Chain = [l \in Lanes |-> Chain[l]])'
BY ChainMap, PTL

LEMMA ExceptAt ==
    ASSUME NEW S, NEW c, NEW d, c = [s \in S |-> c[s]], d = [s \in S |-> d[s]],
           NEW k \in S, NEW v, d[k] = v, \A s \in S : s # k => d[s] = c[s]
    PROVE d = [c EXCEPT ![k] = v]
<1>1. DOMAIN c = S /\ DOMAIN d = S
    OBVIOUS
<1>2. [c EXCEPT ![k] = v] = [s \in S |-> IF s = k THEN v ELSE c[s]]
    BY <1>1
<1>3. \A s \in S : d[s] = IF s = k THEN v ELSE c[s]
    OBVIOUS
<1>4. [s \in S |-> d[s]] = [s \in S |-> IF s = k THEN v ELSE c[s]]
    BY <1>3
<1> QED
    BY <1>2, <1>4

LEMMA Unmoved ==
    ASSUME \A l \in Lanes : Chain'[l] = Chain[l] PROVE Chain' = Chain
<1>1. [l \in Lanes |-> Chain'[l]] = [l \in Lanes |-> Chain[l]]
    OBVIOUS
<1> QED
    BY <1>1, ChainMap, NextChainMap, Zenon

(* withOrderLock is Ask.                                                   *)
LEMMA AskStep ==
    ASSUME TypeInv, QueueInv, NEW op \in Ops, WithOrderLock(op)
    PROVE QueueInv' /\ Queues!Ask(op, Lane(op))
<1> DEFINE l == Lane(op)
<1>1. l \in Lanes
    BY LaneType
<1>2. /\ phase[op] \in {"idle", "read"} /\ phase'[op] = "queued" /\ op \in Ops \ Unlocked
      /\ \A p \in Ops : p # op => prev'[p] = prev[p] /\ phase'[p] = phase[p]
      /\ \A k \in Lanes : k # l => opChains'[k] = opChains[k]
    BY <1>1 DEF WithOrderLock, Asks, TypeInv
<1>3. PICK q : QueueOf(q, l)
    BY <1>1 DEF QueueInv
<1>4. QueueOf(Append(q, op), l)'
    <2>1. Lane(op)' = Lane(op)
        BY DEF Lane
    <2> QED
        BY <1>3, <2>1, Joins
<1>5. ASSUME NEW k \in Lanes, k # l, NEW r, QueueOf(r, k) PROVE QueueOf(r, k)'
    <2>1. Waiting(k)' = Waiting(k) /\ op \notin Waiting(k)
        BY <1>2, <1>5 DEF Waiting, Lane
    <2>2. \A p \in Waiting(k) : p \in Ops /\ p # op
        BY <2>1 DEF Waiting
    <2>3. \A p \in Ops : Settled(p) => Settled(p)'
        BY <1>2 DEF Settled
    <2> QED
        BY <1>2, <1>5, <2>1, <2>2, <2>3, Stays
<1>6. QueueInv'
    BY <1>4, <1>5 DEF QueueInv
<1>7. Chain'[l] = Append(Chain[l], op)
    BY <1>1, <1>3, <1>4, ChainIsQueue, NextChainIsQueue
<1>8. \A k \in Lanes : k # l => Chain'[k] = Chain[k]
    BY <1>5, ChainIsQueue, NextChainIsQueue DEF QueueInv
<1>9. Chain' = [Chain EXCEPT ![l] = Append(Chain[l], op)]
    <2> HIDE DEF l
    <2> QED
        BY <1>1, <1>7, <1>8, ChainMap, NextChainMap, ExceptAt
<1>10. {p \in Ops \ Unlocked : phase'[p] \notin {"idle", "read"}} = {p \in Ops \ Unlocked : phase[p] \notin {"idle", "read"}} \cup {op}
    BY <1>2
<1>11. {p \in Ops \ Unlocked : phase'[p] = "running"} = {p \in Ops \ Unlocked : phase[p] = "running"}
    BY <1>2
<1> QED
    BY <1>2, <1>6, <1>9, <1>10, <1>11 DEF Queues!Ask

(* fn starts when the operation before it has settled: it is the head.     *)
LEMMA BeginStep ==
    ASSUME TypeInv, QueueInv, NEW op \in Ops, op \notin Unlocked, Start(op)
    PROVE QueueInv' /\ Queues!Begin(Lane(op))
<1> DEFINE l == Lane(op)
<1>1. l \in Lanes
    BY LaneType
<1>2. /\ phase[op] = "queued" /\ phase'[op] = "running" /\ (prev[op] # NoOp => Settled(prev[op]))
      /\ \A p \in Ops : p # op => phase'[p] = phase[p]
      /\ UNCHANGED <<opChains, prev>>
    BY DEF Start, TypeInv
<1>3. \A p \in Ops : Settled(p) => Settled(p)'
    BY <1>2 DEF Settled
<1>4. ASSUME NEW k \in Lanes, NEW r, QueueOf(r, k) PROVE QueueOf(r, k)'
    <2>1. Waiting(k)' = Waiting(k)
        BY <1>2 DEF Waiting, Lane
    <2>2. \A p \in Waiting(k) : phase'[p] = phase[p] \/ prev[p] = NoOp \/ Settled(prev[p])
        BY <1>2 DEF Waiting
    <2> QED
        BY <1>2, <1>3, <1>4, <2>1, <2>2, Stays
<1>5. QueueInv'
    BY <1>4 DEF QueueInv
<1>6. \A k \in Lanes : Chain'[k] = Chain[k]
    BY <1>4, ChainIsQueue, NextChainIsQueue DEF QueueInv
<1>7. Chain' = Chain
    BY <1>6, Unmoved
<1>8. PICK q : QueueOf(q, l)
    BY <1>1 DEF QueueInv
<1>9. q # << >> /\ Head(q) = op
    <2>1. q \in Seq(Ops) /\ Len(q) \in Nat
        BY <1>8, LenProperties DEF QueueOf
    <2>2. op \in Waiting(l)
        BY <1>2 DEF Waiting
    <2>3. PICK k \in 1..Len(q) : q[k] = op
        BY <1>8, <2>2 DEF QueueOf
    <2>4. ASSUME k # 1 PROVE FALSE
        <3>1. k \in 2..Len(q) /\ k - 1 \in 1..Len(q)
            BY <2>1, <2>3, <2>4
        <3>2. prev[op] = q[k - 1] /\ q[k - 1] \in Waiting(l)
            BY <1>8, <2>3, <3>1 DEF QueueOf
        <3> QED
            BY <1>2, <3>2, LockAssumption DEF Waiting, Settled
    <2> QED
        BY <2>1, <2>3, <2>4
<1>10. Chain[l] # << >> /\ Head(Chain[l]) = op
    BY <1>1, <1>8, <1>9, ChainIsQueue
<1>11. {p \in Ops \ Unlocked : phase'[p] \notin {"idle", "read"}} = {p \in Ops \ Unlocked : phase[p] \notin {"idle", "read"}}
    BY <1>2
<1>12. /\ {p \in Ops \ Unlocked : phase'[p] = "running"}
            = {p \in Ops \ Unlocked : phase[p] = "running"} \cup {op}
       /\ op \notin {p \in Ops \ Unlocked : phase[p] = "running"}
    BY <1>2
<1> QED
    BY <1>5, <1>7, <1>10, <1>11, <1>12 DEF Queues!Begin

(* Resolved or rejected, the head settles.                                 *)
LEMMA SettleStep ==
    ASSUME TypeInv, QueueInv, NEW op \in Ops, op \notin Unlocked, Resolve(op) \/ Reject(op)
    PROVE QueueInv' /\ Queues!Settle(Lane(op))
<1> DEFINE l == Lane(op)
<1>1. l \in Lanes /\ Lane(op)' = Lane(op)
    BY LaneType DEF Lane
<1>2. /\ phase' = [phase EXCEPT ![op] = "resolved"] \/ phase' = [phase EXCEPT ![op] = "rejected"]
      /\ UNCHANGED <<opChains, prev>> /\ phase[op] = "running"
    BY DEF Resolve, Reject
<1>3. /\ phase'[op] \in {"resolved", "rejected"}
      /\ \A p \in Ops : p # op => phase'[p] = phase[p]
    BY <1>2 DEF TypeInv
<1>4. PICK q : QueueOf(q, l)
    BY <1>1 DEF QueueInv
<1>5. q # << >> /\ Head(q) = op /\ QueueOf(Tail(q), l)'
    BY <1>1, <1>2, <1>4, Leaves
<1>6. ASSUME NEW k \in Lanes, k # l, NEW r, QueueOf(r, k) PROVE QueueOf(r, k)'
    <2>1. Waiting(k)' = Waiting(k) /\ op \notin Waiting(k)
        BY <1>3, <1>6 DEF Waiting, Lane
    <2>2. \A p \in Waiting(k) : phase'[p] = phase[p]
        BY <1>3, <2>1 DEF Waiting
    <2>3. \A p \in Ops : Settled(p) => Settled(p)'
        BY <1>2, <1>3 DEF Settled
    <2> QED
        BY <1>2, <1>6, <2>1, <2>2, <2>3, Stays
<1>7. QueueInv'
    BY <1>5, <1>6 DEF QueueInv
<1>8. Chain[l] = q /\ Chain'[l] = Tail(Chain[l])
    BY <1>1, <1>4, <1>5, ChainIsQueue, NextChainIsQueue
<1>9. \A k \in Lanes : k # l => Chain'[k] = Chain[k]
    BY <1>6, ChainIsQueue, NextChainIsQueue DEF QueueInv
<1>10. Chain' = [Chain EXCEPT ![l] = Tail(Chain[l])]
    <2> HIDE DEF l
    <2> QED
        BY <1>1, <1>8, <1>9, ChainMap, NextChainMap, ExceptAt
<1>11. {p \in Ops \ Unlocked : phase'[p] \notin {"idle", "read"}} = {p \in Ops \ Unlocked : phase[p] \notin {"idle", "read"}}
    BY <1>2, <1>3
<1>12. /\ {p \in Ops \ Unlocked : phase'[p] = "running"}
            = {p \in Ops \ Unlocked : phase[p] = "running"} \ {op}
       /\ op \in {p \in Ops \ Unlocked : phase[p] = "running"}
    BY <1>2, <1>3
<1>13. Chain[l] # << >> /\ Head(Chain[l]) = op
    BY <1>5, <1>8
<1> QED
    BY <1>7, <1>10, <1>11, <1>12, <1>13 DEF Queues!Settle

(* Orders at the venues, and operations that take no lock, are stutters.   *)
LEMMA StutterStep ==
    ASSUME TypeInv, QueueInv, UNCHANGED <<opChains, prev>>,
           \A p \in Ops \ Unlocked :
               phase'[p] = phase[p] \/ (phase[p] = "idle" /\ phase'[p] = "read"),
           \A p \in Ops : Settled(p) => Settled(p)'
    PROVE QueueInv' /\ UNCHANGED Queues!vars
<1>1. QueueInv' /\ Chain' = Chain
    BY AllStay, Unmoved
<1>2. /\ {p \in Ops \ Unlocked : phase'[p] \notin {"idle", "read"}} = {p \in Ops \ Unlocked : phase[p] \notin {"idle", "read"}}
      /\ {p \in Ops \ Unlocked : phase'[p] = "running"} = {p \in Ops \ Unlocked : phase[p] = "running"}
    OBVIOUS
<1> QED
    BY <1>1, <1>2 DEF Queues!vars

LEMMA RefinesStep ==
    ASSUME TypeInv, QueueInv, [Next]_vars
    PROVE QueueInv' /\ [Queues!Next]_(Queues!vars)
<1>1. ASSUME NEW op \in Ops, WithOrderLock(op) PROVE QueueInv' /\ Queues!Next
    BY <1>1, AskStep, LaneType DEF Queues!Next
<1>2. ASSUME NEW op \in Ops, op \notin Unlocked, Start(op) PROVE QueueInv' /\ Queues!Next
    BY <1>2, BeginStep, LaneType DEF Queues!Next
<1>3. ASSUME NEW op \in Ops, op \notin Unlocked, Resolve(op) \/ Reject(op)
      PROVE QueueInv' /\ Queues!Next
    BY <1>3, SettleStep, LaneType DEF Queues!Next
<1>4. ASSUME NEW op \in Ops, op \in Unlocked,
             RunUnlocked(op) \/ Start(op) \/ Resolve(op) \/ Reject(op)
      PROVE QueueInv' /\ UNCHANGED Queues!vars
    <2>1. UNCHANGED <<opChains, prev>> /\ \A p \in Ops : p # op => phase'[p] = phase[p]
        BY <1>4 DEF RunUnlocked, Start, Resolve, Reject, TypeInv
    <2>2. ~Settled(op)
        BY <1>4 DEF RunUnlocked, Start, Resolve, Reject, Settled
    <2>3. \A p \in Ops \ Unlocked : phase'[p] = phase[p]
        BY <1>4, <2>1
    <2>4. \A p \in Ops : Settled(p) => Settled(p)'
        BY <2>1, <2>2 DEF Settled
    <2> QED
        BY <2>1, <2>3, <2>4, StutterStep
<1>5. ASSUME UNCHANGED <<opChains, prev, phase>> PROVE QueueInv' /\ UNCHANGED Queues!vars
    BY <1>5, StutterStep DEF Settled
<1>6. ASSUME NEW op \in Ops, Update(op) \/ \E l \in Lanes : PlaceAt(op, l)
      PROVE QueueInv' /\ UNCHANGED Queues!vars
    BY <1>5, <1>6 DEF Update, PlaceAt
<1>7. CASE UNCHANGED vars
    BY <1>5, <1>7 DEF vars
<1>8. ASSUME NEW op \in Ops, RunUnlocked(op) PROVE op \in Unlocked
    BY <1>8 DEF RunUnlocked
<1>10. ASSUME NEW op \in Ops, ReadEarly(op) PROVE QueueInv' /\ UNCHANGED Queues!vars
    <2>1. /\ UNCHANGED <<opChains, prev>> /\ phase[op] = "idle" /\ phase'[op] = "read"
          /\ \A p \in Ops : p # op => phase'[p] = phase[p]
        BY <1>10 DEF ReadEarly, TypeInv
    <2>2. \A p \in Ops : Settled(p) => Settled(p)'
        BY <2>1 DEF Settled
    <2> QED
        BY <2>1, <2>2, StutterStep
<1>9. CASE Next
    BY <1>1, <1>10, <1>2, <1>3, <1>4, <1>6, <1>8, <1>9 DEF Next, Await
<1> QED
    BY <1>7, <1>5, <1>9

LEMMA RefinesInit == ASSUME Init, QueueInv PROVE Queues!Init
<1>1. ASSUME NEW l \in Lanes PROVE Chain[l] = << >>
    <2>1. PICK q : QueueOf(q, l)
        BY DEF QueueInv
    <2>2. Waiting(l) = {}
        BY DEF Init, Waiting
    <2>3. Len(q) = 0 /\ q \in Seq(Ops)
        BY <2>1, <2>2, FS_EmptySet DEF QueueOf
    <2> QED
        BY <2>1, <2>3, ChainIsQueue
<1>2. Chain = [l \in Lanes |-> << >>]
    BY <1>1, ChainMap
<1>3. {op \in Ops \ Unlocked : phase[op] = "running"} = {}
    BY DEF Init
<1>4. {op \in Ops \ Unlocked : phase[op] \notin {"idle", "read"}} = {}
    BY DEF Init
<1> QED
    BY <1>2, <1>3, <1>4 DEF Queues!Init

(* The promise chains behave as one first-come first-served queue per      *)
(* exchange, whose head alone is at work and which moves on whichever way  *)
(* the head ends, for every set of operations and venues (order-lock.ts).  *)
THEOREM QueuesImplemented == Spec => ImplementsQueues
<1>1. Init => TypeInv /\ QueueInv /\ Queues!Init
    BY TypeInit, QueueInit, RefinesInit
<1>2. TypeInv /\ QueueInv /\ [Next]_vars
        => TypeInv' /\ QueueInv' /\ [Queues!Next]_(Queues!vars)
    BY TypeStep, RefinesStep
<1> QED
    BY <1>1, <1>2, PTL DEF Spec, ImplementsQueues, Queues!Spec

----------------------------------------------------------------------------
(***************************************************************************)
(* Proofs about the connection to the signal service, for every number of  *)
(* sockets, signals, calls and faults.                                     *)
(***************************************************************************)

(* Only the current socket is dialled or open: the ones let go are closing *)
(* down or gone, and a 'close' of the current one still reaches the client.*)
LinkInv ==
    /\ \A k \in Sockets :
        sock[k] \in {"connecting", "accepted", "stuck", "open", "hung"} => k = ws
    /\ ws # NoSocket =>
        /\ sock[ws] \notin {"free", "closing"}
        /\ sock[ws] # "closed" => ws \in attached

(* Nothing was sent before the first opening, an opening lies in the past, *)
(* and a socket asks for what was missed when it opens, not before.        *)
ReplayInv ==
    /\ last = 0 => sent = 0
    /\ last <= sent + 1
    /\ \A k \in Sockets : sock[k] \in {"connecting", "accepted"} => asked[k] = 0

----------------------------------------------------------------------------
(* Types.                                                                  *)
LEMMA ConnTypeInit == ConnInit => ConnTypeOK
<1> SUFFICES ASSUME ConnInit PROVE ConnTypeOK
    OBVIOUS
<1>1. ws \in Sockets \cup {NoSocket} /\ sock \in [Sockets -> SockState]
      /\ attached \subseteq Sockets
    BY ConnectionAssumption DEF ConnInit, SockState, ConfirmCount
<1>2. intentional \in BOOLEAN /\ reconnect \in BOOLEAN
      /\ connTimer \in BOOLEAN /\ watchdog \in BOOLEAN
    BY ConnectionAssumption DEF ConnInit, SockState, ConfirmCount
<1>3. conflict \in BOOLEAN
    BY ConnectionAssumption DEF ConnInit, SockState, ConfirmCount
<1>4. streak \in 0..ConfirmCount /\ window \in {"none", "fresh", "lapsed"}
    BY ConnectionAssumption DEF ConnInit, SockState, ConfirmCount
<1>5. last \in 0..MaxSignals + 1 /\ hub \in Sockets \cup {NoSocket} /\ sent \in 0..MaxSignals
    BY ConnectionAssumption DEF ConnInit, SockState, ConfirmCount
<1>6. mail \in [Sockets -> SUBSET (1..MaxSignals)] /\ asked \in [Sockets -> 0..MaxSignals + 1]
    BY ConnectionAssumption DEF ConnInit, SockState, ConfirmCount
<1>7. received \subseteq 1..MaxSignals
    BY ConnectionAssumption DEF ConnInit, SockState, ConfirmCount
<1>8. calls \in 0..MaxCalls
    BY ConnectionAssumption DEF ConnInit, SockState, ConfirmCount
<1>9. faults \in 0..MaxFaults
    BY ConnectionAssumption DEF ConnInit, SockState, ConfirmCount
<1>10. cut \in BOOLEAN
    BY ConnectionAssumption DEF ConnInit, SockState, ConfirmCount
<1> QED
    BY <1>1, <1>2, <1>3, <1>4, <1>5, <1>6, <1>7, <1>8, <1>9, <1>10 DEF ConnTypeOK, SockState,
       ConfirmCount

LEMMA ConnTypeStep == ASSUME ConnTypeOK, [ConnNext]_<<connVars, cut>> PROVE ConnTypeOK'
<1> USE ConnectionAssumption DEF ConnTypeOK, SockState, ConfirmCount, connVars, linkVars, timerVars, raceVars, mailVars
<1>0. cut' \in BOOLEAN
    <2>1. CASE UNCHANGED cut
        BY <2>1
    <2>2. CASE ConnNext
        BY <2>2, Zenon DEF ConnNext
    <2> QED
        BY <2>1, <2>2
<1>1. ASSUME Disconnect PROVE ConnTypeOK'
    <2>1. (ws \in Sockets \cup {NoSocket} /\ sock \in [Sockets -> SockState]
          /\ attached \subseteq Sockets)'
        BY <1>1, <1>0 DEF Disconnect, Current
    <2>2. (intentional \in BOOLEAN /\ reconnect \in BOOLEAN
          /\ connTimer \in BOOLEAN /\ watchdog \in BOOLEAN)'
        BY <1>1, <1>0 DEF Disconnect, Current
    <2>3. (conflict \in BOOLEAN)'
        BY <1>1, <1>0 DEF Disconnect, Current
    <2>4. (streak \in 0..ConfirmCount /\ window \in {"none", "fresh", "lapsed"})'
        BY <1>1, <1>0 DEF Disconnect, Current
    <2>5. (last \in 0..MaxSignals + 1 /\ hub \in Sockets \cup {NoSocket} /\ sent \in 0..MaxSignals)'
        BY <1>1, <1>0 DEF Disconnect, Current
    <2>6. (mail \in [Sockets -> SUBSET (1..MaxSignals)]
          /\ asked \in [Sockets -> 0..MaxSignals + 1])'
        BY <1>1, <1>0 DEF Disconnect, Current
    <2>7. (received \subseteq 1..MaxSignals)'
        BY <1>1, <1>0 DEF Disconnect, Current
    <2>8. (calls \in 0..MaxCalls)'
        BY <1>1, <1>0 DEF Disconnect, Current
    <2>9. (faults \in 0..MaxFaults)'
        BY <1>1, <1>0 DEF Disconnect, Current
    <2> QED
        BY <1>0, <2>1, <2>2, <2>3, <2>4, <2>5, <2>6, <2>7, <2>8, <2>9
<1>2. ASSUME HandshakeTimeout PROVE ConnTypeOK'
    <2>1. (ws \in Sockets \cup {NoSocket} /\ sock \in [Sockets -> SockState]
          /\ attached \subseteq Sockets)'
        BY <1>2, <1>0 DEF HandshakeTimeout, ForceReconnect, ScheduleReconnect, Detached,
           IsOpen, Fault
    <2>2. (intentional \in BOOLEAN /\ reconnect \in BOOLEAN
          /\ connTimer \in BOOLEAN /\ watchdog \in BOOLEAN)'
        BY <1>2, <1>0 DEF HandshakeTimeout, ForceReconnect, ScheduleReconnect, Detached,
           IsOpen, Fault
    <2>3. (conflict \in BOOLEAN)'
        BY <1>2, <1>0 DEF HandshakeTimeout, ForceReconnect, ScheduleReconnect, Detached,
           IsOpen, Fault
    <2>4. (streak \in 0..ConfirmCount /\ window \in {"none", "fresh", "lapsed"})'
        BY <1>2, <1>0 DEF HandshakeTimeout, ForceReconnect, ScheduleReconnect, Detached,
           IsOpen, Fault
    <2>5. (last \in 0..MaxSignals + 1 /\ hub \in Sockets \cup {NoSocket} /\ sent \in 0..MaxSignals)'
        BY <1>2, <1>0 DEF HandshakeTimeout, ForceReconnect, ScheduleReconnect, Detached,
           IsOpen, Fault
    <2>6. (mail \in [Sockets -> SUBSET (1..MaxSignals)]
          /\ asked \in [Sockets -> 0..MaxSignals + 1])'
        BY <1>2, <1>0 DEF HandshakeTimeout, ForceReconnect, ScheduleReconnect, Detached,
           IsOpen, Fault
    <2>7. (received \subseteq 1..MaxSignals)'
        BY <1>2, <1>0 DEF HandshakeTimeout, ForceReconnect, ScheduleReconnect, Detached,
           IsOpen, Fault
    <2>8. (calls \in 0..MaxCalls)'
        BY <1>2, <1>0 DEF HandshakeTimeout, ForceReconnect, ScheduleReconnect, Detached,
           IsOpen, Fault
    <2>9. (faults \in 0..MaxFaults)'
        BY <1>2, <1>0 DEF HandshakeTimeout, ForceReconnect, ScheduleReconnect, Detached,
           IsOpen, Fault
    <2> QED
        BY <1>0, <2>1, <2>2, <2>3, <2>4, <2>5, <2>6, <2>7, <2>8, <2>9
<1>3. ASSUME WatchdogFires PROVE ConnTypeOK'
    BY <1>3, <1>0 DEF WatchdogFires, ForceReconnect, ScheduleReconnect, Detached
<1>4. ASSUME WindowLapses PROVE ConnTypeOK'
    BY <1>4, <1>0 DEF WindowLapses
<1>5. ASSUME SendSignal PROVE ConnTypeOK'
    BY <1>5, <1>0 DEF SendSignal
<1>6. ASSUME NEW k \in Sockets, Connect(k) PROVE ConnTypeOK'
    <2>1. (ws \in Sockets \cup {NoSocket} /\ sock \in [Sockets -> SockState]
          /\ attached \subseteq Sockets)'
        BY <1>6, <1>0 DEF Connect, Dial, Drained, Detached
    <2>2. (intentional \in BOOLEAN /\ reconnect \in BOOLEAN
          /\ connTimer \in BOOLEAN /\ watchdog \in BOOLEAN)'
        BY <1>6, <1>0 DEF Connect, Dial, Drained, Detached
    <2>3. (conflict \in BOOLEAN)'
        BY <1>6, <1>0 DEF Connect, Dial, Drained, Detached
    <2>4. (streak \in 0..ConfirmCount /\ window \in {"none", "fresh", "lapsed"})'
        BY <1>6, <1>0 DEF Connect, Dial, Drained, Detached
    <2>5. (last \in 0..MaxSignals + 1 /\ hub \in Sockets \cup {NoSocket} /\ sent \in 0..MaxSignals)'
        BY <1>6, <1>0 DEF Connect, Dial, Drained, Detached
    <2>6. (mail \in [Sockets -> SUBSET (1..MaxSignals)]
          /\ asked \in [Sockets -> 0..MaxSignals + 1])'
        BY <1>6, <1>0 DEF Connect, Dial, Drained, Detached
    <2>7. (received \subseteq 1..MaxSignals)'
        BY <1>6, <1>0 DEF Connect, Dial, Drained, Detached
    <2>8. (calls \in 0..MaxCalls)'
        BY <1>6, <1>0 DEF Connect, Dial, Drained, Detached
    <2>9. (faults \in 0..MaxFaults)'
        BY <1>6, <1>0 DEF Connect, Dial, Drained, Detached
    <2> QED
        BY <1>0, <2>1, <2>2, <2>3, <2>4, <2>5, <2>6, <2>7, <2>8, <2>9
<1>7. ASSUME NEW k \in Sockets, Redial(k) PROVE ConnTypeOK'
    <2>1. (ws \in Sockets \cup {NoSocket} /\ sock \in [Sockets -> SockState]
          /\ attached \subseteq Sockets)'
        BY <1>7, <1>0 DEF Redial, Dial, Drained, Detached
    <2>2. (intentional \in BOOLEAN /\ reconnect \in BOOLEAN
          /\ connTimer \in BOOLEAN /\ watchdog \in BOOLEAN)'
        BY <1>7, <1>0 DEF Redial, Dial, Drained, Detached
    <2>3. (conflict \in BOOLEAN)'
        BY <1>7, <1>0 DEF Redial, Dial, Drained, Detached
    <2>4. (streak \in 0..ConfirmCount /\ window \in {"none", "fresh", "lapsed"})'
        BY <1>7, <1>0 DEF Redial, Dial, Drained, Detached
    <2>5. (last \in 0..MaxSignals + 1 /\ hub \in Sockets \cup {NoSocket} /\ sent \in 0..MaxSignals)'
        BY <1>7, <1>0 DEF Redial, Dial, Drained, Detached
    <2>6. (mail \in [Sockets -> SUBSET (1..MaxSignals)]
          /\ asked \in [Sockets -> 0..MaxSignals + 1])'
        BY <1>7, <1>0 DEF Redial, Dial, Drained, Detached
    <2>7. (received \subseteq 1..MaxSignals)'
        BY <1>7, <1>0 DEF Redial, Dial, Drained, Detached
    <2>8. (calls \in 0..MaxCalls)'
        BY <1>7, <1>0 DEF Redial, Dial, Drained, Detached
    <2>9. (faults \in 0..MaxFaults)'
        BY <1>7, <1>0 DEF Redial, Dial, Drained, Detached
    <2> QED
        BY <1>0, <2>1, <2>2, <2>3, <2>4, <2>5, <2>6, <2>7, <2>8, <2>9
<1>8. ASSUME NEW k \in Sockets, Accept(k) PROVE ConnTypeOK'
    BY <1>8, <1>0 DEF Accept
<1>9. ASSUME NEW k \in Sockets, OnOpen(k) PROVE ConnTypeOK'
    <2>1. (ws \in Sockets \cup {NoSocket} /\ sock \in [Sockets -> SockState]
          /\ attached \subseteq Sockets)'
        BY <1>9, <1>0 DEF OnOpen
    <2>2. (intentional \in BOOLEAN /\ reconnect \in BOOLEAN
          /\ connTimer \in BOOLEAN /\ watchdog \in BOOLEAN)'
        BY <1>9, <1>0 DEF OnOpen
    <2>3. (conflict \in BOOLEAN)'
        BY <1>9, <1>0 DEF OnOpen
    <2>4. (streak \in 0..ConfirmCount /\ window \in {"none", "fresh", "lapsed"})'
        BY <1>9, <1>0 DEF OnOpen
    <2>5. (last \in 0..MaxSignals + 1 /\ hub \in Sockets \cup {NoSocket} /\ sent \in 0..MaxSignals)'
        BY <1>9, <1>0 DEF OnOpen
    <2>6. (mail \in [Sockets -> SUBSET (1..MaxSignals)]
          /\ asked \in [Sockets -> 0..MaxSignals + 1])'
        BY <1>9, <1>0 DEF OnOpen
    <2>7. (received \subseteq 1..MaxSignals)'
        BY <1>9, <1>0 DEF OnOpen
    <2>8. (calls \in 0..MaxCalls)'
        BY <1>9, <1>0 DEF OnOpen
    <2>9. (faults \in 0..MaxFaults)'
        BY <1>9, <1>0 DEF OnOpen
    <2> QED
        BY <1>0, <2>1, <2>2, <2>3, <2>4, <2>5, <2>6, <2>7, <2>8, <2>9
<1>10. ASSUME NEW k \in Sockets, HandshakeRefused(k) PROVE ConnTypeOK'
    <2>1. (ws \in Sockets \cup {NoSocket} /\ sock \in [Sockets -> SockState]
          /\ attached \subseteq Sockets)'
        BY <1>10, <1>0 DEF HandshakeRefused, ForceReconnect, ScheduleReconnect, Detached,
           Current, Fault
    <2>2. (intentional \in BOOLEAN /\ reconnect \in BOOLEAN
          /\ connTimer \in BOOLEAN /\ watchdog \in BOOLEAN)'
        BY <1>10, <1>0 DEF HandshakeRefused, ForceReconnect, ScheduleReconnect, Detached,
           Current, Fault
    <2>3. (conflict \in BOOLEAN)'
        BY <1>10, <1>0 DEF HandshakeRefused, ForceReconnect, ScheduleReconnect, Detached,
           Current, Fault
    <2>4. (streak \in 0..ConfirmCount /\ window \in {"none", "fresh", "lapsed"})'
        BY <1>10, <1>0 DEF HandshakeRefused, ForceReconnect, ScheduleReconnect, Detached,
           Current, Fault
    <2>5. (last \in 0..MaxSignals + 1 /\ hub \in Sockets \cup {NoSocket} /\ sent \in 0..MaxSignals)'
        BY <1>10, <1>0 DEF HandshakeRefused, ForceReconnect, ScheduleReconnect, Detached,
           Current, Fault
    <2>6. (mail \in [Sockets -> SUBSET (1..MaxSignals)]
          /\ asked \in [Sockets -> 0..MaxSignals + 1])'
        BY <1>10, <1>0 DEF HandshakeRefused, ForceReconnect, ScheduleReconnect, Detached,
           Current, Fault
    <2>7. (received \subseteq 1..MaxSignals)'
        BY <1>10, <1>0 DEF HandshakeRefused, ForceReconnect, ScheduleReconnect, Detached,
           Current, Fault
    <2>8. (calls \in 0..MaxCalls)'
        BY <1>10, <1>0 DEF HandshakeRefused, ForceReconnect, ScheduleReconnect, Detached,
           Current, Fault
    <2>9. (faults \in 0..MaxFaults)'
        BY <1>10, <1>0 DEF HandshakeRefused, ForceReconnect, ScheduleReconnect, Detached,
           Current, Fault
    <2> QED
        BY <1>0, <2>1, <2>2, <2>3, <2>4, <2>5, <2>6, <2>7, <2>8, <2>9
<1>11. ASSUME NEW k \in Sockets, UpgradeRequired(k) PROVE ConnTypeOK'
    BY <1>11, <1>0 DEF UpgradeRequired
<1>12. ASSUME NEW k \in Sockets, NEW how \in {"dropped", "conflicted", "hung", "stuck"}, Lost(k, how)
      PROVE ConnTypeOK'
    BY <1>12, <1>0 DEF Lost, Fault
<1>13. ASSUME NEW k \in Sockets, CloseAnswered(k) PROVE ConnTypeOK'
    BY <1>13, <1>0 DEF CloseAnswered
<1>14. ASSUME NEW k \in Sockets, CloseEvent(k) PROVE ConnTypeOK'
    <2>1. (ws \in Sockets \cup {NoSocket} /\ sock \in [Sockets -> SockState]
          /\ attached \subseteq Sockets)'
        BY <1>14, <1>0 DEF CloseEvent, ScheduleReconnect, CountConflict, ConfirmCount, Current
    <2>2. (intentional \in BOOLEAN /\ reconnect \in BOOLEAN
          /\ connTimer \in BOOLEAN /\ watchdog \in BOOLEAN)'
        BY <1>14, <1>0 DEF CloseEvent, ScheduleReconnect, CountConflict, ConfirmCount, Current
    <2>3. (conflict \in BOOLEAN)'
        BY <1>14, <1>0 DEF CloseEvent, ScheduleReconnect, CountConflict, ConfirmCount, Current
    <2>4. (streak \in 0..ConfirmCount /\ window \in {"none", "fresh", "lapsed"})'
        BY <1>14, <1>0 DEF CloseEvent, ScheduleReconnect, CountConflict, ConfirmCount, Current
    <2>5. (last \in 0..MaxSignals + 1 /\ hub \in Sockets \cup {NoSocket} /\ sent \in 0..MaxSignals)'
        BY <1>14, <1>0 DEF CloseEvent, ScheduleReconnect, CountConflict, ConfirmCount, Current
    <2>6. (mail \in [Sockets -> SUBSET (1..MaxSignals)]
          /\ asked \in [Sockets -> 0..MaxSignals + 1])'
        BY <1>14, <1>0 DEF CloseEvent, ScheduleReconnect, CountConflict, ConfirmCount, Current
    <2>7. (received \subseteq 1..MaxSignals)'
        BY <1>14, <1>0 DEF CloseEvent, ScheduleReconnect, CountConflict, ConfirmCount, Current
    <2>8. (calls \in 0..MaxCalls)'
        BY <1>14, <1>0 DEF CloseEvent, ScheduleReconnect, CountConflict, ConfirmCount, Current
    <2>9. (faults \in 0..MaxFaults)'
        BY <1>14, <1>0 DEF CloseEvent, ScheduleReconnect, CountConflict, ConfirmCount, Current
    <2> QED
        BY <1>0, <2>1, <2>2, <2>3, <2>4, <2>5, <2>6, <2>7, <2>8, <2>9
<1>15. ASSUME NEW k \in Sockets, Replay(k) PROVE ConnTypeOK'
    BY <1>15, <1>0 DEF Replay
<1>16. ASSUME NEW k \in Sockets, OnMessage(k) PROVE ConnTypeOK'
    BY <1>16, <1>0 DEF OnMessage
<1>17. CASE UNCHANGED <<connVars, cut>>
    BY <1>17, <1>0
<1> QED
    BY <1>1, <1>2, <1>3, <1>4, <1>5, <1>6, <1>7, <1>8, <1>9, <1>10, <1>11, <1>12, <1>13, <1>14,
       <1>15, <1>16, <1>17 DEF ConnNext, Step, Drop

(* Links.                                                                  *)
LEMMA LinkInit == ConnInit => LinkInv
BY DEF ConnInit, LinkInv

LEMMA LinkStep == ASSUME ConnTypeOK, LinkInv, [ConnNext]_<<connVars, cut>> PROVE LinkInv'
<1> USE ConnectionAssumption DEF ConnTypeOK, LinkInv, connVars, linkVars, timerVars, raceVars, mailVars
<1>1. ASSUME Disconnect PROVE LinkInv'
    BY <1>1 DEF Disconnect, Current
<1>2. ASSUME HandshakeTimeout PROVE LinkInv'
    BY <1>2 DEF HandshakeTimeout, ForceReconnect, ScheduleReconnect, Detached, IsOpen, Fault
<1>3. ASSUME WatchdogFires PROVE LinkInv'
    BY <1>3 DEF WatchdogFires, ForceReconnect, ScheduleReconnect, Detached
<1>4. ASSUME WindowLapses PROVE LinkInv'
    BY <1>4 DEF WindowLapses
<1>5. ASSUME SendSignal PROVE LinkInv'
    BY <1>5 DEF SendSignal
<1>6. ASSUME NEW k \in Sockets, Connect(k) PROVE LinkInv'
    BY <1>6 DEF Connect, Dial, Drained, Detached
<1>7. ASSUME NEW k \in Sockets, Redial(k) PROVE LinkInv'
    BY <1>7 DEF Redial, Dial, Drained, Detached
<1>8. ASSUME NEW k \in Sockets, Accept(k) PROVE LinkInv'
    BY <1>8 DEF Accept
<1>9. ASSUME NEW k \in Sockets, OnOpen(k) PROVE LinkInv'
    BY <1>9 DEF OnOpen
<1>10. ASSUME NEW k \in Sockets, HandshakeRefused(k) PROVE LinkInv'
    BY <1>10 DEF HandshakeRefused, ForceReconnect, ScheduleReconnect, Detached, Current, Fault
<1>11. ASSUME NEW k \in Sockets, UpgradeRequired(k) PROVE LinkInv'
    BY <1>11 DEF UpgradeRequired
<1>12. ASSUME NEW k \in Sockets, NEW how \in {"dropped", "conflicted", "hung", "stuck"}, Lost(k, how)
      PROVE LinkInv'
    BY <1>12 DEF Lost, Fault
<1>13. ASSUME NEW k \in Sockets, CloseAnswered(k) PROVE LinkInv'
    BY <1>13 DEF CloseAnswered
<1>14. ASSUME NEW k \in Sockets, CloseEvent(k) PROVE LinkInv'
    BY <1>14 DEF CloseEvent, ScheduleReconnect, CountConflict, ConfirmCount, Current
<1>15. ASSUME NEW k \in Sockets, Replay(k) PROVE LinkInv'
    BY <1>15 DEF Replay
<1>16. ASSUME NEW k \in Sockets, OnMessage(k) PROVE LinkInv'
    BY <1>16 DEF OnMessage
<1>17. CASE UNCHANGED <<connVars, cut>>
    BY <1>17
<1> QED
    BY <1>1, <1>2, <1>3, <1>4, <1>5, <1>6, <1>7, <1>8, <1>9, <1>10, <1>11, <1>12, <1>13, <1>14,
       <1>15, <1>16, <1>17 DEF ConnNext, Step, Drop

(* A lost, refused or silent socket leaves a timer, a watchdog or an event. *)
LEMMA StrandedInit == ConnInit => NeverStranded
BY DEF ConnInit, NeverStranded

LEMMA StrandedStep ==
    ASSUME ConnTypeOK, LinkInv, NeverStranded, [ConnNext]_<<connVars, cut>> PROVE NeverStranded'
<1> USE ConnectionAssumption DEF ConnTypeOK, LinkInv, NeverStranded, Wakeable, Dialling, Watched, IsOpen,
                                 connVars, linkVars, timerVars, raceVars, mailVars
<1>1. ASSUME Disconnect PROVE NeverStranded'
    BY <1>1 DEF Disconnect, Current
<1>2. ASSUME HandshakeTimeout PROVE NeverStranded'
    BY <1>2 DEF HandshakeTimeout, ForceReconnect, ScheduleReconnect, Detached, IsOpen, Fault
<1>3. ASSUME WatchdogFires PROVE NeverStranded'
    BY <1>3 DEF WatchdogFires, ForceReconnect, ScheduleReconnect, Detached
<1>4. ASSUME WindowLapses PROVE NeverStranded'
    BY <1>4 DEF WindowLapses
<1>5. ASSUME SendSignal PROVE NeverStranded'
    BY <1>5 DEF SendSignal
<1>6. ASSUME NEW k \in Sockets, Connect(k) PROVE NeverStranded'
    BY <1>6 DEF Connect, Dial, Drained, Detached
<1>7. ASSUME NEW k \in Sockets, Redial(k) PROVE NeverStranded'
    BY <1>7 DEF Redial, Dial, Drained, Detached
<1>8. ASSUME NEW k \in Sockets, Accept(k) PROVE NeverStranded'
    BY <1>8 DEF Accept
<1>9. ASSUME NEW k \in Sockets, OnOpen(k) PROVE NeverStranded'
    BY <1>9 DEF OnOpen
<1>10. ASSUME NEW k \in Sockets, HandshakeRefused(k) PROVE NeverStranded'
    BY <1>10 DEF HandshakeRefused, ForceReconnect, ScheduleReconnect, Detached, Current, Fault
<1>11. ASSUME NEW k \in Sockets, UpgradeRequired(k) PROVE NeverStranded'
    BY <1>11 DEF UpgradeRequired
<1>12. ASSUME NEW k \in Sockets, NEW how \in {"dropped", "conflicted", "hung", "stuck"}, Lost(k, how)
      PROVE NeverStranded'
    BY <1>12 DEF Lost, Fault
<1>13. ASSUME NEW k \in Sockets, CloseAnswered(k) PROVE NeverStranded'
    BY <1>13 DEF CloseAnswered
<1>14. ASSUME NEW k \in Sockets, CloseEvent(k) PROVE NeverStranded'
    BY <1>14 DEF CloseEvent, ScheduleReconnect, CountConflict, ConfirmCount, Current
<1>15. ASSUME NEW k \in Sockets, Replay(k) PROVE NeverStranded'
    BY <1>15 DEF Replay
<1>16. ASSUME NEW k \in Sockets, OnMessage(k) PROVE NeverStranded'
    BY <1>16 DEF OnMessage
<1>17. CASE UNCHANGED <<connVars, cut>>
    BY <1>17
<1> QED
    BY <1>1, <1>2, <1>3, <1>4, <1>5, <1>6, <1>7, <1>8, <1>9, <1>10, <1>11, <1>12, <1>13, <1>14,
       <1>15, <1>16, <1>17 DEF ConnNext, Step, Drop

(* What was missed is asked for, or on its way.                            *)
LEMMA ReplayInit == ConnInit => ReplayInv
BY DEF ConnInit, ReplayInv

LEMMA ReplayStep == ASSUME ConnTypeOK, LinkInv, ReplayInv, [ConnNext]_<<connVars, cut>> PROVE ReplayInv'
<1> USE ConnectionAssumption DEF ConnTypeOK, ReplayInv, connVars, linkVars, timerVars, raceVars, mailVars
<1>1. ASSUME Disconnect PROVE ReplayInv'
    BY <1>1 DEF Disconnect, Current
<1>2. ASSUME HandshakeTimeout PROVE ReplayInv'
    BY <1>2 DEF HandshakeTimeout, ForceReconnect, ScheduleReconnect, Detached, IsOpen, Fault
<1>3. ASSUME WatchdogFires PROVE ReplayInv'
    BY <1>3 DEF WatchdogFires, ForceReconnect, ScheduleReconnect, Detached
<1>4. ASSUME WindowLapses PROVE ReplayInv'
    BY <1>4 DEF WindowLapses
<1>5. ASSUME SendSignal PROVE ReplayInv'
    BY <1>5 DEF SendSignal
<1>6. ASSUME NEW k \in Sockets, Connect(k) PROVE ReplayInv'
    BY <1>6 DEF Connect, Dial, Drained, Detached
<1>7. ASSUME NEW k \in Sockets, Redial(k) PROVE ReplayInv'
    BY <1>7 DEF Redial, Dial, Drained, Detached
<1>8. ASSUME NEW k \in Sockets, Accept(k) PROVE ReplayInv'
    BY <1>8 DEF Accept
<1>9. ASSUME NEW k \in Sockets, OnOpen(k) PROVE ReplayInv'
    BY <1>9 DEF OnOpen
<1>10. ASSUME NEW k \in Sockets, HandshakeRefused(k) PROVE ReplayInv'
    BY <1>10 DEF HandshakeRefused, ForceReconnect, ScheduleReconnect, Detached, Current, Fault
<1>11. ASSUME NEW k \in Sockets, UpgradeRequired(k) PROVE ReplayInv'
    BY <1>11 DEF UpgradeRequired
<1>12. ASSUME NEW k \in Sockets, NEW how \in {"dropped", "conflicted", "hung", "stuck"}, Lost(k, how)
      PROVE ReplayInv'
    BY <1>12 DEF Lost, Fault
<1>13. ASSUME NEW k \in Sockets, CloseAnswered(k) PROVE ReplayInv'
    BY <1>13 DEF CloseAnswered
<1>14. ASSUME NEW k \in Sockets, CloseEvent(k) PROVE ReplayInv'
    BY <1>14 DEF CloseEvent, ScheduleReconnect, CountConflict, ConfirmCount, Current
<1>15. ASSUME NEW k \in Sockets, Replay(k) PROVE ReplayInv'
    BY <1>15 DEF Replay
<1>16. ASSUME NEW k \in Sockets, OnMessage(k) PROVE ReplayInv'
    BY <1>16 DEF OnMessage
<1>17. CASE UNCHANGED <<connVars, cut>>
    BY <1>17
<1> QED
    BY <1>1, <1>2, <1>3, <1>4, <1>5, <1>6, <1>7, <1>8, <1>9, <1>10, <1>11, <1>12, <1>13, <1>14,
       <1>15, <1>16, <1>17 DEF ConnNext, Step, Drop

(* A step that takes no connection down keeps what is on its way, or hands *)
(* it over; a step that does cuts, if the connection still owed something. *)
Keeps(k) ==
    /\ sock'[k] \in {"accepted", "open"} /\ k \in attached'
    /\ mail[k] \subseteq mail'[k] \cup received'
    /\ asked'[k] = asked[k] \/ {i \in 1..sent : i >= asked[k]} \subseteq mail'[k]

Cuts == cut' = (cut \/ \E k \in Sockets : Owes(k) /\ sock'[k] \notin {"accepted", "open"})

LEMMA Kept ==
    ASSUME ConnTypeOK, NothingMissedUncut, Cuts,
           last' = last, sent' = sent, received \subseteq received',
           \A k \in attached : sock[k] \in {"accepted", "open"}
                                   => Keeps(k) \/ sock'[k] \notin {"accepted", "open"}
    PROVE  NothingMissedUncut'
<1> SUFFICES ASSUME ~cut', NEW i \in 1..sent, ~(i \in received'), ~(i >= last)
             PROVE OnItsWay(i)'
    BY DEF NothingMissedUncut, NothingMissed
<1>1. ~cut /\ \A k \in Sockets : Owes(k) => sock'[k] \in {"accepted", "open"}
    BY DEF Cuts
<1>2. OnItsWay(i)
    BY <1>1 DEF NothingMissedUncut, NothingMissed
<1>3. PICK k \in attached : /\ sock[k] \in {"accepted", "open"}
                            /\ i \in mail[k] \/ (asked[k] > 0 /\ i >= asked[k])
    BY <1>2 DEF OnItsWay
<1>4. Owes(k) /\ k \in Sockets
    BY <1>3 DEF Owes, ConnTypeOK
<1>5. Keeps(k)
    BY <1>1, <1>3, <1>4
<1> QED
    BY <1>3, <1>5 DEF Keeps, OnItsWay

LEMMA MissedInit == ConnInit => NothingMissedUncut
BY DEF ConnInit, NothingMissedUncut, NothingMissed

LEMMA MissedStep ==
    ASSUME ConnTypeOK, LinkInv, ReplayInv, NothingMissedUncut, [ConnNext]_<<connVars, cut>>
    PROVE  NothingMissedUncut'
<1> USE ConnectionAssumption DEF ConnTypeOK, connVars, linkVars, timerVars, raceVars, mailVars
<1>0. CASE ConnNext
    <2>0. Cuts
        BY <1>0 DEF ConnNext, Cuts
    <2>1. ASSUME Disconnect PROVE NothingMissedUncut'
        <3>1. last' = last /\ sent' = sent /\ received \subseteq received'
            BY <2>1 DEF Disconnect, Current
        <3>2. ASSUME NEW j \in attached, sock[j] \in {"accepted", "open"}, sock'[j] \in {"accepted", "open"}
              PROVE Keeps(j)
            BY <2>1, <3>2 DEF Disconnect, Current, Keeps
        <3> QED
            BY <2>0, <3>1, <3>2, Kept
    <2>2. ASSUME HandshakeTimeout PROVE NothingMissedUncut'
        <3>1. last' = last /\ sent' = sent /\ received \subseteq received'
            BY <2>2 DEF HandshakeTimeout, ForceReconnect, ScheduleReconnect, Detached, IsOpen, Fault
        <3>2. ASSUME NEW j \in attached, sock[j] \in {"accepted", "open"}, sock'[j] \in {"accepted", "open"}
              PROVE Keeps(j)
            BY <2>2, <3>2 DEF HandshakeTimeout, ForceReconnect, ScheduleReconnect, Detached,
               IsOpen, Fault, Keeps
        <3> QED
            BY <2>0, <3>1, <3>2, Kept
    <2>3. ASSUME WatchdogFires PROVE NothingMissedUncut'
        <3>1. last' = last /\ sent' = sent /\ received \subseteq received'
            BY <2>3 DEF WatchdogFires, ForceReconnect, ScheduleReconnect, Detached
        <3>2. ASSUME NEW j \in attached, sock[j] \in {"accepted", "open"}, sock'[j] \in {"accepted", "open"}
              PROVE Keeps(j)
            BY <2>3, <3>2 DEF WatchdogFires, ForceReconnect, ScheduleReconnect, Detached, Keeps
        <3> QED
            BY <2>0, <3>1, <3>2, Kept
    <2>4. ASSUME WindowLapses PROVE NothingMissedUncut'
        <3>1. last' = last /\ sent' = sent /\ received \subseteq received'
            BY <2>4 DEF WindowLapses
        <3>2. ASSUME NEW j \in attached, sock[j] \in {"accepted", "open"}, sock'[j] \in {"accepted", "open"}
              PROVE Keeps(j)
            BY <2>4, <3>2 DEF WindowLapses, Keeps
        <3> QED
            BY <2>0, <3>1, <3>2, Kept
    <2>5. ASSUME SendSignal PROVE NothingMissedUncut'
        <3> SUFFICES ASSUME ~cut', NEW i \in 1..sent + 1, ~(i \in received), ~(i >= last)
                     PROVE OnItsWay(i)'
            BY <2>5 DEF SendSignal, NothingMissedUncut, NothingMissed
        <3>1. i \in 1..sent /\ ~cut
            BY <2>0 DEF Cuts, ReplayInv
        <3>2. OnItsWay(i)
            BY <3>1 DEF NothingMissedUncut, NothingMissed
        <3> QED
            BY <2>5, <3>2 DEF OnItsWay, SendSignal
    <2>6. ASSUME NEW k \in Sockets, Connect(k) PROVE NothingMissedUncut'
        <3>1. last' = last /\ sent' = sent /\ received \subseteq received'
            BY <2>6 DEF Connect, Dial, Drained, Detached
        <3>2. ASSUME NEW j \in attached, sock[j] \in {"accepted", "open"}, sock'[j] \in {"accepted", "open"}
              PROVE Keeps(j)
            BY <2>6, <3>2 DEF Connect, Dial, Drained, Detached, Keeps
        <3> QED
            BY <2>0, <3>1, <3>2, Kept
    <2>7. ASSUME NEW k \in Sockets, Redial(k) PROVE NothingMissedUncut'
        <3>1. last' = last /\ sent' = sent /\ received \subseteq received'
            BY <2>7 DEF Redial, Dial, Drained, Detached
        <3>2. ASSUME NEW j \in attached, sock[j] \in {"accepted", "open"}, sock'[j] \in {"accepted", "open"}
              PROVE Keeps(j)
            BY <2>7, <3>2 DEF Redial, Dial, Drained, Detached, Keeps
        <3> QED
            BY <2>0, <3>1, <3>2, Kept
    <2>8. ASSUME NEW k \in Sockets, Accept(k) PROVE NothingMissedUncut'
        <3>1. last' = last /\ sent' = sent /\ received \subseteq received'
            BY <2>8 DEF Accept
        <3>2. ASSUME NEW j \in attached, sock[j] \in {"accepted", "open"}, sock'[j] \in {"accepted", "open"}
              PROVE Keeps(j)
            BY <2>8, <3>2 DEF Accept, Keeps
        <3> QED
            BY <2>0, <3>1, <3>2, Kept
    <2>9. ASSUME NEW k \in Sockets, OnOpen(k) PROVE NothingMissedUncut'
        <3> SUFFICES ASSUME ~cut', NEW i \in 1..sent, ~(i \in received)
                     PROVE OnItsWay(i)'
            BY <2>9 DEF OnOpen, NothingMissedUncut, NothingMissed
        <3>1. k = ws /\ ~cut /\ last > 0
            BY <2>0, <2>9 DEF Cuts, ReplayInv, LinkInv, OnOpen
        <3>2. k \in attached' /\ sock'[k] = "open" /\ asked'[k] = last /\ mail'[k] = mail[k]
            BY <2>9 DEF OnOpen
        <3>3. CASE i >= last
            BY <3>1, <3>2, <3>3 DEF OnItsWay
        <3>4. CASE ~(i >= last)
            <4>1. PICK j \in attached : /\ sock[j] \in {"accepted", "open"}
                                        /\ i \in mail[j] \/ (asked[j] > 0 /\ i >= asked[j])
                BY <3>1, <3>4 DEF NothingMissedUncut, NothingMissed, OnItsWay
            <4>2. j = k /\ asked[k] = 0
                BY <2>9, <3>1, <4>1 DEF LinkInv, ReplayInv, OnOpen
            <4> QED
                BY <3>2, <4>1, <4>2 DEF OnItsWay
        <3> QED
            BY <3>3, <3>4
    <2>10. ASSUME NEW k \in Sockets, HandshakeRefused(k) PROVE NothingMissedUncut'
        <3>1. last' = last /\ sent' = sent /\ received \subseteq received'
            BY <2>10 DEF HandshakeRefused, ForceReconnect, ScheduleReconnect, Detached,
               Current, Fault
        <3>2. ASSUME NEW j \in attached, sock[j] \in {"accepted", "open"}, sock'[j] \in {"accepted", "open"}
              PROVE Keeps(j)
            BY <2>10, <3>2 DEF HandshakeRefused, ForceReconnect, ScheduleReconnect, Detached,
               Current, Fault, Keeps
        <3> QED
            BY <2>0, <3>1, <3>2, Kept
    <2>11. ASSUME NEW k \in Sockets, UpgradeRequired(k) PROVE NothingMissedUncut'
        <3>1. last' = last /\ sent' = sent /\ received \subseteq received'
            BY <2>11 DEF UpgradeRequired
        <3>2. ASSUME NEW j \in attached, sock[j] \in {"accepted", "open"}, sock'[j] \in {"accepted", "open"}
              PROVE Keeps(j)
            BY <2>11, <3>2 DEF UpgradeRequired, Keeps
        <3> QED
            BY <2>0, <3>1, <3>2, Kept
    <2>12. ASSUME NEW k \in Sockets, NEW how \in {"dropped", "conflicted", "hung", "stuck"}, Lost(k, how)
          PROVE NothingMissedUncut'
        <3>1. last' = last /\ sent' = sent /\ received \subseteq received'
            BY <2>12 DEF Lost, Fault
        <3>2. ASSUME NEW j \in attached, sock[j] \in {"accepted", "open"}, sock'[j] \in {"accepted", "open"}
              PROVE Keeps(j)
            BY <2>12, <3>2 DEF Lost, Fault, Keeps
        <3> QED
            BY <2>0, <3>1, <3>2, Kept
    <2>13. ASSUME NEW k \in Sockets, CloseAnswered(k) PROVE NothingMissedUncut'
        <3>1. last' = last /\ sent' = sent /\ received \subseteq received'
            BY <2>13 DEF CloseAnswered
        <3>2. ASSUME NEW j \in attached, sock[j] \in {"accepted", "open"}, sock'[j] \in {"accepted", "open"}
              PROVE Keeps(j)
            BY <2>13, <3>2 DEF CloseAnswered, Keeps
        <3> QED
            BY <2>0, <3>1, <3>2, Kept
    <2>14. ASSUME NEW k \in Sockets, CloseEvent(k) PROVE NothingMissedUncut'
        <3>1. last' = last /\ sent' = sent /\ received \subseteq received'
            BY <2>14 DEF CloseEvent, ScheduleReconnect, CountConflict, ConfirmCount, Current
        <3>2. ASSUME NEW j \in attached, sock[j] \in {"accepted", "open"}, sock'[j] \in {"accepted", "open"}
              PROVE Keeps(j)
            BY <2>14, <3>2 DEF CloseEvent, ScheduleReconnect, CountConflict, ConfirmCount,
               Current, Keeps
        <3> QED
            BY <2>0, <3>1, <3>2, Kept
    <2>15. ASSUME NEW k \in Sockets, Replay(k) PROVE NothingMissedUncut'
        <3>1. last' = last /\ sent' = sent /\ received \subseteq received'
            BY <2>15 DEF Replay
        <3>2. ASSUME NEW j \in attached, sock[j] \in {"accepted", "open"}, sock'[j] \in {"accepted", "open"}
              PROVE Keeps(j)
            BY <2>15, <3>2 DEF Replay, Keeps
        <3> QED
            BY <2>0, <3>1, <3>2, Kept
    <2>16. ASSUME NEW k \in Sockets, OnMessage(k) PROVE NothingMissedUncut'
        <3>1. last' = last /\ sent' = sent /\ received \subseteq received'
            BY <2>16 DEF OnMessage
        <3>2. ASSUME NEW j \in attached, sock[j] \in {"accepted", "open"}, sock'[j] \in {"accepted", "open"}
              PROVE Keeps(j)
            BY <2>16, <3>2 DEF OnMessage, Keeps
        <3> QED
            BY <2>0, <3>1, <3>2, Kept
    <2> QED
        BY <1>0, <2>1, <2>2, <2>3, <2>4, <2>5, <2>6, <2>7, <2>8, <2>9, <2>10, <2>11, <2>12,
           <2>13, <2>14, <2>15, <2>16 DEF ConnNext, Step, Drop
<1>1. CASE UNCHANGED <<connVars, cut>>
    BY <1>1 DEF NothingMissedUncut, NothingMissed, OnItsWay
<1> QED
    BY <1>0, <1>1

----------------------------------------------------------------------------
(* The types hold in every state of the connection.                        *)
THEOREM ConnTypeCorrect == ConnSpec => []ConnTypeOK
<1>1. ConnTypeOK /\ [ConnNext]_<<connVars, cut>> => ConnTypeOK'
    BY ConnTypeStep
<1> QED
    BY <1>1, ConnTypeInit, PTL DEF ConnSpec

(* A client told to connect always has a timer, a watchdog or an event left *)
(* that leads to the next dial, and a signal sent out during an outage is  *)
(* handled, on its way or still to be asked for, as long as no connection  *)
(* ended before its replay was through (signal-client.ts, connect).        *)
THEOREM LeftBehind == ConnSpec => []NeverLeftBehind
<1> DEFINE Whole == ConnTypeOK /\ LinkInv /\ NeverStranded /\ ReplayInv /\ NothingMissedUncut
<1>1. ConnInit => Whole
    BY ConnTypeInit, LinkInit, StrandedInit, ReplayInit, MissedInit
<1>2. Whole /\ [ConnNext]_<<connVars, cut>> => Whole'
    BY ConnTypeStep, LinkStep, StrandedStep, ReplayStep, MissedStep
<1>3. Whole => NeverLeftBehind
    BY DEF NeverLeftBehind
<1> QED
    BY <1>1, <1>2, <1>3, PTL DEF ConnSpec

----------------------------------------------------------------------------
(* Proofs about EntrySettlement for every set of signals and every entry   *)
(* size. CoreInv holds of every venue; TrackInv needs a venue whose final  *)
(* answers are final and show their part fills; BookInv needs that nothing *)
(* throws once a fill was booked.                                          *)

Unsettled == {"send", "reply", "poll", "cancel", "poll2"}

\* The lock: its holder has a seeded execution and no settlement row yet, and
\* has not been to the venue before it sends.
LockInv ==
    /\ pc = "idle" <=> holder = NoSignal
    /\ \A s \in Signals : holder = s =>
         /\ exec[s].status # "none"
         /\ row[s].status = "none"
         /\ pc = "send" => placed[s] = 0
         /\ pc = "tail" => fill[s] > 0

\* A signal's order exists only once it was seeded and placed.
OrderInv ==
    \A s \in Signals :
        /\ exec[s].status = "none" => placed[s] = 0 /\ row[s].status = "none"
        /\ placed[s] = 0 => ord[s] = "none"
        /\ placed[s] <= 1
        /\ ord[s] \in {"none", "inflight", "rejected"} => fill[s] = 0
        /\ ord[s] = "filled" => fill[s] > 0

AckInv == \A s \in Signals : server[s] = "executed" => fill[s] > 0

CoreInv == EntryTypeOK /\ LockInv /\ OrderInv /\ AckInv

\* What the venue may still make of the order.
Potential(s) == IF ord[s] \in {"inflight", "working"} THEN Qty ELSE fill[s]

\* What the venue may still fill is booked or chased; only a row old enough to
\* be given up on as absent knows that nothing is on the wire.
TrackInv ==
    \A s \in Signals :
        /\ exec[s].opened >= Potential(s) \/ row[s].status \in {"unknown", "lost"}
        /\ holder = s /\ pc \in Unsettled => exec[s].opened = Qty
        /\ Unresolved(s) /\ age[s] >= 1 => ord[s] # "inflight"

\* Where nothing throws behind the booking, a signal's fill is booked by the
\* handler or by the resolver, never by both.
BookInv ==
    \A s \in Signals \ Throwing :
        /\ fills[s] <= fill[s]
        /\ exec[s].status = "none" => fills[s] = 0
        /\ holder = s /\ pc \in Unsettled => fills[s] = 0
        /\ Unresolved(s) => fills[s] = 0

\* Terminal answers are final and a killed order shows its part fill as such.
CleanVenue == PartialState = "partially_filled" /\ LivePartial = FALSE

(* Every step keeps every table, handler state and venue order in its type. *)
LEMMA EntryTypeInit == EntryInit => EntryTypeOK
  BY QtyAssumption DEF EntryInit, EntryTypeOK, SigStatus, RowStatus, OrdState, Pc, NoRow

(* Types are kept by every step of the system. *)
LEMMA EntryTypeStep ==
  ASSUME EntryTypeOK, [EntryNext]_entryVars
  PROVE  EntryTypeOK'
<1>1. ASSUME NEW s \in Signals, BookEntry(s) PROVE EntryTypeOK'
  BY <1>1, QtyAssumption, SignalsAssumption
     DEF EntryTypeOK, SigStatus, RowStatus, OrdState, Pc, NoRow, BookEntry, entryVars,
     dbVars, handlerVars, venueVars
<1>2. ASSUME NEW s \in Signals, RejectEntry(s) PROVE EntryTypeOK'
  BY <1>2, QtyAssumption, SignalsAssumption
     DEF EntryTypeOK, SigStatus, RowStatus, OrdState, Pc, NoRow, RejectEntry, Ack,
     Release, entryVars, dbVars, handlerVars, venueVars
<1>3. ASSUME NEW s \in Signals, TimeoutEntry(s) PROVE EntryTypeOK'
  BY <1>3, QtyAssumption, SignalsAssumption
     DEF EntryTypeOK, SigStatus, RowStatus, OrdState, Pc, NoRow, TimeoutEntry,
     Release, entryVars, dbVars, handlerVars, venueVars
<1>4. ASSUME NEW s \in Signals, FailEntry(s) PROVE EntryTypeOK'
  BY <1>4, QtyAssumption, SignalsAssumption
     DEF EntryTypeOK, SigStatus, RowStatus, OrdState, Pc, NoRow, FailEntry, Ack,
     Release, entryVars, dbVars, handlerVars, venueVars
<1>5. ASSUME NEW s \in Signals, PlaceThrows(s) \/ ReplyFilled(s) \/ ReplyRejected(s) \/ PollTerminal(s)
                  \/ SettleTimeout(s) \/ TailThrow(s) PROVE EntryTypeOK'
  BY <1>5, <1>1, <1>2, <1>3, <1>4
     DEF PlaceThrows, ReplyFilled, ReplyRejected, PollTerminal, SettleTimeout,
        TailThrow
<1>6. ASSUME NEW s \in Signals, Deliver(s) PROVE EntryTypeOK'
  BY <1>6, QtyAssumption, SignalsAssumption
     DEF EntryTypeOK, SigStatus, RowStatus, OrdState, Pc, NoRow, Deliver, entryVars,
     dbVars, handlerVars, venueVars
<1>7. ASSUME NEW s \in Signals, GoStale(s) PROVE EntryTypeOK'
  BY <1>7, QtyAssumption, SignalsAssumption
     DEF EntryTypeOK, SigStatus, RowStatus, OrdState, Pc, NoRow, GoStale, entryVars,
     dbVars, handlerVars, venueVars
<1>8. ASSUME NEW s \in Signals, StaleReplay(s) PROVE EntryTypeOK'
  BY <1>8, QtyAssumption, SignalsAssumption
     DEF EntryTypeOK, SigStatus, RowStatus, OrdState, Pc, NoRow, StaleReplay, Ack,
     entryVars, dbVars, handlerVars, venueVars
<1>9. ASSUME NEW s \in Signals, RefuseOpen(s) PROVE EntryTypeOK'
  BY <1>9, QtyAssumption, SignalsAssumption
     DEF EntryTypeOK, SigStatus, RowStatus, OrdState, Pc, NoRow, RefuseOpen,
     TakeNext, Ack, entryVars, dbVars, handlerVars, venueVars
<1>10. ASSUME NEW s \in Signals, DuplicateOpen(s) PROVE EntryTypeOK'
  BY <1>10, QtyAssumption, SignalsAssumption
     DEF EntryTypeOK, SigStatus, RowStatus, OrdState, Pc, NoRow, DuplicateOpen,
     TakeNext, entryVars, dbVars, handlerVars, venueVars
<1>11. ASSUME NEW s \in Signals, SeedOpen(s) PROVE EntryTypeOK'
  BY <1>11, QtyAssumption, SignalsAssumption
     DEF EntryTypeOK, SigStatus, RowStatus, OrdState, Pc, NoRow, SeedOpen, TakeNext,
     entryVars, dbVars, handlerVars, venueVars
<1>12. ASSUME NEW s \in Signals, SendOrder(s) PROVE EntryTypeOK'
  BY <1>12, QtyAssumption, SignalsAssumption
     DEF EntryTypeOK, SigStatus, RowStatus, OrdState, Pc, NoRow, SendOrder, entryVars,
     dbVars, handlerVars, venueVars
<1>13. ASSUME NEW s \in Signals, ReplyPending(s) PROVE EntryTypeOK'
  BY <1>13, QtyAssumption, SignalsAssumption
     DEF EntryTypeOK, SigStatus, RowStatus, OrdState, Pc, NoRow, ReplyPending, entryVars,
     dbVars, handlerVars, venueVars
<1>14. ASSUME NEW s \in Signals, PollTimeout(s) PROVE EntryTypeOK'
  BY <1>14, QtyAssumption, SignalsAssumption
     DEF EntryTypeOK, SigStatus, RowStatus, OrdState, Pc, NoRow, PollTimeout, entryVars,
     dbVars, handlerVars, venueVars
<1>15. ASSUME NEW s \in Signals, CancelOrder(s) PROVE EntryTypeOK'
  BY <1>15, QtyAssumption, SignalsAssumption
     DEF EntryTypeOK, SigStatus, RowStatus, OrdState, Pc, NoRow, CancelOrder, entryVars,
     dbVars, handlerVars, venueVars
<1>16. ASSUME NEW s \in Signals, FinishEntry(s) PROVE EntryTypeOK'
  BY <1>16, QtyAssumption, SignalsAssumption
     DEF EntryTypeOK, SigStatus, RowStatus, OrdState, Pc, NoRow, FinishEntry, Ack,
     Release, entryVars, dbVars, handlerVars, venueVars
<1>17. ASSUME NEW s \in Signals, ResolveAbsent(s) PROVE EntryTypeOK'
  <2>1. /\ row' = [row EXCEPT ![s].status = "rejected"]
        /\ age' = [age EXCEPT ![s] = 0]
        /\ UNCHANGED <<sig, exec, fills, server, holder, pc, inbox, stale, placed, ord, fill>>
    BY <1>17 DEF ResolveAbsent, ResolveAs, handlerVars, venueVars
  <2>2. row' \in [Signals -> [status : RowStatus, attempt : BOOLEAN]]
    BY <2>1 DEF EntryTypeOK, RowStatus
  <2>. QED
    BY <2>1, <2>2 DEF EntryTypeOK
<1>18. ASSUME NEW s \in Signals, ResolveLost(s) PROVE EntryTypeOK'
  <2>1. /\ row' = [row EXCEPT ![s].status = "lost"]
        /\ age' = [age EXCEPT ![s] = 0]
        /\ UNCHANGED <<sig, exec, fills, server, holder, pc, inbox, stale, placed, ord, fill>>
    BY <1>18 DEF ResolveLost, ResolveAs, handlerVars, venueVars
  <2>2. row' \in [Signals -> [status : RowStatus, attempt : BOOLEAN]]
    BY <2>1 DEF EntryTypeOK, RowStatus
  <2>. QED
    BY <2>1, <2>2 DEF EntryTypeOK
<1>19. ASSUME NEW s \in Signals, VenueAccept(s) PROVE EntryTypeOK'
  BY <1>19, QtyAssumption, SignalsAssumption
     DEF EntryTypeOK, SigStatus, RowStatus, OrdState, Pc, NoRow, VenueAccept, entryVars,
     dbVars, handlerVars, venueVars
<1>20. ASSUME NEW s \in Signals, VenueDrop(s) PROVE EntryTypeOK'
  BY <1>20, QtyAssumption, SignalsAssumption
     DEF EntryTypeOK, SigStatus, RowStatus, OrdState, Pc, NoRow, VenueDrop, entryVars,
     dbVars, handlerVars, venueVars
<1>21. ASSUME NEW s \in Signals, VenueFill(s) PROVE EntryTypeOK'
  BY <1>21, QtyAssumption, SignalsAssumption
     DEF EntryTypeOK, SigStatus, RowStatus, OrdState, Pc, NoRow, VenueFill, entryVars,
     dbVars, handlerVars, venueVars
<1>22. ASSUME NEW s \in Signals, VenueCancel(s) PROVE EntryTypeOK'
  BY <1>22, QtyAssumption, SignalsAssumption
     DEF EntryTypeOK, SigStatus, RowStatus, OrdState, Pc, NoRow, VenueCancel, entryVars,
     dbVars, handlerVars, venueVars
<1>23. ASSUME NEW s \in Signals, Age(s) PROVE EntryTypeOK'
  BY <1>23, QtyAssumption, SignalsAssumption
     DEF EntryTypeOK, SigStatus, RowStatus, OrdState, Pc, NoRow, Age, Unresolved,
     entryVars, dbVars, handlerVars, venueVars
<1>24. ASSUME NEW s \in Signals, ResolveFilled(s) PROVE EntryTypeOK'
  <2>1. row' = [row EXCEPT ![s].status = "filled"]
    BY <1>24 DEF ResolveFilled, ResolveAs
  <2>2. /\ exec'  = [exec EXCEPT ![s] = [status |-> "open", opened |-> fill[s]]]
        /\ fills' = [fills EXCEPT ![s] = @ + fill[s]]
        /\ sig'   = [sig EXCEPT ![s] = "executed"]
        /\ server' \in {server, [server EXCEPT ![s] = "executed"]}
        /\ age' = [age EXCEPT ![s] = 0]
        /\ UNCHANGED <<holder, pc, inbox, stale, placed, ord, fill>>
    BY <1>24 DEF ResolveFilled, ResolveAs, Ack, handlerVars, venueVars
  <2>3. row' \in [Signals -> [status : RowStatus, attempt : BOOLEAN]]
    BY <2>1 DEF EntryTypeOK, RowStatus
  <2>4. exec' \in [Signals -> [status : {"none", "open", "error"}, opened : 0..Qty]]
    BY <2>2, QtyAssumption DEF EntryTypeOK
  <2>5. fills' \in [Signals -> Nat]
    BY <2>2, QtyAssumption DEF EntryTypeOK
  <2>6. sig' \in [Signals -> SigStatus] /\ server' \in [Signals -> {"none", "executed", "rejected"}]
    BY <2>2 DEF EntryTypeOK, SigStatus
  <2>. QED
    BY <2>2, <2>3, <2>4, <2>5, <2>6 DEF EntryTypeOK
<1>25. ASSUME NEW s \in Signals, ResolveUnfilled(s) PROVE EntryTypeOK'
  <2>1. PICK st \in {"cancelled", "rejected"} : row' = [row EXCEPT ![s].status = st]
    BY <1>25 DEF ResolveUnfilled, ResolveAs
  <2>2. /\ exec' = [exec EXCEPT ![s] = [status |-> "error", opened |-> 0]]
        /\ sig'  = [sig EXCEPT ![s] = "rejected"]
        /\ server' \in {server, [server EXCEPT ![s] = "rejected"]}
        /\ age' = [age EXCEPT ![s] = 0]
        /\ UNCHANGED <<fills, holder, pc, inbox, stale, placed, ord, fill>>
    BY <1>25 DEF ResolveUnfilled, ResolveAs, Ack, handlerVars, venueVars
  <2>3. row' \in [Signals -> [status : RowStatus, attempt : BOOLEAN]]
    BY <2>1 DEF EntryTypeOK, RowStatus
  <2>4. exec' \in [Signals -> [status : {"none", "open", "error"}, opened : 0..Qty]]
    BY <2>2, QtyAssumption DEF EntryTypeOK
  <2>5. fills' \in [Signals -> Nat]
    BY <2>2, QtyAssumption DEF EntryTypeOK
  <2>6. sig' \in [Signals -> SigStatus] /\ server' \in [Signals -> {"none", "executed", "rejected"}]
    BY <2>2 DEF EntryTypeOK, SigStatus
  <2>. QED
    BY <2>2, <2>3, <2>4, <2>5, <2>6 DEF EntryTypeOK
<1>26. CASE Crash
  BY <1>26, QtyAssumption, SignalsAssumption
     DEF EntryTypeOK, SigStatus, RowStatus, OrdState, Pc, NoRow, Crash, Release,
     entryVars, dbVars, handlerVars, venueVars
<1>27. CASE UNCHANGED entryVars
  BY <1>27
     DEF EntryTypeOK, SigStatus, RowStatus, OrdState, Pc, NoRow, entryVars, dbVars,
     handlerVars, venueVars
<1>. QED
  BY <1>1, <1>2, <1>3, <1>4, <1>5, <1>6, <1>7, <1>8, <1>9, <1>10, <1>11, <1>12,
     <1>13, <1>14, <1>15, <1>16, <1>17, <1>18, <1>19, <1>20, <1>21, <1>22,
     <1>23, <1>24, <1>25, <1>26, <1>27
     DEF EntryNext, IntakeStep, HandlerStep, ResolveStep, VenueStep
(* Every variable stays in its type, for any signals and any entry size. *)
THEOREM EntryTypeCorrect == EntrySpec => []EntryTypeOK
<1>1. EntryTypeOK /\ [EntryNext]_entryVars => EntryTypeOK'
  BY EntryTypeStep
<1>. QED
  BY EntryTypeInit, <1>1, PTL DEF EntrySpec

(* The initial state satisfies what the core invariant adds to the types. *)
LEMMA CoreInit == EntryInit => CoreInv
  BY EntryTypeInit, SignalsAssumption
     DEF EntryInit, CoreInv, LockInv, OrderInv, AckInv, NoRow

(* The lock's holder stays a signal whose order is not settled. *)
LEMMA LockStep ==
  ASSUME EntryTypeOK, LockInv, OrderInv, [EntryNext]_entryVars
  PROVE  LockInv'
<1>. USE QtyAssumption, SignalsAssumption DEF EntryTypeOK, LockInv, OrderInv
<1>1. ASSUME NEW s \in Signals, Deliver(s) PROVE LockInv'
  BY <1>1 DEF Deliver, entryVars, dbVars, handlerVars, venueVars
<1>2. ASSUME NEW s \in Signals, GoStale(s) PROVE LockInv'
  BY <1>2 DEF GoStale, entryVars, dbVars, handlerVars, venueVars
<1>3. ASSUME NEW s \in Signals, StaleReplay(s) PROVE LockInv'
  BY <1>3 DEF StaleReplay, Ack, entryVars, dbVars, handlerVars, venueVars
<1>4. ASSUME NEW s \in Signals, RefuseOpen(s) PROVE LockInv'
  BY <1>4 DEF RefuseOpen, TakeNext, Ack, entryVars, dbVars, handlerVars, venueVars
<1>5. ASSUME NEW s \in Signals, DuplicateOpen(s) PROVE LockInv'
  BY <1>5 DEF DuplicateOpen, TakeNext, entryVars, dbVars, handlerVars, venueVars
<1>6. ASSUME NEW s \in Signals, SeedOpen(s) PROVE LockInv'
  BY <1>6 DEF SeedOpen, TakeNext, entryVars, dbVars, handlerVars, venueVars
<1>7. ASSUME NEW s \in Signals, SendOrder(s) PROVE LockInv'
  BY <1>7 DEF SendOrder, entryVars, dbVars, handlerVars, venueVars
<1>8. ASSUME NEW s \in Signals, PlaceThrows(s) PROVE LockInv'
  BY <1>8
     DEF PlaceThrows, FailEntry, Ack, Release, entryVars, dbVars, handlerVars,
     venueVars
<1>9. ASSUME NEW s \in Signals, ReplyFilled(s) PROVE LockInv'
  BY <1>9 DEF ReplyFilled, BookEntry, entryVars, dbVars, handlerVars, venueVars
<1>10. ASSUME NEW s \in Signals, ReplyRejected(s) PROVE LockInv'
  BY <1>10
     DEF ReplyRejected, RejectEntry, Ack, Release, entryVars, dbVars, handlerVars,
     venueVars
<1>11. ASSUME NEW s \in Signals, ReplyPending(s) PROVE LockInv'
  BY <1>11 DEF ReplyPending, entryVars, dbVars, handlerVars, venueVars
<1>12. ASSUME NEW s \in Signals, PollTerminal(s) PROVE LockInv'
  BY <1>12
     DEF PollTerminal, BookEntry, RejectEntry, Ack, Release, Report, Terminal,
     entryVars, dbVars, handlerVars, venueVars
<1>13. ASSUME NEW s \in Signals, PollTimeout(s) PROVE LockInv'
  BY <1>13 DEF PollTimeout, entryVars, dbVars, handlerVars, venueVars
<1>14. ASSUME NEW s \in Signals, CancelOrder(s) PROVE LockInv'
  BY <1>14 DEF CancelOrder, entryVars, dbVars, handlerVars, venueVars
<1>15. ASSUME NEW s \in Signals, SettleTimeout(s) PROVE LockInv'
  BY <1>15
     DEF SettleTimeout, TimeoutEntry, Release, entryVars, dbVars, handlerVars,
     venueVars
<1>16. ASSUME NEW s \in Signals, FinishEntry(s) PROVE LockInv'
  BY <1>16 DEF FinishEntry, Ack, Release, entryVars, dbVars, handlerVars, venueVars
<1>17. ASSUME NEW s \in Signals, TailThrow(s) PROVE LockInv'
  BY <1>17
     DEF TailThrow, FailEntry, Ack, Release, entryVars, dbVars, handlerVars,
     venueVars
<1>18. ASSUME NEW s \in Signals, ResolveAbsent(s) PROVE LockInv'
  BY <1>18
     DEF ResolveAbsent, ResolveAs, Unresolved, entryVars, dbVars, handlerVars,
     venueVars
<1>19. ASSUME NEW s \in Signals, ResolveLost(s) PROVE LockInv'
  BY <1>19
     DEF ResolveLost, ResolveAs, Unresolved, entryVars, dbVars, handlerVars,
     venueVars
<1>20. ASSUME NEW s \in Signals, ResolveFilled(s) PROVE LockInv'
  BY <1>20
     DEF ResolveFilled, ResolveAs, Unresolved, Report, Ack, entryVars, dbVars,
     handlerVars, venueVars
<1>21. ASSUME NEW s \in Signals, ResolveUnfilled(s) PROVE LockInv'
  BY <1>21
     DEF ResolveUnfilled, ResolveAs, Unresolved, Report, Ack, entryVars, dbVars,
     handlerVars, venueVars
<1>22. ASSUME NEW s \in Signals, VenueAccept(s) PROVE LockInv'
  BY <1>22 DEF VenueAccept, entryVars, dbVars, handlerVars, venueVars
<1>23. ASSUME NEW s \in Signals, VenueDrop(s) PROVE LockInv'
  BY <1>23 DEF VenueDrop, entryVars, dbVars, handlerVars, venueVars
<1>24. ASSUME NEW s \in Signals, VenueFill(s) PROVE LockInv'
  BY <1>24 DEF VenueFill, entryVars, dbVars, handlerVars, venueVars
<1>25. ASSUME NEW s \in Signals, VenueCancel(s) PROVE LockInv'
  BY <1>25 DEF VenueCancel, entryVars, dbVars, handlerVars, venueVars
<1>26. ASSUME NEW s \in Signals, Age(s) PROVE LockInv'
  BY <1>26 DEF Age, Unresolved, entryVars, dbVars, handlerVars, venueVars
<1>27. CASE Crash
  BY <1>27 DEF Crash, Release, entryVars, dbVars, handlerVars, venueVars
<1>28. CASE UNCHANGED entryVars
  BY <1>28 DEF entryVars, dbVars, handlerVars, venueVars
<1>. HIDE DEF EntryTypeOK, LockInv, OrderInv
<1>. QED
  BY <1>1, <1>2, <1>3, <1>4, <1>5, <1>6, <1>7, <1>8, <1>9, <1>10, <1>11, <1>12,
     <1>13, <1>14, <1>15, <1>16, <1>17, <1>18, <1>19, <1>20, <1>21, <1>22,
     <1>23, <1>24, <1>25, <1>26, <1>27, <1>28
     DEF EntryNext, IntakeStep, HandlerStep, ResolveStep, VenueStep

(* An order comes from one placement of a seeded signal. *)
LEMMA OrderStep ==
  ASSUME EntryTypeOK, LockInv, OrderInv, [EntryNext]_entryVars
  PROVE  OrderInv'
<1>. USE QtyAssumption, SignalsAssumption DEF EntryTypeOK, LockInv, OrderInv
<1>1. ASSUME NEW s \in Signals, Deliver(s) PROVE OrderInv'
  BY <1>1 DEF Deliver, entryVars, dbVars, handlerVars, venueVars
<1>2. ASSUME NEW s \in Signals, GoStale(s) PROVE OrderInv'
  BY <1>2 DEF GoStale, entryVars, dbVars, handlerVars, venueVars
<1>3. ASSUME NEW s \in Signals, StaleReplay(s) PROVE OrderInv'
  BY <1>3 DEF StaleReplay, Ack, entryVars, dbVars, handlerVars, venueVars
<1>4. ASSUME NEW s \in Signals, RefuseOpen(s) PROVE OrderInv'
  BY <1>4 DEF RefuseOpen, TakeNext, Ack, entryVars, dbVars, handlerVars, venueVars
<1>5. ASSUME NEW s \in Signals, DuplicateOpen(s) PROVE OrderInv'
  BY <1>5 DEF DuplicateOpen, TakeNext, entryVars, dbVars, handlerVars, venueVars
<1>6. ASSUME NEW s \in Signals, SeedOpen(s) PROVE OrderInv'
  BY <1>6 DEF SeedOpen, TakeNext, entryVars, dbVars, handlerVars, venueVars
<1>7. ASSUME NEW s \in Signals, SendOrder(s) PROVE OrderInv'
  BY <1>7 DEF SendOrder, entryVars, dbVars, handlerVars, venueVars
<1>8. ASSUME NEW s \in Signals, PlaceThrows(s) PROVE OrderInv'
  BY <1>8
     DEF PlaceThrows, FailEntry, Ack, Release, entryVars, dbVars, handlerVars,
     venueVars
<1>9. ASSUME NEW s \in Signals, ReplyFilled(s) PROVE OrderInv'
  BY <1>9 DEF ReplyFilled, BookEntry, entryVars, dbVars, handlerVars, venueVars
<1>10. ASSUME NEW s \in Signals, ReplyRejected(s) PROVE OrderInv'
  BY <1>10
     DEF ReplyRejected, RejectEntry, Ack, Release, entryVars, dbVars, handlerVars,
     venueVars
<1>11. ASSUME NEW s \in Signals, ReplyPending(s) PROVE OrderInv'
  BY <1>11 DEF ReplyPending, entryVars, dbVars, handlerVars, venueVars
<1>12. ASSUME NEW s \in Signals, PollTerminal(s) PROVE OrderInv'
  BY <1>12
     DEF PollTerminal, BookEntry, RejectEntry, Ack, Release, Report, Terminal,
     entryVars, dbVars, handlerVars, venueVars
<1>13. ASSUME NEW s \in Signals, PollTimeout(s) PROVE OrderInv'
  BY <1>13 DEF PollTimeout, entryVars, dbVars, handlerVars, venueVars
<1>14. ASSUME NEW s \in Signals, CancelOrder(s) PROVE OrderInv'
  BY <1>14 DEF CancelOrder, entryVars, dbVars, handlerVars, venueVars
<1>15. ASSUME NEW s \in Signals, SettleTimeout(s) PROVE OrderInv'
  BY <1>15
     DEF SettleTimeout, TimeoutEntry, Release, entryVars, dbVars, handlerVars,
     venueVars
<1>16. ASSUME NEW s \in Signals, FinishEntry(s) PROVE OrderInv'
  BY <1>16 DEF FinishEntry, Ack, Release, entryVars, dbVars, handlerVars, venueVars
<1>17. ASSUME NEW s \in Signals, TailThrow(s) PROVE OrderInv'
  BY <1>17
     DEF TailThrow, FailEntry, Ack, Release, entryVars, dbVars, handlerVars,
     venueVars
<1>18. ASSUME NEW s \in Signals, ResolveAbsent(s) PROVE OrderInv'
  BY <1>18
     DEF ResolveAbsent, ResolveAs, Unresolved, entryVars, dbVars, handlerVars,
     venueVars
<1>19. ASSUME NEW s \in Signals, ResolveLost(s) PROVE OrderInv'
  BY <1>19
     DEF ResolveLost, ResolveAs, Unresolved, entryVars, dbVars, handlerVars,
     venueVars
<1>20. ASSUME NEW s \in Signals, ResolveFilled(s) PROVE OrderInv'
  BY <1>20
     DEF ResolveFilled, ResolveAs, Unresolved, Report, Ack, entryVars, dbVars,
     handlerVars, venueVars
<1>21. ASSUME NEW s \in Signals, ResolveUnfilled(s) PROVE OrderInv'
  BY <1>21
     DEF ResolveUnfilled, ResolveAs, Unresolved, Report, Ack, entryVars, dbVars,
     handlerVars, venueVars
<1>22. ASSUME NEW s \in Signals, VenueAccept(s) PROVE OrderInv'
  BY <1>22 DEF VenueAccept, entryVars, dbVars, handlerVars, venueVars
<1>23. ASSUME NEW s \in Signals, VenueDrop(s) PROVE OrderInv'
  BY <1>23 DEF VenueDrop, entryVars, dbVars, handlerVars, venueVars
<1>24. ASSUME NEW s \in Signals, VenueFill(s) PROVE OrderInv'
  BY <1>24 DEF VenueFill, entryVars, dbVars, handlerVars, venueVars
<1>25. ASSUME NEW s \in Signals, VenueCancel(s) PROVE OrderInv'
  BY <1>25 DEF VenueCancel, entryVars, dbVars, handlerVars, venueVars
<1>26. ASSUME NEW s \in Signals, Age(s) PROVE OrderInv'
  BY <1>26 DEF Age, Unresolved, entryVars, dbVars, handlerVars, venueVars
<1>27. CASE Crash
  BY <1>27 DEF Crash, Release, entryVars, dbVars, handlerVars, venueVars
<1>28. CASE UNCHANGED entryVars
  BY <1>28 DEF entryVars, dbVars, handlerVars, venueVars
<1>. HIDE DEF EntryTypeOK, LockInv, OrderInv
<1>. QED
  BY <1>1, <1>2, <1>3, <1>4, <1>5, <1>6, <1>7, <1>8, <1>9, <1>10, <1>11, <1>12,
     <1>13, <1>14, <1>15, <1>16, <1>17, <1>18, <1>19, <1>20, <1>21, <1>22,
     <1>23, <1>24, <1>25, <1>26, <1>27, <1>28
     DEF EntryNext, IntakeStep, HandlerStep, ResolveStep, VenueStep

(* `executed` is only ever sent for an order that filled. *)
LEMMA AckStep ==
  ASSUME EntryTypeOK, LockInv, OrderInv, AckInv, [EntryNext]_entryVars
  PROVE  AckInv'
<1>. USE QtyAssumption, SignalsAssumption DEF EntryTypeOK, LockInv, OrderInv, AckInv
<1>1. ASSUME NEW s \in Signals, Deliver(s) PROVE AckInv'
  BY <1>1 DEF Deliver, entryVars, dbVars, handlerVars, venueVars
<1>2. ASSUME NEW s \in Signals, GoStale(s) PROVE AckInv'
  BY <1>2 DEF GoStale, entryVars, dbVars, handlerVars, venueVars
<1>3. ASSUME NEW s \in Signals, StaleReplay(s) PROVE AckInv'
  BY <1>3 DEF StaleReplay, Ack, entryVars, dbVars, handlerVars, venueVars
<1>4. ASSUME NEW s \in Signals, RefuseOpen(s) PROVE AckInv'
  BY <1>4 DEF RefuseOpen, TakeNext, Ack, entryVars, dbVars, handlerVars, venueVars
<1>5. ASSUME NEW s \in Signals, DuplicateOpen(s) PROVE AckInv'
  BY <1>5 DEF DuplicateOpen, TakeNext, entryVars, dbVars, handlerVars, venueVars
<1>6. ASSUME NEW s \in Signals, SeedOpen(s) PROVE AckInv'
  BY <1>6 DEF SeedOpen, TakeNext, entryVars, dbVars, handlerVars, venueVars
<1>7. ASSUME NEW s \in Signals, SendOrder(s) PROVE AckInv'
  BY <1>7 DEF SendOrder, entryVars, dbVars, handlerVars, venueVars
<1>8. ASSUME NEW s \in Signals, PlaceThrows(s) PROVE AckInv'
  BY <1>8
     DEF PlaceThrows, FailEntry, Ack, Release, entryVars, dbVars, handlerVars,
     venueVars
<1>9. ASSUME NEW s \in Signals, ReplyFilled(s) PROVE AckInv'
  BY <1>9 DEF ReplyFilled, BookEntry, entryVars, dbVars, handlerVars, venueVars
<1>10. ASSUME NEW s \in Signals, ReplyRejected(s) PROVE AckInv'
  BY <1>10
     DEF ReplyRejected, RejectEntry, Ack, Release, entryVars, dbVars, handlerVars,
     venueVars
<1>11. ASSUME NEW s \in Signals, ReplyPending(s) PROVE AckInv'
  BY <1>11 DEF ReplyPending, entryVars, dbVars, handlerVars, venueVars
<1>12. ASSUME NEW s \in Signals, PollTerminal(s) PROVE AckInv'
  BY <1>12
     DEF PollTerminal, BookEntry, RejectEntry, Ack, Release, Report, Terminal,
     entryVars, dbVars, handlerVars, venueVars
<1>13. ASSUME NEW s \in Signals, PollTimeout(s) PROVE AckInv'
  BY <1>13 DEF PollTimeout, entryVars, dbVars, handlerVars, venueVars
<1>14. ASSUME NEW s \in Signals, CancelOrder(s) PROVE AckInv'
  BY <1>14 DEF CancelOrder, entryVars, dbVars, handlerVars, venueVars
<1>15. ASSUME NEW s \in Signals, SettleTimeout(s) PROVE AckInv'
  BY <1>15
     DEF SettleTimeout, TimeoutEntry, Release, entryVars, dbVars, handlerVars,
     venueVars
<1>16. ASSUME NEW s \in Signals, FinishEntry(s) PROVE AckInv'
  BY <1>16 DEF FinishEntry, Ack, Release, entryVars, dbVars, handlerVars, venueVars
<1>17. ASSUME NEW s \in Signals, TailThrow(s) PROVE AckInv'
  BY <1>17
     DEF TailThrow, FailEntry, Ack, Release, entryVars, dbVars, handlerVars,
     venueVars
<1>18. ASSUME NEW s \in Signals, ResolveAbsent(s) PROVE AckInv'
  BY <1>18
     DEF ResolveAbsent, ResolveAs, Unresolved, entryVars, dbVars, handlerVars,
     venueVars
<1>19. ASSUME NEW s \in Signals, ResolveLost(s) PROVE AckInv'
  BY <1>19
     DEF ResolveLost, ResolveAs, Unresolved, entryVars, dbVars, handlerVars,
     venueVars
<1>20. ASSUME NEW s \in Signals, ResolveFilled(s) PROVE AckInv'
  BY <1>20
     DEF ResolveFilled, ResolveAs, Unresolved, Report, Ack, entryVars, dbVars,
     handlerVars, venueVars
<1>21. ASSUME NEW s \in Signals, ResolveUnfilled(s) PROVE AckInv'
  BY <1>21
     DEF ResolveUnfilled, ResolveAs, Unresolved, Report, Ack, entryVars, dbVars,
     handlerVars, venueVars
<1>22. ASSUME NEW s \in Signals, VenueAccept(s) PROVE AckInv'
  BY <1>22 DEF VenueAccept, entryVars, dbVars, handlerVars, venueVars
<1>23. ASSUME NEW s \in Signals, VenueDrop(s) PROVE AckInv'
  BY <1>23 DEF VenueDrop, entryVars, dbVars, handlerVars, venueVars
<1>24. ASSUME NEW s \in Signals, VenueFill(s) PROVE AckInv'
  BY <1>24 DEF VenueFill, entryVars, dbVars, handlerVars, venueVars
<1>25. ASSUME NEW s \in Signals, VenueCancel(s) PROVE AckInv'
  BY <1>25 DEF VenueCancel, entryVars, dbVars, handlerVars, venueVars
<1>26. ASSUME NEW s \in Signals, Age(s) PROVE AckInv'
  BY <1>26 DEF Age, Unresolved, entryVars, dbVars, handlerVars, venueVars
<1>27. CASE Crash
  BY <1>27 DEF Crash, Release, entryVars, dbVars, handlerVars, venueVars
<1>28. CASE UNCHANGED entryVars
  BY <1>28 DEF entryVars, dbVars, handlerVars, venueVars
<1>. HIDE DEF EntryTypeOK, LockInv, OrderInv, AckInv
<1>. QED
  BY <1>1, <1>2, <1>3, <1>4, <1>5, <1>6, <1>7, <1>8, <1>9, <1>10, <1>11, <1>12,
     <1>13, <1>14, <1>15, <1>16, <1>17, <1>18, <1>19, <1>20, <1>21, <1>22,
     <1>23, <1>24, <1>25, <1>26, <1>27, <1>28
     DEF EntryNext, IntakeStep, HandlerStep, ResolveStep, VenueStep

(* Together: the core invariant holds of every reachable state. *)
THEOREM CoreCorrect == EntrySpec => []CoreInv
<1>1. CoreInv /\ [EntryNext]_entryVars => CoreInv'
  BY EntryTypeStep, LockStep, OrderStep, AckStep DEF CoreInv
<1>. QED
  BY CoreInit, <1>1, PTL DEF EntrySpec

(* One placeOrder per signal, whatever replays, races and crashes do to it. *)
THEOREM OnePlacement == EntrySpec => []AtMostOnePlacement
<1>1. CoreInv => AtMostOnePlacement
  BY DEF CoreInv, OrderInv, AtMostOnePlacement
<1>. QED
  BY CoreCorrect, <1>1, PTL

(* The server hears `executed` only of an order that filled. *)
THEOREM AckMeansFill == EntrySpec => []ExecutedAckMeansFill
<1>1. CoreInv => ExecutedAckMeansFill
  BY DEF CoreInv, AckInv, ExecutedAckMeansFill
<1>. QED
  BY CoreCorrect, <1>1, PTL

(* One placement per signal, and no `executed` without a fill. *)
THEOREM OneOrder == EntrySpec => []OneRealOrder
  BY OnePlacement, AckMeansFill, PTL DEF OneRealOrder

(* What may still fill stays booked or chased, on a venue with clean answers. *)
LEMMA TrackStep ==
  ASSUME CoreInv, TrackInv, CleanVenue, [EntryNext]_entryVars
  PROVE  TrackInv'
<1>. USE QtyAssumption, SignalsAssumption
   DEF CoreInv, EntryTypeOK, LockInv, OrderInv, TrackInv, Potential, Unresolved,
   Unsettled
<1>1. ASSUME NEW s \in Signals, Deliver(s) PROVE TrackInv'
  BY <1>1 DEF Deliver, entryVars, dbVars, handlerVars, venueVars
<1>2. ASSUME NEW s \in Signals, GoStale(s) PROVE TrackInv'
  BY <1>2 DEF GoStale, entryVars, dbVars, handlerVars, venueVars
<1>3. ASSUME NEW s \in Signals, StaleReplay(s) PROVE TrackInv'
  BY <1>3 DEF StaleReplay, Ack, entryVars, dbVars, handlerVars, venueVars
<1>4. ASSUME NEW s \in Signals, RefuseOpen(s) PROVE TrackInv'
  BY <1>4 DEF RefuseOpen, TakeNext, Ack, entryVars, dbVars, handlerVars, venueVars
<1>5. ASSUME NEW s \in Signals, DuplicateOpen(s) PROVE TrackInv'
  BY <1>5 DEF DuplicateOpen, TakeNext, entryVars, dbVars, handlerVars, venueVars
<1>6. ASSUME NEW s \in Signals, SeedOpen(s) PROVE TrackInv'
  BY <1>6 DEF SeedOpen, TakeNext, entryVars, dbVars, handlerVars, venueVars
<1>7. ASSUME NEW s \in Signals, SendOrder(s) PROVE TrackInv'
  BY <1>7 DEF SendOrder, entryVars, dbVars, handlerVars, venueVars
<1>8. ASSUME NEW s \in Signals, PlaceThrows(s) PROVE TrackInv'
  BY <1>8
     DEF PlaceThrows, FailEntry, Ack, Release, entryVars, dbVars, handlerVars,
     venueVars
<1>9. ASSUME NEW s \in Signals, ReplyFilled(s) PROVE TrackInv'
  BY <1>9 DEF ReplyFilled, BookEntry, entryVars, dbVars, handlerVars, venueVars
<1>10. ASSUME NEW s \in Signals, ReplyRejected(s) PROVE TrackInv'
  BY <1>10
     DEF ReplyRejected, RejectEntry, Ack, Release, entryVars, dbVars, handlerVars,
     venueVars
<1>11. ASSUME NEW s \in Signals, ReplyPending(s) PROVE TrackInv'
  BY <1>11 DEF ReplyPending, entryVars, dbVars, handlerVars, venueVars
<1>12. ASSUME NEW s \in Signals, PollTerminal(s) PROVE TrackInv'
  <2>1. ord[s] \in {"filled", "cancelled", "rejected"}
    BY <1>12 DEF PollTerminal, Report, Terminal, CleanVenue, OrdState
  <2>2. CASE RejectEntry(s) /\ fill[s] = 0
    BY <1>12, <2>1, <2>2
       DEF RejectEntry, Release, entryVars, dbVars, handlerVars, venueVars
  <2>3. CASE BookEntry(s)
    BY <1>12, <2>1, <2>3 DEF BookEntry, entryVars, dbVars, handlerVars, venueVars
  <2>. QED
    BY <1>12, <2>1, <2>2, <2>3 DEF PollTerminal, Report, CleanVenue
<1>13. ASSUME NEW s \in Signals, PollTimeout(s) PROVE TrackInv'
  BY <1>13 DEF PollTimeout, entryVars, dbVars, handlerVars, venueVars
<1>14. ASSUME NEW s \in Signals, CancelOrder(s) PROVE TrackInv'
  BY <1>14 DEF CancelOrder, entryVars, dbVars, handlerVars, venueVars
<1>15. ASSUME NEW s \in Signals, SettleTimeout(s) PROVE TrackInv'
  BY <1>15
     DEF SettleTimeout, TimeoutEntry, Release, entryVars, dbVars, handlerVars,
     venueVars
<1>16. ASSUME NEW s \in Signals, FinishEntry(s) PROVE TrackInv'
  BY <1>16 DEF FinishEntry, Ack, Release, entryVars, dbVars, handlerVars, venueVars
<1>17. ASSUME NEW s \in Signals, TailThrow(s) PROVE TrackInv'
  BY <1>17
     DEF TailThrow, FailEntry, Ack, Release, entryVars, dbVars, handlerVars,
     venueVars
<1>18. ASSUME NEW s \in Signals, ResolveAbsent(s) PROVE TrackInv'
  BY <1>18
     DEF ResolveAbsent, ResolveAs, Unresolved, entryVars, dbVars, handlerVars,
     venueVars
<1>19. ASSUME NEW s \in Signals, ResolveLost(s) PROVE TrackInv'
  BY <1>19
     DEF ResolveLost, ResolveAs, Unresolved, CleanVenue, entryVars, dbVars,
     handlerVars, venueVars
<1>20. ASSUME NEW s \in Signals, ResolveFilled(s) PROVE TrackInv'
  BY <1>20
     DEF ResolveFilled, ResolveAs, Unresolved, Report, Ack, CleanVenue, entryVars,
     dbVars, handlerVars, venueVars
<1>21. ASSUME NEW s \in Signals, ResolveUnfilled(s) PROVE TrackInv'
  BY <1>21
     DEF ResolveUnfilled, ResolveAs, Unresolved, Report, Ack, CleanVenue, entryVars,
     dbVars, handlerVars, venueVars
<1>22. ASSUME NEW s \in Signals, VenueAccept(s) PROVE TrackInv'
  BY <1>22 DEF VenueAccept, entryVars, dbVars, handlerVars, venueVars
<1>23. ASSUME NEW s \in Signals, VenueDrop(s) PROVE TrackInv'
  BY <1>23 DEF VenueDrop, entryVars, dbVars, handlerVars, venueVars
<1>24. ASSUME NEW s \in Signals, VenueFill(s) PROVE TrackInv'
  BY <1>24 DEF VenueFill, entryVars, dbVars, handlerVars, venueVars
<1>25. ASSUME NEW s \in Signals, VenueCancel(s) PROVE TrackInv'
  BY <1>25 DEF VenueCancel, entryVars, dbVars, handlerVars, venueVars
<1>26. ASSUME NEW s \in Signals, Age(s) PROVE TrackInv'
  BY <1>26 DEF Age, Unresolved, entryVars, dbVars, handlerVars, venueVars
<1>27. CASE Crash
  BY <1>27 DEF Crash, Release, entryVars, dbVars, handlerVars, venueVars
<1>28. CASE UNCHANGED entryVars
  BY <1>28 DEF entryVars, dbVars, handlerVars, venueVars
<1>. HIDE
   DEF CoreInv, EntryTypeOK, LockInv, OrderInv, TrackInv, Potential, Unresolved,
   Unsettled
<1>. QED
  BY <1>1, <1>2, <1>3, <1>4, <1>5, <1>6, <1>7, <1>8, <1>9, <1>10, <1>11, <1>12,
     <1>13, <1>14, <1>15, <1>16, <1>17, <1>18, <1>19, <1>20, <1>21, <1>22,
     <1>23, <1>24, <1>25, <1>26, <1>27, <1>28
     DEF EntryNext, IntakeStep, HandlerStep, ResolveStep, VenueStep

(* A fill is booked once by every step. *)
LEMMA BookStep ==
  ASSUME CoreInv, BookInv, [EntryNext]_entryVars
  PROVE  BookInv'
<1>. USE QtyAssumption, SignalsAssumption
   DEF CoreInv, EntryTypeOK, LockInv, OrderInv, BookInv, Unresolved, Unsettled
<1>1. ASSUME NEW s \in Signals, Deliver(s) PROVE BookInv'
  BY <1>1 DEF Deliver, entryVars, dbVars, handlerVars, venueVars
<1>2. ASSUME NEW s \in Signals, GoStale(s) PROVE BookInv'
  BY <1>2 DEF GoStale, entryVars, dbVars, handlerVars, venueVars
<1>3. ASSUME NEW s \in Signals, StaleReplay(s) PROVE BookInv'
  BY <1>3 DEF StaleReplay, Ack, entryVars, dbVars, handlerVars, venueVars
<1>4. ASSUME NEW s \in Signals, RefuseOpen(s) PROVE BookInv'
  BY <1>4 DEF RefuseOpen, TakeNext, Ack, entryVars, dbVars, handlerVars, venueVars
<1>5. ASSUME NEW s \in Signals, DuplicateOpen(s) PROVE BookInv'
  BY <1>5 DEF DuplicateOpen, TakeNext, entryVars, dbVars, handlerVars, venueVars
<1>6. ASSUME NEW s \in Signals, SeedOpen(s) PROVE BookInv'
  BY <1>6 DEF SeedOpen, TakeNext, entryVars, dbVars, handlerVars, venueVars
<1>7. ASSUME NEW s \in Signals, SendOrder(s) PROVE BookInv'
  BY <1>7 DEF SendOrder, entryVars, dbVars, handlerVars, venueVars
<1>8. ASSUME NEW s \in Signals, PlaceThrows(s) PROVE BookInv'
  BY <1>8
     DEF PlaceThrows, FailEntry, Ack, Release, entryVars, dbVars, handlerVars,
     venueVars
<1>9. ASSUME NEW s \in Signals, ReplyFilled(s) PROVE BookInv'
  BY <1>9 DEF ReplyFilled, BookEntry, entryVars, dbVars, handlerVars, venueVars
<1>10. ASSUME NEW s \in Signals, ReplyRejected(s) PROVE BookInv'
  BY <1>10
     DEF ReplyRejected, RejectEntry, Ack, Release, entryVars, dbVars, handlerVars,
     venueVars
<1>11. ASSUME NEW s \in Signals, ReplyPending(s) PROVE BookInv'
  BY <1>11 DEF ReplyPending, entryVars, dbVars, handlerVars, venueVars
<1>12. ASSUME NEW s \in Signals, PollTerminal(s) PROVE BookInv'
  BY <1>12
     DEF PollTerminal, BookEntry, RejectEntry, Ack, Release, Report, Terminal,
     entryVars, dbVars, handlerVars, venueVars
<1>13. ASSUME NEW s \in Signals, PollTimeout(s) PROVE BookInv'
  BY <1>13 DEF PollTimeout, entryVars, dbVars, handlerVars, venueVars
<1>14. ASSUME NEW s \in Signals, CancelOrder(s) PROVE BookInv'
  BY <1>14 DEF CancelOrder, entryVars, dbVars, handlerVars, venueVars
<1>15. ASSUME NEW s \in Signals, SettleTimeout(s) PROVE BookInv'
  BY <1>15
     DEF SettleTimeout, TimeoutEntry, Release, entryVars, dbVars, handlerVars,
     venueVars
<1>16. ASSUME NEW s \in Signals, FinishEntry(s) PROVE BookInv'
  BY <1>16 DEF FinishEntry, Ack, Release, entryVars, dbVars, handlerVars, venueVars
<1>17. ASSUME NEW s \in Signals, TailThrow(s) PROVE BookInv'
  BY <1>17
     DEF TailThrow, FailEntry, Ack, Release, entryVars, dbVars, handlerVars,
     venueVars
<1>18. ASSUME NEW s \in Signals, ResolveAbsent(s) PROVE BookInv'
  BY <1>18
     DEF ResolveAbsent, ResolveAs, Unresolved, entryVars, dbVars, handlerVars,
     venueVars
<1>19. ASSUME NEW s \in Signals, ResolveLost(s) PROVE BookInv'
  BY <1>19
     DEF ResolveLost, ResolveAs, Unresolved, entryVars, dbVars, handlerVars,
     venueVars
<1>20. ASSUME NEW s \in Signals, ResolveFilled(s) PROVE BookInv'
  BY <1>20
     DEF ResolveFilled, ResolveAs, Unresolved, Report, Ack, entryVars, dbVars,
     handlerVars, venueVars
<1>21. ASSUME NEW s \in Signals, ResolveUnfilled(s) PROVE BookInv'
  BY <1>21
     DEF ResolveUnfilled, ResolveAs, Unresolved, Report, Ack, entryVars, dbVars,
     handlerVars, venueVars
<1>22. ASSUME NEW s \in Signals, VenueAccept(s) PROVE BookInv'
  BY <1>22 DEF VenueAccept, entryVars, dbVars, handlerVars, venueVars
<1>23. ASSUME NEW s \in Signals, VenueDrop(s) PROVE BookInv'
  BY <1>23 DEF VenueDrop, entryVars, dbVars, handlerVars, venueVars
<1>24. ASSUME NEW s \in Signals, VenueFill(s) PROVE BookInv'
  BY <1>24 DEF VenueFill, entryVars, dbVars, handlerVars, venueVars
<1>25. ASSUME NEW s \in Signals, VenueCancel(s) PROVE BookInv'
  BY <1>25 DEF VenueCancel, entryVars, dbVars, handlerVars, venueVars
<1>26. ASSUME NEW s \in Signals, Age(s) PROVE BookInv'
  BY <1>26 DEF Age, Unresolved, entryVars, dbVars, handlerVars, venueVars
<1>27. CASE Crash
  BY <1>27 DEF Crash, Release, entryVars, dbVars, handlerVars, venueVars
<1>28. CASE UNCHANGED entryVars
  BY <1>28 DEF entryVars, dbVars, handlerVars, venueVars
<1>. HIDE DEF CoreInv, EntryTypeOK, LockInv, OrderInv, BookInv, Unresolved, Unsettled
<1>. QED
  BY <1>1, <1>2, <1>3, <1>4, <1>5, <1>6, <1>7, <1>8, <1>9, <1>10, <1>11, <1>12,
     <1>13, <1>14, <1>15, <1>16, <1>17, <1>18, <1>19, <1>20, <1>21, <1>22,
     <1>23, <1>24, <1>25, <1>26, <1>27, <1>28
     DEF EntryNext, IntakeStep, HandlerStep, ResolveStep, VenueStep

(* No exposure is invisible on a venue whose final answers are final and    *)
(* show their part fills, whatever is lost, replayed or interrupted.       *)
THEOREM Visible == EntrySpec => [](CleanVenue => NoInvisibleExposure)
<1>1. EntryInit => TrackInv
  <2>1. SUFFICES ASSUME EntryInit PROVE TrackInv
    OBVIOUS
  <2>2. \A s \in Signals : ord[s] = "none" /\ fill[s] = 0 /\ exec[s].opened = 0 /\ row[s].status = "none"
    BY <2>1 DEF EntryInit, NoRow
  <2>3. pc = "idle" /\ holder = NoSignal
    BY <2>1 DEF EntryInit
  <2>4. ASSUME NEW s \in Signals PROVE exec[s].opened >= Potential(s)
    BY <2>2 DEF Potential
  <2>. QED
    BY <2>2, <2>3, <2>4, SignalsAssumption DEF TrackInv, Unresolved, Unsettled
<1>2. CoreInv /\ (CleanVenue => TrackInv) /\ [EntryNext]_entryVars => (CleanVenue => TrackInv)'
  BY TrackStep DEF CleanVenue
<1>3. CoreInv /\ (CleanVenue => TrackInv) => (CleanVenue => NoInvisibleExposure)
  <2>1. SUFFICES ASSUME EntryTypeOK, TrackInv, NEW s \in Signals
                 PROVE  exec[s].opened >= fill[s] \/ row[s].status \in {"unknown", "lost"}
    BY DEF CoreInv, NoInvisibleExposure
  <2>2. fill[s] \in 0..Qty /\ exec[s].opened \in 0..Qty
    BY <2>1 DEF EntryTypeOK
  <2>3. exec[s].opened >= Potential(s) \/ row[s].status \in {"unknown", "lost"}
    BY <2>1 DEF TrackInv
  <2>. QED
    BY <2>2, <2>3, QtyAssumption DEF Potential
<1>. QED
  BY CoreCorrect, <1>1, <1>2, <1>3, PTL DEF EntrySpec

(* The handler and the resolver never both book a fill, when no write fails *)
(* after the booking.                                                      *)
THEOREM BookedOnce == EntrySpec => []NoDoubleBooking
<1>1. EntryInit => BookInv
  <2>1. SUFFICES ASSUME EntryInit, NEW s \in Signals \ Throwing
                 PROVE  fills[s] <= fill[s] /\ fills[s] = 0
    BY DEF BookInv
  <2>2. fills[s] = 0 /\ fill[s] = 0
    BY <2>1 DEF EntryInit
  <2>. QED
    BY <2>2
<1>2. CoreInv /\ BookInv /\ [EntryNext]_entryVars => BookInv'
  BY BookStep
<1>3. BookInv => NoDoubleBooking
  BY DEF BookInv, NoDoubleBooking
<1>. QED
  BY CoreCorrect, <1>1, <1>2, <1>3, PTL DEF EntrySpec

----------------------------------------------------------------------------
(***************************************************************************)
(* Proofs about the fan-out and the entries that wait for market open, for *)
(* every number of subscriptions, deliveries, closes and troubles. What    *)
(* keeps an account from a second order is spread over three tables: the   *)
(* execution row of a lineage, the owner of a parked entry and the         *)
(* numbering of the lineages. The invariant says which accounts a lineage  *)
(* id can stand for, wherever the id is kept.                              *)
(***************************************************************************)

Items    == [id : Ids, sub : Subs]
Acks     == {"none", "executed", "rejected", "deferred"}
Outcomes == {"executed", "deferred", "pending", "rejected", "skipped"}
Heard    == {"none", "executed", "missed"}

(* The types, what is left to do included: who has the lock has something  *)
(* to do with it, and no more copies are queued than were delivered.       *)
FanTypeInv ==
    /\ active \subseteq Subs /\ late \subseteq Ids /\ firsts \subseteq Subs
    /\ fanRow \in [Ids -> Statuses]
    /\ fanExec \in [Ids -> {"none", "open", "error", "closed"}]
    /\ acct \in [Ids -> Subs \cup {0}] /\ owner \in [Ids -> Subs \cup {0}]
    /\ order \in [Ids -> {"none", "working", "filled", "refused", "closed"}]
    /\ park \in [Ids -> {"none", "waiting", "executed", "rejected", "cancelled", "expired"}]
    /\ old \in BOOLEAN /\ timer \in BOOLEAN
    /\ run \in [kind : {"free", "entry", "resume", "close"}, todo : SUBSET Items,
                at : {"-", "gate", "guard", "place", "finish", "close"}, fan : BOOLEAN,
                sink : Acks, outs : SUBSET Outcomes]
    /\ run.at \in {"gate", "guard", "place", "close"} => run.todo # {}
    /\ poll \in [at : {"idle", "visit", "lock", "after"}, todo : SUBSET Ids]
    /\ poll.at # "idle" => poll.todo # {}
    /\ heard \in Heard
    /\ fanSent \in [Subs -> Nat]
    /\ spent \in [deliveries : Nat, closes : Nat, troubles : Nat]
    /\ queued \in Nat /\ queued <= spent.deliveries /\ spent.deliveries <= MaxDeliveries

(* The accounts a lineage can be for: the wire id is for a subscription    *)
(* that was first at some delivery, and a child id for its own, which then *)
(* had another one before it.                                              *)
Fits(i, s) ==
    \/ i = Wire /\ s \in firsts
    \/ i = s /\ s \in Subs /\ \E f \in firsts : f # s

(* Wherever a lineage is kept - what the lock's holder still has to do,    *)
(* the execution rows, the parked entries - it is for such an account; an  *)
(* order is at the venue only of a lineage with an execution row, and not  *)
(* yet of the one about to be placed.                                      *)
FitInv ==
    /\ run.at \in {"gate", "guard", "place"} => \A x \in run.todo : Fits(x.id, x.sub)
    /\ \A i \in Ids : fanExec[i] # "none" => Fits(i, acct[i])
    /\ \A i \in Ids : park[i] # "none" => Fits(i, owner[i])
    /\ \A i \in poll.todo : park[i] # "none"
    /\ \A i \in Ids : order[i] # "none" => fanExec[i] # "none"
    /\ run.at = "place" => fanExec[Now.id] = "open" /\ acct[Now.id] = Now.sub /\ order[Now.id] = "none"

Sold(i, s) == i \in Ids /\ order[i] # "none" /\ acct[i] = s

(* Each order sent is some lineage's own.                                  *)
SentInv ==
    \A s \in Subs :
        /\ fanSent[s] > 0 => \E i \in Ids : Sold(i, s)
        /\ fanSent[s] > 1 => \E i, j \in Ids : i # j /\ Sold(i, s) /\ Sold(j, s)

----------------------------------------------------------------------------
LEMMA IdsType == Ids \subseteq Nat /\ Wire \in Ids /\ Subs \subseteq Ids /\ Wire \notin Subs
BY FanOutAssumption DEF Ids, Wire

(* Whose turn it is, the listed row a tick has come to, and the oldest     *)
(* subscription are there whenever there is one to choose from.            *)
LEMMA NowIn == ASSUME run.todo \subseteq Items, run.todo # {} PROVE Now \in run.todo
<1> DEFINE S == {x.id : x \in run.todo}
<1>1. S \in SUBSET Nat /\ S # {}
    BY IdsType DEF Items
<1>2. PICK i \in S : \A j \in S : i <= j
    <2> HIDE DEF S
    <2> QED
        BY <1>1, LeastNatural
<1>3. PICK x \in run.todo : x.id = i
    OBVIOUS
<1>4. \A y \in run.todo : x.id <= y.id
    BY <1>2, <1>3
<1> QED
    BY <1>4 DEF Now

LEMMA RowIn == ASSUME poll.todo \subseteq Ids, poll.todo # {} PROVE Row \in poll.todo
<1>1. \E i \in poll.todo : \A j \in poll.todo : i <= j
    BY IdsType, LeastNatural
<1> QED
    BY <1>1 DEF Row

LEMMA OldestIn == ASSUME active \subseteq Subs, active # {} PROVE Oldest \in active
<1>1. \E s \in active : \A t \in active : s <= t
    BY IdsType, LeastNatural
<1> QED
    BY <1>1 DEF Oldest

LEMMA ItemType == \A i \in Ids, s \in Subs : Item(i, s) \in Items /\ Item(i, s).id = i /\ Item(i, s).sub = s
BY DEF Item, Items

LEMMA LineagesType == ASSUME active \subseteq Subs, active # {} PROVE Lineages \subseteq Items /\ Lineages # {}
<1>1. ASSUME NEW s \in active PROVE Item(IF s = Oldest THEN Wire ELSE s, s) \in Items
    BY ItemType, IdsType
<1> QED
    BY <1>1 DEF Lineages

(* What a post leaves the server knowing.                                  *)
LEMMA TellType ==
    ASSUME FanTypeInv
    PROVE /\ Missed \in Heard
          /\ \A st : Tell(st) => heard' \in Heard
          /\ \A st : Tell(st) /\ st # "executed" => heard' = heard
BY DEF FanTypeInv, Heard, Tell, Missed

(* A lineage that ends hands over to the next one or to the aggregate, and *)
(* what the fan-out notes of it is one of the five outcomes.               *)
LEMMA EndType ==
    ASSUME FanTypeInv, run.at \in {"gate", "guard", "place"},
           NEW ack \in Acks, NEW threw \in BOOLEAN, NEW status \in Statuses,
           End(ack, threw, status)
    PROVE /\ fanRow' \in [Ids -> Statuses] /\ heard' \in Heard
          /\ run' \in [kind : {"free", "entry", "resume", "close"}, todo : SUBSET Items,
                       at : {"-", "gate", "guard", "place", "finish", "close"}, fan : BOOLEAN,
                       sink : Acks, outs : SUBSET Outcomes]
          /\ run'.at \in {"-", "gate", "finish"}
          /\ run'.at = "gate" => run'.todo # {} /\ run'.todo \subseteq run.todo
          /\ run' # Free => run'.kind = run.kind
<1> USE DEF FanTypeInv, Acks, Outcomes
<1>1. fanRow' \in [Ids -> Statuses]
    BY DEF End
<1>2. CASE run.fan
    <2>1. Outcome(ack, threw, status) \in Outcomes
        BY DEF Outcome
    <2>2. /\ run' = [run EXCEPT !.todo = run.todo \ {Now}, !.sink = "none",
                                !.at = IF run.todo \ {Now} = {} THEN "finish" ELSE "gate",
                                !.outs = run.outs \cup {Outcome(ack, threw, status)}]
          /\ heard' = heard
        BY <1>2 DEF End
    <2> QED
        BY <1>1, <2>1, <2>2
<1>3. CASE ~run.fan
    <2>1. run' = Free /\ heard' \in Heard
        BY <1>3, TellType DEF End
    <2> QED
        BY <1>1, <2>1 DEF Free
<1> QED
    BY <1>2, <1>3

LEMMA FanTypeInit == FanInit => FanTypeInv
<1> SUFFICES ASSUME FanInit PROVE FanTypeInv
    OBVIOUS
<1>1. MaxDeliveries \in Nat
    BY FanOutAssumption
<1>2. run \in [kind : {"free", "entry", "resume", "close"}, todo : SUBSET Items,
               at : {"-", "gate", "guard", "place", "finish", "close"}, fan : BOOLEAN,
               sink : Acks, outs : SUBSET Outcomes] /\ run.at = "-"
    BY DEF FanInit, Free, Acks
<1>3. poll \in [at : {"idle", "visit", "lock", "after"}, todo : SUBSET Ids] /\ poll.at = "idle"
    BY DEF FanInit, Rest
<1>4. spent \in [deliveries : Nat, closes : Nat, troubles : Nat] /\ spent.deliveries = 0
    BY DEF FanInit
<1>5. fanRow \in [Ids -> Statuses]
    BY DEF FanInit, Statuses
<1>6. /\ fanExec \in [Ids -> {"none", "open", "error", "closed"}]
      /\ order \in [Ids -> {"none", "working", "filled", "refused", "closed"}]
      /\ park \in [Ids -> {"none", "waiting", "executed", "rejected", "cancelled", "expired"}]
    BY DEF FanInit
<1>7. acct \in [Ids -> Subs \cup {0}] /\ owner \in [Ids -> Subs \cup {0}] /\ fanSent \in [Subs -> Nat]
    BY DEF FanInit
<1>8. /\ active \subseteq Subs /\ late \subseteq Ids /\ firsts \subseteq Subs
      /\ old \in BOOLEAN /\ timer \in BOOLEAN /\ heard \in Heard
    BY DEF FanInit, Heard
<1>9. queued = 0
    BY DEF FanInit
<1> QED
    BY <1>1, <1>2, <1>3, <1>4, <1>5, <1>6, <1>7, <1>8, <1>9 DEF FanTypeInv

(* A lineage's turn.                                                       *)
LEMMA TypeTurn == ASSUME FanTypeInv, Gate \/ Defer \/ Insert \/ Place PROVE FanTypeInv'
<1> DEFINE Ended ==
        /\ fanRow' \in [Ids -> Statuses] /\ heard' \in Heard
        /\ run' \in [kind : {"free", "entry", "resume", "close"}, todo : SUBSET Items,
                     at : {"-", "gate", "guard", "place", "finish", "close"}, fan : BOOLEAN,
                     sink : Acks, outs : SUBSET Outcomes]
        /\ run'.at \in {"gate", "guard", "place", "close"} => run'.todo # {}
<1>1. run.at \in {"gate", "guard", "place"}
    BY DEF Gate, Defer, Insert, Place
<1>2. Now \in Items /\ Now.id \in Ids /\ Now.sub \in Subs
    BY <1>1, NowIn DEF FanTypeInv, Items
<1>3. ASSUME NEW ack \in Acks, NEW threw \in BOOLEAN, NEW status \in Statuses,
             End(ack, threw, status)
      PROVE Ended
    BY <1>1, <1>3, EndType
<1>4. Statuses = {"none", "pending", "executed", "rejected", "deferred", "expired", "closed"}
      /\ fanRow[Now.id] \in Statuses /\ Acks = {"none", "executed", "rejected", "deferred"}
    BY <1>2 DEF Statuses, FanTypeInv, Acks
<1>5. ASSUME Gate PROVE FanTypeInv'
    <2>1. Ended /\ (spent' = spent \/ spent' = [spent EXCEPT !["troubles"] = spent["troubles"] + 1])
        <3>1. CASE /\ run' = [run EXCEPT !.at = "guard"] /\ fanRow' = [fanRow EXCEPT ![Now.id] = Recorded]
                   /\ UNCHANGED <<heard, spent>>
            BY <1>1, <1>2, <1>4, <3>1 DEF FanTypeInv, Recorded
        <3>2. CASE End("rejected", FALSE, "rejected")
            BY <1>3, <1>4, <1>5, <3>2 DEF Gate, Spend
        <3> QED
            BY <1>5, <3>1, <3>2 DEF Gate, Spend
    <2> HIDE DEF Ended
    <2>2. spent' \in [deliveries : Nat, closes : Nat, troubles : Nat] /\ spent'.deliveries = spent.deliveries
        BY <2>1 DEF FanTypeInv
    <2> USE DEF Ended
    <2> QED
        BY <1>5, <2>1, <2>2 DEF FanTypeInv, Gate, venue, world
<1>6. ASSUME Defer PROVE FanTypeInv'
    <2>1. Ended
        BY <1>3, <1>4, <1>6 DEF Defer
    <2>2. /\ park' = park \/ park' = [park EXCEPT ![Now.id] = "waiting"]
          /\ owner' = owner \/ owner' = [owner EXCEPT ![Now.id] = Now.sub]
          /\ timer' = timer \/ timer' = TRUE
        BY <1>6 DEF Defer
    <2>3. park' \in [Ids -> {"none", "waiting", "executed", "rejected", "cancelled", "expired"}]
        BY <1>2, <2>2 DEF FanTypeInv
    <2>4. owner' \in [Ids -> Subs \cup {0}] /\ timer' \in BOOLEAN
        BY <1>2, <2>2 DEF FanTypeInv
    <2> QED
        BY <1>6, <2>1, <2>3, <2>4 DEF FanTypeInv, Defer, venue, world
<1>7. ASSUME Insert PROVE FanTypeInv'
    <2>1. CASE fanExec[Now.id] = "none"
        <3>1. /\ fanExec' = [fanExec EXCEPT ![Now.id] = "open"] /\ acct' = [acct EXCEPT ![Now.id] = Now.sub]
              /\ run' = [run EXCEPT !.at = "place"]
            BY <1>7, <2>1 DEF Insert
        <3>3. fanExec' \in [Ids -> {"none", "open", "error", "closed"}] /\ acct' \in [Ids -> Subs \cup {0}]
            BY <1>2, <3>1 DEF FanTypeInv
        <3>4. Ended
            BY <1>1, <1>7, <2>1, <3>1 DEF FanTypeInv, Insert
        <3> QED
            BY <1>7, <2>1, <3>3, <3>4 DEF FanTypeInv, Insert, venue, world
    <2>2. CASE fanExec[Now.id] # "none"
        <3>1. Ended
            BY <1>3, <1>4, <1>7, <2>2 DEF Insert
        <3> QED
            BY <1>7, <2>2, <3>1 DEF FanTypeInv, Insert, venue, world
    <2> QED
        BY <2>1, <2>2
<1>8. ASSUME Place PROVE FanTypeInv'
    <2>1. Ended
        BY <1>3, <1>4, <1>8 DEF Place
    <2>2. \E st \in {"filled", "refused", "working"} : Sends(st)
        BY <1>8 DEF Place
    <2>3. /\ order' \in [Ids -> {"none", "working", "filled", "refused", "closed"}]
          /\ fanSent' \in [Subs -> Nat]
        BY <1>2, <2>2 DEF Sends, FanTypeInv
    <2>4. fanExec' \in [Ids -> {"none", "open", "error", "closed"}]
        BY <1>2, <1>8 DEF Place, FanTypeInv
    <2>5. spent' = spent \/ spent' = [spent EXCEPT !["troubles"] = spent["troubles"] + 1]
        BY <1>8 DEF Place, Spend
    <2>6. spent' \in [deliveries : Nat, closes : Nat, troubles : Nat] /\ spent'.deliveries = spent.deliveries
        BY <2>5 DEF FanTypeInv
    <2> QED
        BY <1>8, <2>1, <2>3, <2>4, <2>6 DEF FanTypeInv, Place, world
<1> QED
    BY <1>5, <1>6, <1>7, <1>8

(* A run that throws: its fan-out goes on, or the lock is free and a poll  *)
(* that resumed it is over.                                                *)
LEMMA TypeThrow == ASSUME FanTypeInv, Throw PROVE FanTypeInv'
<1>1. spent' \in [deliveries : Nat, closes : Nat, troubles : Nat] /\ spent'.deliveries = spent.deliveries
    BY DEF Throw, Spend, FanTypeInv
<1>2. UNCHANGED <<fanExec, acct, park, owner, order, fanSent, active, late, old, queued, timer, firsts>>
    BY DEF Throw, venue, world
<1>3. CASE run.fan
    <2>1. End("none", TRUE, "rejected") /\ UNCHANGED poll /\ run.at = "gate"
        BY <1>3 DEF Throw
    <2>2. "none" \in Acks /\ "rejected" \in Statuses
        BY DEF Acks, Statuses
    <2>3. /\ fanRow' \in [Ids -> Statuses] /\ heard' \in Heard
          /\ run' \in [kind : {"free", "entry", "resume", "close"}, todo : SUBSET Items,
                       at : {"-", "gate", "guard", "place", "finish", "close"}, fan : BOOLEAN,
                       sink : Acks, outs : SUBSET Outcomes]
          /\ run'.at \in {"-", "gate", "finish"}
          /\ run'.at = "gate" => run'.todo # {}
        BY <2>1, <2>2, EndType
    <2> QED
        BY <1>1, <1>2, <2>1, <2>3 DEF FanTypeInv
<1>4. CASE ~run.fan
    <2>1. run' = Free /\ (poll' = poll \/ poll' = Rest) /\ UNCHANGED <<fanRow, heard>>
        BY <1>4 DEF Throw
    <2>2. /\ run' \in [kind : {"free", "entry", "resume", "close"}, todo : SUBSET Items,
                       at : {"-", "gate", "guard", "place", "finish", "close"}, fan : BOOLEAN,
                       sink : Acks, outs : SUBSET Outcomes]
          /\ run'.at = "-"
        BY <2>1 DEF Free, Acks
    <2>3. poll' \in [at : {"idle", "visit", "lock", "after"}, todo : SUBSET Ids]
          /\ (poll'.at # "idle" => poll'.todo # {})
        BY <2>1 DEF Rest, FanTypeInv
    <2> QED
        BY <1>1, <1>2, <2>1, <2>2, <2>3 DEF FanTypeInv
<1> QED
    BY <1>3, <1>4

LEMMA AckType ==
    ASSUME FanTypeInv, NEW i \in Ids, FanAck(i, "rejected")
    PROVE /\ heard' \in Heard
          /\ run' = run \/ run' = [run EXCEPT !.sink = "rejected"]
          /\ run' \in [kind : {"free", "entry", "resume", "close"}, todo : SUBSET Items,
                       at : {"-", "gate", "guard", "place", "finish", "close"}, fan : BOOLEAN,
                       sink : Acks, outs : SUBSET Outcomes]
          /\ run'.at = run.at /\ run'.todo = run.todo
<1>1. heard' = heard
    BY TellType DEF FanAck
<1>2. run' = run \/ run' = [run EXCEPT !.sink = "rejected"]
    BY DEF FanAck
<1> QED
    BY <1>1, <1>2 DEF FanTypeInv, Acks

(* Deliveries, closes, the poller and the surroundings.                    *)
LEMMA TypeArrives == ASSUME FanTypeInv, FanDeliver \/ StartEntry PROVE FanTypeInv'
<1>1. ASSUME FanDeliver PROVE FanTypeInv'
    <2>1. /\ spent'.deliveries = spent.deliveries + 1 /\ spent' \in [deliveries : Nat, closes : Nat, troubles : Nat]
          /\ spent'.deliveries <= MaxDeliveries
        BY <1>1, FanOutAssumption DEF FanDeliver, Spend, FanTypeInv
    <2>0. UNCHANGED <<fanExec, acct, park, owner, order, fanSent, active, late, poll, timer, firsts>>
        BY <1>1 DEF FanDeliver, venue
    <2>2. old' \in BOOLEAN
        BY <1>1 DEF FanDeliver, FanTypeInv
    <2>3. CASE UNCHANGED <<fanRow, run, heard>> /\ (queued' = queued \/ queued' = queued + 1)
        <3>1. queued' \in Nat /\ queued' <= spent'.deliveries
            BY <2>1, <2>3 DEF FanTypeInv
        <3> QED
            BY <2>0, <2>1, <2>2, <2>3, <3>1 DEF FanTypeInv
    <2>4. CASE /\ fanRow' = [fanRow EXCEPT ![Wire] = IF fanRow[Wire] = "none" THEN "expired" ELSE fanRow[Wire]]
               /\ FanAck(Wire, "rejected") /\ UNCHANGED queued
        <3>1. fanRow' \in [Ids -> Statuses]
            BY <2>4, IdsType DEF FanTypeInv, Statuses
        <3> QED
            BY <2>0, <2>1, <2>2, <2>4, <3>1, IdsType, AckType DEF FanTypeInv
    <2> QED
        BY <1>1, <2>3, <2>4 DEF FanDeliver
<1>2. ASSUME StartEntry PROVE FanTypeInv'
    <2>1. queued > 0 /\ queued' = queued - 1
        BY <1>2 DEF StartEntry
    <2>2. CASE active = {}
        <3>1. fanRow' = [fanRow EXCEPT ![Wire] = "rejected"] /\ heard' = heard
              /\ UNCHANGED <<run, firsts>>
            BY <1>2, <2>2, TellType DEF StartEntry
        <3>2. fanRow' \in [Ids -> Statuses]
            BY <3>1, IdsType DEF FanTypeInv, Statuses
        <3> QED
            BY <1>2, <2>1, <3>1, <3>2 DEF FanTypeInv, StartEntry, venue, world
    <2>3. CASE active # {}
        <3>1. /\ fanRow' = [fanRow EXCEPT ![Wire] = IF fanRow[Wire] = "none" THEN "pending" ELSE fanRow[Wire]]
              /\ run' = [Free EXCEPT !.kind = "entry", !.at = "gate", !.todo = Lineages,
                                     !.fan = Cardinality(active) > 1]
              /\ firsts' = firsts \cup {Oldest} /\ UNCHANGED heard
            BY <1>2, <2>3 DEF StartEntry
        <3>2. fanRow' \in [Ids -> Statuses]
            BY <3>1, IdsType DEF FanTypeInv, Statuses
        <3>3. Lineages \subseteq Items /\ Lineages # {} /\ Oldest \in Subs
            BY <2>3, LineagesType, OldestIn DEF FanTypeInv
        <3>4. (Cardinality(active) > 1) \in BOOLEAN
            OBVIOUS
        <3>5. /\ run' \in [kind : {"free", "entry", "resume", "close"}, todo : SUBSET Items,
                           at : {"-", "gate", "guard", "place", "finish", "close"}, fan : BOOLEAN,
                           sink : Acks, outs : SUBSET Outcomes]
              /\ run'.at = "gate" /\ run'.todo # {}
            BY <3>1, <3>3, <3>4 DEF Free, Acks, Outcomes
        <3> QED
            BY <1>2, <2>1, <3>1, <3>2, <3>3, <3>5 DEF FanTypeInv, StartEntry, venue, world
    <2> QED
        BY <2>2, <2>3
<1> QED
    BY <1>1, <1>2

LEMMA TypeAfter ==
    ASSUME FanTypeInv, Finish \/ CloseOne \/ \E i \in Ids : FanResolve(i) PROVE FanTypeInv'
<1>1. ASSUME Finish PROVE FanTypeInv'
    <2>1. Aggregate(run.outs) \in {"executed", "deferred", "pending", "rejected", "none"}
        BY DEF Aggregate
    <2>2. fanRow' \in [Ids -> Statuses]
        BY <1>1, <2>1, IdsType DEF Finish, FanTypeInv, Statuses
    <2>3. heard' \in Heard
        BY <1>1, TellType DEF Finish, FanTypeInv
    <2> QED
        BY <1>1, <2>2, <2>3 DEF Finish, Free, FanTypeInv, Acks, venue, world
<1>2. ASSUME CloseOne PROVE FanTypeInv'
    <2>1. Now \in Items /\ Now.id \in Ids
        BY <1>2, NowIn DEF CloseOne, FanTypeInv, Items
    <2>2. order' = order \/ order' = [order EXCEPT ![Now.id] = "closed"]
        BY <1>2 DEF CloseOne
    <2>3. fanExec' = fanExec \/ fanExec' = [fanExec EXCEPT ![Now.id] = "closed"]
        BY <1>2 DEF CloseOne
    <2>4. fanRow' = fanRow \/ fanRow' = [fanRow EXCEPT ![Now.id] = "closed"]
        BY <1>2 DEF CloseOne
    <2>5. /\ order' \in [Ids -> {"none", "working", "filled", "refused", "closed"}]
          /\ fanExec' \in [Ids -> {"none", "open", "error", "closed"}]
        BY <2>1, <2>2, <2>3 DEF FanTypeInv
    <2>6. fanRow' \in [Ids -> Statuses]
        BY <2>1, <2>4 DEF FanTypeInv, Statuses
    <2>7. run' = Free \/ (run.todo \ {Now} # {} /\ run' = [run EXCEPT !.todo = run.todo \ {Now}])
        BY <1>2, <2>1, NowIn DEF CloseOne, FanTypeInv
    <2>8. /\ run' \in [kind : {"free", "entry", "resume", "close"}, todo : SUBSET Items,
                       at : {"-", "gate", "guard", "place", "finish", "close"}, fan : BOOLEAN,
                       sink : Acks, outs : SUBSET Outcomes]
          /\ run'.at \in {"gate", "guard", "place", "close"} => run'.todo # {}
        <3>1. CASE run' = Free
            BY <3>1 DEF Free, Acks
        <3>2. CASE run.todo \ {Now} # {} /\ run' = [run EXCEPT !.todo = run.todo \ {Now}]
            BY <3>2 DEF FanTypeInv
        <3> QED
            BY <2>7, <3>1, <3>2
    <2> QED
        BY <1>2, <2>5, <2>6, <2>8 DEF CloseOne, FanTypeInv, world
<1>3. ASSUME NEW i \in Ids, FanResolve(i) PROVE FanTypeInv'
    <2>1. order' \in [Ids -> {"none", "working", "filled", "refused", "closed"}]
        BY <1>3 DEF FanResolve, FanTypeInv
    <2>2. fanExec' \in [Ids -> {"none", "open", "error", "closed"}]
        BY <1>3 DEF FanResolve, FanTypeInv
    <2>3. fanRow' \in [Ids -> Statuses]
        BY <1>3 DEF FanResolve, FanTypeInv, Statuses
    <2>4. heard' \in Heard
        BY <1>3, TellType DEF FanResolve
    <2> QED
        BY <1>3, <2>1, <2>2, <2>3, <2>4 DEF FanResolve, FanTypeInv, world
<1> QED
    BY <1>1, <1>2, <1>3

LEMMA TypePolling == ASSUME FanTypeInv, Polling PROVE FanTypeInv'
<1> DEFINE Polls == [at : {"idle", "visit", "lock", "after"}, todo : SUBSET Ids]
<1>1. ASSUME Done, poll.at # "idle" PROVE poll' \in Polls /\ (poll'.at # "idle" => poll'.todo # {})
    <2>1. Row \in poll.todo
        BY <1>1, RowIn DEF FanTypeInv
    <2> QED
        BY <1>1, <2>1 DEF Done, FanTypeInv
<1>2. poll.at # "idle" => Row \in Ids
    BY RowIn DEF FanTypeInv
<1>3. ASSUME NEW i \in Ids, NEW st \in {"executed", "rejected", "expired"}, park' = Resolved(i, st)
      PROVE park' \in [Ids -> {"none", "waiting", "executed", "rejected", "cancelled", "expired"}]
    BY <1>3 DEF Resolved, FanTypeInv
<1>4. ASSUME Tick PROVE FanTypeInv'
    <2>1. poll' = poll \/ (FanWaiting # {} /\ poll' = [at |-> "visit", todo |-> FanWaiting])
        BY <1>4 DEF Tick
    <2>2. FanWaiting \subseteq Ids
        BY DEF FanWaiting
    <2>3. poll' \in Polls /\ (poll'.at # "idle" => poll'.todo # {})
        BY <2>1, <2>2 DEF FanTypeInv
    <2>4. timer' \in BOOLEAN
        BY <1>4 DEF Tick, FanTypeInv
    <2> QED
        BY <1>4, <2>3, <2>4 DEF Tick, FanTypeInv, db, venue, world
<1>5. ASSUME Expire PROVE FanTypeInv'
    <2>1. poll.at # "idle" /\ Done /\ park' = Resolved(Row, "expired")
        BY <1>5 DEF Expire
    <2>2. CASE park[Row] = "waiting"
        <3>1. fanRow' = [fanRow EXCEPT ![Row] = "expired"] /\ FanAck(Row, "rejected")
            BY <1>5, <2>2 DEF Expire
        <3>2. fanRow' \in [Ids -> Statuses]
            BY <1>2, <2>1, <3>1 DEF FanTypeInv, Statuses
        <3> QED
            BY <1>1, <1>2, <1>3, <1>5, <2>1, <3>1, <3>2, AckType DEF Expire, FanTypeInv, venue, world
    <2>3. CASE park[Row] # "waiting"
        BY <1>1, <1>2, <1>3, <1>5, <2>1, <2>3 DEF Expire, FanTypeInv, venue, world
    <2> QED
        BY <2>2, <2>3
<1>6. ASSUME Visit PROVE FanTypeInv'
    <2>1. poll' \in Polls /\ (poll'.at # "idle" => poll'.todo # {})
        <3>1. CASE poll' = [poll EXCEPT !.at = "lock"]
            BY <1>6, <3>1 DEF Visit, FanTypeInv
        <3> QED
            BY <1>1, <1>6, <3>1 DEF Visit
    <2> QED
        BY <1>6, <2>1 DEF Visit, FanTypeInv, db, venue, world
<1>7. ASSUME Resume PROVE FanTypeInv'
    <2>1. poll' \in Polls /\ (poll'.at # "idle" => poll'.todo # {})
        BY <1>7 DEF Resume, FanTypeInv
    <2>2. Row \in Ids
        BY <1>2, <1>7 DEF Resume
    <2>3. CASE owner[Row] \in active
        <3>1. run' = [Free EXCEPT !.kind = "resume", !.at = "gate", !.todo = {Item(Row, owner[Row])}]
              /\ UNCHANGED <<fanRow, heard>>
            BY <1>7, <2>3 DEF Resume
        <3>2. Item(Row, owner[Row]) \in Items
            BY <2>2, <2>3, ItemType DEF FanTypeInv
        <3>3. /\ run' \in [kind : {"free", "entry", "resume", "close"}, todo : SUBSET Items,
                           at : {"-", "gate", "guard", "place", "finish", "close"}, fan : BOOLEAN,
                           sink : Acks, outs : SUBSET Outcomes]
              /\ run'.todo # {}
            BY <3>1, <3>2 DEF Free, Acks
        <3> QED
            BY <1>7, <2>1, <3>1, <3>3 DEF Resume, FanTypeInv, venue, world
    <2>4. CASE owner[Row] \notin active
        <3>1. fanRow' = [fanRow EXCEPT ![Row] = "rejected"] /\ UNCHANGED run
              /\ heard' = heard
            BY <1>7, <2>4, TellType DEF Resume
        <3>2. fanRow' \in [Ids -> Statuses]
            BY <2>2, <3>1 DEF FanTypeInv, Statuses
        <3> QED
            BY <1>7, <2>1, <3>1, <3>2 DEF Resume, FanTypeInv, venue, world
    <2> QED
        BY <2>3, <2>4
<1>8. ASSUME Resumed PROVE FanTypeInv'
    <2>1. poll.at # "idle" /\ Done
        BY <1>8 DEF Resumed
    <2>2. park' = park \/ \E st \in {"executed", "rejected", "expired"} : park' = Resolved(Row, st)
        BY <1>8 DEF Resumed
    <2>3. park' \in [Ids -> {"none", "waiting", "executed", "rejected", "cancelled", "expired"}]
        BY <1>2, <1>3, <2>1, <2>2 DEF FanTypeInv
    <2> QED
        BY <1>1, <1>8, <2>1, <2>3 DEF Resumed, FanTypeInv, venue, world
<1> QED
    BY <1>4, <1>5, <1>6, <1>7, <1>8 DEF Polling

LEMMA TypeWorld ==
    ASSUME FanTypeInv, FitInv, StartClose \/ FanCrash \/ DeadlinePasses \/ \E s \in Subs : Pause(s)
    PROVE FanTypeInv'
<1>1. ASSUME StartClose PROVE FanTypeInv'
    <2>1. /\ spent'.deliveries = spent.deliveries /\ spent' \in [deliveries : Nat, closes : Nat, troubles : Nat]
        BY <1>1 DEF StartClose, Spend, FanTypeInv
    <2>2. park' \in [Ids -> {"none", "waiting", "executed", "rejected", "cancelled", "expired"}]
        BY <1>1 DEF StartClose, FanTypeInv
    <2>3. fanRow' \in [Ids -> Statuses]
        BY <1>1 DEF StartClose, FanTypeInv, Statuses
    <2>4. heard' \in Heard
        BY <1>1, TellType DEF StartClose, FanTypeInv
    <2>5. ASSUME NEW i \in Holders PROVE Item(i, acct[i]) \in Items
        BY <2>5, ItemType DEF Holders, FitInv, Fits, FanTypeInv
    <2>6. /\ run' \in [kind : {"free", "entry", "resume", "close"}, todo : SUBSET Items,
                       at : {"-", "gate", "guard", "place", "finish", "close"}, fan : BOOLEAN,
                       sink : Acks, outs : SUBSET Outcomes]
          /\ run'.at \in {"gate", "guard", "place", "close"} => run'.todo # {}
        <3> DEFINE todo == {Item(i, acct[i]) : i \in Holders}
        <3>1. todo \subseteq Items /\ (Holders # {} => todo # {})
            BY <2>5
        <3>2. run' = Free \/ (Holders # {} /\ run' = [Free EXCEPT !.kind = "close", !.at = "close", !.todo = todo])
            BY <1>1 DEF StartClose
        <3> HIDE DEF todo
        <3> QED
            <4>1. CASE run' = Free
                BY <4>1 DEF Free, Acks
            <4>2. CASE run' = [Free EXCEPT !.kind = "close", !.at = "close", !.todo = todo] /\ Holders # {}
                BY <3>1, <4>2 DEF Free, Acks
            <4> QED
                BY <3>2, <4>1, <4>2
    <2>7. UNCHANGED <<fanExec, acct, owner, order, fanSent, active, late, old, queued, poll, timer, firsts>>
        BY <1>1 DEF StartClose, venue, world
    <2> QED
        BY <2>1, <2>2, <2>3, <2>4, <2>6, <2>7 DEF FanTypeInv
<1>2. ASSUME FanCrash PROVE FanTypeInv'
    <2>1. /\ spent'.deliveries = spent.deliveries /\ spent' \in [deliveries : Nat, closes : Nat, troubles : Nat]
        BY <1>2 DEF FanCrash, Spend, FanTypeInv
    <2>2. /\ order' \in [Ids -> {"none", "working", "filled", "refused", "closed"}]
          /\ fanSent' \in [Subs -> Nat]
        <3>1. CASE UNCHANGED <<order, fanSent>>
            BY <3>1 DEF FanTypeInv
        <3>2. CASE run.at = "place" /\ Sends("filled")
            <4>1. Now.id \in Ids /\ Now.sub \in Subs
                BY <3>2, NowIn DEF FanTypeInv, Items
            <4> QED
                BY <3>2, <4>1 DEF Sends, FanTypeInv
        <3> QED
            BY <1>2, <3>1, <3>2 DEF FanCrash
    <2>3. /\ run' = Free /\ poll' = Rest /\ queued' = 0 /\ timer' = TRUE
          /\ UNCHANGED <<fanRow, fanExec, acct, park, owner, active, late, old, firsts>>
          /\ heard' = Missed \/ heard' = heard
        BY <1>2 DEF FanCrash, db, world
    <2>4. heard' \in Heard
        BY <2>3, TellType DEF FanTypeInv
    <2>5. /\ run' \in [kind : {"free", "entry", "resume", "close"}, todo : SUBSET Items,
                       at : {"-", "gate", "guard", "place", "finish", "close"}, fan : BOOLEAN,
                       sink : Acks, outs : SUBSET Outcomes]
          /\ run'.at = "-"
          /\ poll' \in [at : {"idle", "visit", "lock", "after"}, todo : SUBSET Ids] /\ poll'.at = "idle"
        BY <2>3 DEF Free, Rest, Acks
    <2> QED
        BY <2>1, <2>2, <2>3, <2>4, <2>5 DEF FanTypeInv
<1>3. ASSUME DeadlinePasses PROVE FanTypeInv'
    BY <1>3 DEF DeadlinePasses, FanWaiting, FanTypeInv, db, venue
<1>4. ASSUME NEW s \in Subs, Pause(s) PROVE FanTypeInv'
    <2>1. /\ spent'.deliveries = spent.deliveries /\ spent' \in [deliveries : Nat, closes : Nat, troubles : Nat]
        BY <1>4 DEF Pause, Spend, FanTypeInv
    <2> QED
        BY <1>4, <2>1 DEF Pause, FanTypeInv, db, venue
<1> QED
    BY <1>1, <1>2, <1>3, <1>4

LEMMA FanTypeStep == ASSUME FanTypeInv, FitInv, [FanNext]_fanVars PROVE FanTypeInv'
<1>1. CASE UNCHANGED fanVars
    BY <1>1 DEF fanVars, db, venue, world, FanTypeInv
<1> QED
    BY <1>1, TypeTurn, TypeThrow, TypeArrives, TypeAfter, TypePolling, TypeWorld DEF FanNext, Steps

----------------------------------------------------------------------------
(* Where a lineage is kept.                                                *)
LEMMA FitsMore ==
    ASSUME NEW i, NEW s, Fits(i, s), firsts \subseteq firsts' PROVE Fits(i, s)'
BY DEF Fits

LEMMA FitInit == FanInit => FitInv
BY DEF FanInit, FitInv, Free, Rest

(* A step that leaves the tables alone and hands the lock to nobody new.   *)
LEMMA FitKept ==
    ASSUME FanTypeInv, FitInv, UNCHANGED <<fanExec, acct, park, owner, order, firsts, poll>>,
           \/ run'.at \notin {"gate", "guard", "place"}
           \/ run'.at # "place" /\ run'.todo \subseteq run.todo /\ run.at \in {"gate", "guard", "place"}
           \/ run'.at = run.at /\ run'.todo = run.todo
    PROVE FitInv'
<1>1. /\ \A i \in Ids : fanExec'[i] # "none" => Fits(i, acct[i])'
      /\ \A i \in Ids : park'[i] # "none" => Fits(i, owner[i])'
      /\ \A i \in poll'.todo : park'[i] # "none"
      /\ \A i \in Ids : order'[i] # "none" => fanExec'[i] # "none"
    BY DEF FitInv, Fits
<1>2. run'.at \in {"gate", "guard", "place"} => \A x \in run'.todo : Fits(x.id, x.sub)'
    BY DEF FitInv, Fits
<1>3. run'.at = "place" => run'.todo = run.todo /\ run.at = "place"
    OBVIOUS
<1>4. run'.todo = run.todo => Now' = Now
    BY DEF Now
<1> QED
    BY <1>1, <1>2, <1>3, <1>4 DEF FitInv

LEMMA FitTurn == ASSUME FanTypeInv, FitInv, Gate \/ Defer \/ Insert \/ Place PROVE FitInv'
<1>1. run.at \in {"gate", "guard", "place"}
    BY DEF Gate, Defer, Insert, Place
<1>2. Now \in run.todo /\ Now \in Items /\ Now.id \in Ids /\ Now.sub \in Subs /\ Fits(Now.id, Now.sub)
    BY <1>1, NowIn DEF FanTypeInv, Items, FitInv
<1>3. fanRow[Now.id] \in Statuses /\ {"rejected", "deferred", "executed", "pending"} \subseteq Statuses
      /\ {"none", "executed", "rejected", "deferred"} \subseteq Acks
    BY <1>2 DEF Statuses, FanTypeInv, Acks
<1>4. ASSUME NEW ack \in Acks, NEW threw \in BOOLEAN, NEW status \in Statuses,
             End(ack, threw, status)
      PROVE /\ run'.at \in {"-", "gate", "finish"}
            /\ run'.at = "gate" => run'.todo \subseteq run.todo
    BY <1>1, <1>4, EndType
<1>5. ASSUME run'.at \in {"-", "gate", "finish"}, run'.at = "gate" => run'.todo \subseteq run.todo,
             firsts' = firsts
      PROVE run'.at \in {"gate", "guard", "place"} => \A x \in run'.todo : Fits(x.id, x.sub)'
    BY <1>1, <1>5 DEF FitInv, Fits
<1>6. ASSUME Gate PROVE FitInv'
    <2>1. UNCHANGED <<fanExec, acct, park, owner, order, firsts, poll>>
        BY <1>6 DEF Gate, venue
    <2>2. CASE run' = [run EXCEPT !.at = "guard"]
        <3>1. run'.at = "guard" /\ run'.todo = run.todo
            BY <2>2 DEF FanTypeInv
        <3> QED
            BY <1>1, <2>1, <3>1, FitKept
    <2>3. CASE End("rejected", FALSE, "rejected")
        <3>1. /\ run'.at \in {"-", "gate", "finish"}
              /\ run'.at = "gate" => run'.todo \subseteq run.todo
            BY <1>3, <1>4, <2>3
        <3> QED
            BY <1>1, <2>1, <3>1, FitKept
    <2> QED
        BY <1>6, <2>2, <2>3 DEF Gate
<1>7. ASSUME Defer PROVE FitInv'
    <2>1. /\ run'.at \in {"-", "gate", "finish"}
          /\ run'.at = "gate" => run'.todo \subseteq run.todo
        BY <1>3, <1>4, <1>7 DEF Defer
    <2>2. UNCHANGED <<fanExec, acct, order, firsts, poll>>
        BY <1>7 DEF Defer, venue
    <2>3. CASE park[Now.id] = "none"
        <3>1. park' = [park EXCEPT ![Now.id] = "waiting"] /\ owner' = [owner EXCEPT ![Now.id] = Now.sub]
            BY <1>7, <2>3 DEF Defer
        <3>2. ASSUME NEW i \in Ids PROVE park'[i] # "none" => Fits(i, owner'[i])
            BY <1>2, <3>1 DEF FitInv, FanTypeInv
        <3>3. \A i \in Ids : park[i] # "none" => park'[i] # "none"
            BY <3>1 DEF FanTypeInv
        <3>4. \A i \in poll.todo : park'[i] # "none"
            BY <3>3 DEF FitInv, FanTypeInv
        <3> QED
            BY <1>5, <2>1, <2>2, <3>2, <3>4 DEF FitInv, Fits
    <2>4. CASE park[Now.id] # "none"
        <3>1. UNCHANGED <<park, owner>>
            BY <1>7, <2>4 DEF Defer
        <3> QED
            BY <1>1, <2>1, <2>2, <3>1, FitKept
    <2> QED
        BY <2>3, <2>4
<1>8. ASSUME Insert PROVE FitInv'
    <2>1. UNCHANGED <<park, owner, order, firsts, poll>>
        BY <1>8 DEF Insert, venue
    <2>2. CASE fanExec[Now.id] = "none"
        <3>1. /\ fanExec' = [fanExec EXCEPT ![Now.id] = "open"] /\ acct' = [acct EXCEPT ![Now.id] = Now.sub]
              /\ run' = [run EXCEPT !.at = "place"]
            BY <1>8, <2>2 DEF Insert
        <3>2. run'.at = "place" /\ run'.todo = run.todo /\ Now' = Now
            BY <3>1 DEF FanTypeInv, Now
        <3>3. \A i \in Ids : fanExec'[i] # "none" => Fits(i, acct'[i])
            BY <1>2, <3>1 DEF FitInv, FanTypeInv
        <3>4. \A i \in Ids : fanExec[i] # "none" => fanExec'[i] # "none"
            BY <3>1 DEF FanTypeInv
        <3>5. order[Now.id] = "none" /\ fanExec'[Now.id] = "open" /\ acct'[Now.id] = Now.sub
            BY <1>2, <2>2, <3>1 DEF FitInv, FanTypeInv
        <3> QED
            BY <1>1, <2>1, <3>2, <3>3, <3>4, <3>5 DEF FitInv, Fits
    <2>3. CASE fanExec[Now.id] # "none"
        <3>1. UNCHANGED <<fanExec, acct>> /\ End("none", FALSE, fanRow[Now.id])
            BY <1>8, <2>3 DEF Insert
        <3> QED
            BY <1>1, <1>3, <1>4, <2>1, <3>1, FitKept
    <2> QED
        BY <2>2, <2>3
<1>9. ASSUME Place PROVE FitInv'
    <2>1. /\ run'.at \in {"-", "gate", "finish"}
          /\ run'.at = "gate" => run'.todo \subseteq run.todo
        BY <1>3, <1>4, <1>9 DEF Place
    <2>2. run.at = "place" /\ UNCHANGED <<acct, park, owner, firsts, poll>>
        BY <1>9 DEF Place
    <2>3. fanExec' = fanExec \/ fanExec' = [fanExec EXCEPT ![Now.id] = "error"]
        BY <1>9 DEF Place
    <2>4. \A i \in Ids : fanExec[i] # "none" <=> fanExec'[i] # "none"
        BY <1>2, <2>2, <2>3 DEF FitInv, FanTypeInv
    <2>5. \E st \in {"filled", "refused", "working"} : Sends(st)
        BY <1>9 DEF Place
    <2>6. \A i \in Ids : order'[i] # "none" => fanExec'[i] # "none"
        BY <1>2, <2>2, <2>4, <2>5 DEF Sends, FitInv, FanTypeInv
    <2> QED
        BY <1>5, <2>1, <2>2, <2>4, <2>6 DEF FitInv, Fits
<1> QED
    BY <1>6, <1>7, <1>8, <1>9

LEMMA FitThrow == ASSUME FanTypeInv, FitInv, Throw PROVE FitInv'
<1>1. UNCHANGED <<fanExec, acct, park, owner, order, firsts>> /\ run.at = "gate"
    BY DEF Throw, venue
<1>2. CASE run.fan
    <2>1. End("none", TRUE, "rejected") /\ UNCHANGED poll
        BY <1>2 DEF Throw
    <2>2. "none" \in Acks /\ "rejected" \in Statuses
        BY DEF Acks, Statuses
    <2>3. run'.at \in {"-", "gate", "finish"} /\ (run'.at = "gate" => run'.todo \subseteq run.todo)
        BY <1>1, <2>1, <2>2, EndType
    <2> QED
        BY <1>1, <2>1, <2>3, FitKept
<1>3. CASE ~run.fan
    <2>1. run'.at = "-" /\ (poll' = poll \/ poll'.todo = {})
        BY <1>3 DEF Throw, Free, Rest
    <2> QED
        BY <1>1, <2>1 DEF FitInv, Fits
<1> QED
    BY <1>2, <1>3

(* A delivery hands its lineages out: the wire id to the oldest active     *)
(* subscription, a child id to every other, which has that one before it.  *)
LEMMA FitArrives == ASSUME FanTypeInv, FitInv, FanDeliver \/ StartEntry PROVE FitInv'
<1>1. ASSUME FanDeliver PROVE FitInv'
    <2>1. UNCHANGED <<fanExec, acct, park, owner, order, firsts, poll>>
        BY <1>1 DEF FanDeliver, venue
    <2>2. run' = run \/ FanAck(Wire, "rejected")
        BY <1>1 DEF FanDeliver
    <2>3. run'.at = run.at /\ run'.todo = run.todo
        BY <2>2, AckType, IdsType
    <2> QED
        BY <2>1, <2>3, FitKept
<1>2. ASSUME StartEntry PROVE FitInv'
    <2>1. UNCHANGED <<fanExec, acct, park, owner, order, poll>>
        BY <1>2 DEF StartEntry, venue
    <2>2. CASE active = {}
        <3>1. UNCHANGED <<run, firsts>>
            BY <1>2, <2>2 DEF StartEntry
        <3> QED
            BY <2>1, <3>1, FitKept
    <2>3. CASE active # {}
        <3>1. run'.at = "gate" /\ run'.todo = Lineages /\ firsts' = firsts \cup {Oldest}
            BY <1>2, <2>3 DEF StartEntry, Free
        <3>2. Oldest \in Subs
            BY <2>3, OldestIn DEF FanTypeInv
        <3>3. ASSUME NEW x \in run'.todo PROVE Fits(x.id, x.sub)'
            <4>1. PICK s \in active : x = Item(IF s = Oldest THEN Wire ELSE s, s)
                BY <3>1, <3>3 DEF Lineages
            <4>2. x.id = (IF s = Oldest THEN Wire ELSE s) /\ x.sub = s /\ s \in Subs
                BY <4>1 DEF Item, FanTypeInv
            <4> QED
                BY <3>1, <3>2, <4>2 DEF Fits
        <3>4. /\ \A i \in Ids : fanExec[i] # "none" => Fits(i, acct[i])'
              /\ \A i \in Ids : park[i] # "none" => Fits(i, owner[i])'
            BY <2>1, <3>1 DEF FitInv, Fits
        <3> QED
            BY <2>1, <3>1, <3>3, <3>4 DEF FitInv
    <2> QED
        BY <2>2, <2>3
<1> QED
    BY <1>1, <1>2

LEMMA FitAfter ==
    ASSUME FanTypeInv, FitInv, Finish \/ CloseOne \/ \E i \in Ids : FanResolve(i) PROVE FitInv'
<1>1. ASSUME Finish PROVE FitInv'
    <2>1. UNCHANGED <<fanExec, acct, park, owner, order, firsts, poll>> /\ run'.at = "-"
        BY <1>1 DEF Finish, venue, Free
    <2> QED
        BY <2>1, FitKept
<1>2. ASSUME UNCHANGED <<acct, park, owner, firsts, poll>>,
             \A i \in Ids : (order'[i] # "none" <=> order[i] # "none") /\ (fanExec'[i] # "none" <=> fanExec[i] # "none"),
             run'.at \notin {"gate", "guard", "place"}
      PROVE FitInv'
    BY <1>2 DEF FitInv, Fits
<1>3. ASSUME CloseOne PROVE FitInv'
    <2>1. run'.at \notin {"gate", "guard", "place"} /\ UNCHANGED <<acct, park, owner, firsts, poll>>
        BY <1>3 DEF CloseOne, Free, FanTypeInv
    <2>2. CASE order[Now.id] = "filled"
        <3>1. order' = [order EXCEPT ![Now.id] = "closed"] /\ fanExec' = [fanExec EXCEPT ![Now.id] = "closed"]
            BY <1>3, <2>2 DEF CloseOne
        <3>2. Now.id \in Ids
            BY <1>3, NowIn DEF CloseOne, FanTypeInv, Items
        <3>3. fanExec[Now.id] # "none"
            BY <2>2, <3>2 DEF FitInv
        <3>4. \A i \in Ids : (order'[i] # "none" <=> order[i] # "none") /\ (fanExec'[i] # "none" <=> fanExec[i] # "none")
            BY <2>2, <3>1, <3>2, <3>3 DEF FanTypeInv
        <3> QED
            BY <1>2, <2>1, <3>4
    <2>3. CASE order[Now.id] # "filled"
        BY <1>2, <1>3, <2>1, <2>3 DEF CloseOne
    <2> QED
        BY <2>2, <2>3
<1>4. ASSUME NEW i \in Ids, FanResolve(i) PROVE FitInv'
    <2>1. /\ order[i] = "working" /\ UNCHANGED <<acct, park, owner, run, firsts, poll>>
          /\ order' = [order EXCEPT ![i] = "filled"] \/ order' = [order EXCEPT ![i] = "refused"]
          /\ fanExec' = [fanExec EXCEPT ![i] = "open"] \/ fanExec' = [fanExec EXCEPT ![i] = "error"]
        BY <1>4 DEF FanResolve
    <2>2. fanExec[i] # "none"
        BY <2>1 DEF FitInv
    <2>3. \A j \in Ids : (order'[j] # "none" <=> order[j] # "none") /\ (fanExec'[j] # "none" <=> fanExec[j] # "none")
        BY <2>1, <2>2 DEF FanTypeInv
    <2>4. run.at = "place" => Now.id \in Ids /\ Now.id # i
        BY <2>1, NowIn DEF FanTypeInv, Items, FitInv
    <2>5. run.at = "place" => fanExec'[Now.id] = fanExec[Now.id] /\ order'[Now.id] = order[Now.id]
        BY <2>1, <2>4 DEF FanTypeInv
    <2>6. Now' = Now
        BY <2>1 DEF Now
    <2>7. /\ \A j \in Ids : fanExec'[j] # "none" => Fits(j, acct[j])'
          /\ \A j \in Ids : park'[j] # "none" => Fits(j, owner[j])'
          /\ run'.at \in {"gate", "guard", "place"} => \A x \in run'.todo : Fits(x.id, x.sub)'
          /\ \A j \in Ids : order'[j] # "none" => fanExec'[j] # "none"
        BY <2>1, <2>3 DEF FitInv, Fits
    <2> QED
        BY <2>1, <2>5, <2>6, <2>7 DEF FitInv
<1> QED
    BY <1>1, <1>3, <1>4

(* Parked entries move on, and their rows keep their owners.               *)
LEMMA FitParked ==
    ASSUME FanTypeInv, FitInv, UNCHANGED <<fanExec, acct, owner, order, firsts>>,
           \A i \in Ids : park'[i] # "none" <=> park[i] # "none",
           poll'.todo \subseteq Ids, \A i \in poll'.todo : park[i] # "none",
           \/ run'.at \notin {"gate", "guard", "place"}
           \/ run'.at = run.at /\ run'.todo = run.todo
           \/ run'.at = "gate" /\ \A x \in run'.todo : Fits(x.id, x.sub)
    PROVE FitInv'
<1>1. run'.todo = run.todo => Now' = Now
    BY DEF Now
<1> QED
    BY <1>1 DEF FitInv, Fits

LEMMA FitPolling == ASSUME FanTypeInv, FitInv, Polling PROVE FitInv'
<1>1. poll.at # "idle" => Row \in poll.todo /\ Row \in Ids /\ park[Row] # "none"
    BY RowIn DEF FanTypeInv, FitInv
<1>2. ASSUME Done \/ poll' = poll \/ \E st : poll' = [poll EXCEPT !.at = st]
      PROVE poll'.todo \subseteq Ids /\ \A i \in poll'.todo : park[i] # "none"
    BY <1>2 DEF Done, FanTypeInv, FitInv
<1>3. ASSUME NEW i \in Ids, NEW st \in {"executed", "rejected", "expired"}, park' = Resolved(i, st)
      PROVE \A j \in Ids : park'[j] # "none" <=> park[j] # "none"
    BY <1>3 DEF Resolved, FanTypeInv
<1>4. ASSUME Tick PROVE FitInv'
    <2>1. poll' = poll \/ poll' = [at |-> "visit", todo |-> FanWaiting]
        BY <1>4 DEF Tick
    <2>2. poll'.todo \subseteq Ids /\ \A i \in poll'.todo : park[i] # "none"
        BY <2>1 DEF FanWaiting, FanTypeInv, FitInv
    <2> QED
        BY <1>4, <2>2, FitParked DEF Tick, db, venue
<1>5. ASSUME Expire PROVE FitInv'
    <2>1. poll.at # "idle" /\ Done /\ park' = Resolved(Row, "expired")
        BY <1>5 DEF Expire
    <2>2. run' = run \/ FanAck(Row, "rejected")
        BY <1>5 DEF Expire
    <2>3. run'.at = run.at /\ run'.todo = run.todo
        BY <1>1, <2>1, <2>2, AckType
    <2>4. UNCHANGED <<fanExec, acct, owner, order, firsts>>
        BY <1>5 DEF Expire, venue
    <2> QED
        BY <1>1, <1>2, <1>3, <2>1, <2>3, <2>4, FitParked
<1>6. ASSUME Visit PROVE FitInv'
    <2>1. Done \/ poll' = [poll EXCEPT !.at = "lock"]
        BY <1>6 DEF Visit
    <2>2. poll'.todo \subseteq Ids /\ \A i \in poll'.todo : park[i] # "none"
        BY <1>2, <2>1
    <2> QED
        BY <1>6, <2>2, FitParked DEF Visit, db, venue
<1>7. ASSUME Resume PROVE FitInv'
    <2>1. poll' = [poll EXCEPT !.at = "after"] /\ UNCHANGED <<fanExec, acct, park, owner, order, firsts>>
        BY <1>7 DEF Resume, venue
    <2>2. poll'.todo \subseteq Ids /\ \A i \in poll'.todo : park[i] # "none"
        BY <1>2, <2>1
    <2>3. CASE owner[Row] \in active
        <3>1. run'.at = "gate" /\ run'.todo = {Item(Row, owner[Row])}
            BY <1>7, <2>3 DEF Resume, Free
        <3>2. Fits(Row, owner[Row])
            BY <1>1, <1>7 DEF Resume, FitInv
        <3>3. \A x \in run'.todo : Fits(x.id, x.sub)
            BY <3>1, <3>2 DEF Item
        <3> QED
            BY <2>1, <2>2, <3>1, <3>3, FitParked
    <2>4. CASE owner[Row] \notin active
        BY <1>7, <2>1, <2>2, <2>4, FitParked DEF Resume
    <2> QED
        BY <2>3, <2>4
<1>8. ASSUME Resumed PROVE FitInv'
    <2>1. poll.at # "idle" /\ Done /\ UNCHANGED <<fanExec, acct, owner, order, firsts, run>>
        BY <1>8 DEF Resumed, venue
    <2>2. park' = park \/ \E st \in {"executed", "rejected", "expired"} : park' = Resolved(Row, st)
        BY <1>8 DEF Resumed
    <2>3. \A j \in Ids : park'[j] # "none" <=> park[j] # "none"
        BY <1>1, <1>3, <2>1, <2>2
    <2> QED
        BY <1>2, <2>1, <2>3, FitParked
<1> QED
    BY <1>4, <1>5, <1>6, <1>7, <1>8 DEF Polling

LEMMA FitWorld ==
    ASSUME FanTypeInv, FitInv, StartClose \/ FanCrash \/ DeadlinePasses \/ \E s \in Subs : Pause(s)
    PROVE FitInv'
<1>1. ASSUME StartClose PROVE FitInv'
    <2>1. UNCHANGED <<fanExec, acct, owner, order, firsts, poll>>
        BY <1>1 DEF StartClose, venue
    <2>2. \A i \in Ids : park'[i] # "none" <=> park[i] # "none"
        BY <1>1 DEF StartClose, FanWaiting, FanTypeInv
    <2>3. run'.at \notin {"gate", "guard", "place"}
        <3>1. run' = Free \/ \E todo : run' = [Free EXCEPT !.kind = "close", !.at = "close", !.todo = todo]
            BY <1>1 DEF StartClose
        <3>2. CASE run' = Free
            BY <3>2 DEF Free
        <3>3. ASSUME NEW todo, run' = [Free EXCEPT !.kind = "close", !.at = "close", !.todo = todo]
              PROVE run'.at = "close"
            BY <3>3 DEF Free
        <3> QED
            BY <3>1, <3>2, <3>3
    <2>4. poll'.todo \subseteq Ids /\ \A i \in poll'.todo : park[i] # "none"
        BY <2>1 DEF FanTypeInv, FitInv
    <2> QED
        BY <2>1, <2>2, <2>3, <2>4, FitParked
<1>2. ASSUME FanCrash PROVE FitInv'
    <2>1. run'.at = "-" /\ poll'.todo = {} /\ UNCHANGED <<fanExec, acct, park, owner, firsts>>
        BY <1>2 DEF FanCrash, Free, Rest, db
    <2>2. \A i \in Ids : order'[i] # "none" => fanExec[i] # "none"
        <3>1. CASE UNCHANGED order
            BY <3>1 DEF FitInv
        <3>2. CASE run.at = "place" /\ Sends("filled")
            <4>1. Now.id \in Ids /\ fanExec[Now.id] # "none"
                BY <3>2, NowIn DEF FanTypeInv, Items, FitInv
            <4> QED
                BY <3>2, <4>1 DEF Sends, FanTypeInv, FitInv
        <3> QED
            BY <1>2, <3>1, <3>2 DEF FanCrash
    <2> QED
        BY <2>1, <2>2 DEF FitInv, Fits
<1>3. ASSUME DeadlinePasses PROVE FitInv'
    BY <1>3, FitKept DEF DeadlinePasses, db, venue
<1>4. ASSUME NEW s \in Subs, Pause(s) PROVE FitInv'
    BY <1>4, FitKept DEF Pause, db, venue
<1> QED
    BY <1>1, <1>2, <1>3, <1>4

LEMMA FitStep == ASSUME FanTypeInv, FitInv, [FanNext]_fanVars PROVE FitInv'
<1>1. CASE UNCHANGED fanVars
    BY <1>1, FitKept DEF fanVars, db, venue
<1> QED
    BY <1>1, FitTurn, FitThrow, FitArrives, FitAfter, FitPolling, FitWorld DEF FanNext, Steps

----------------------------------------------------------------------------
(* An order sent for a lineage is the first of that lineage.               *)
LEMMA SentInit == FanInit => SentInv
BY DEF FanInit, SentInv

LEMMA SentKept ==
    ASSUME SentInv, UNCHANGED fanSent,
           \A i \in Ids : order[i] # "none" => order'[i] # "none" /\ acct'[i] = acct[i]
    PROVE SentInv'
BY DEF SentInv, Sold

LEMMA SentOnce ==
    ASSUME FanTypeInv, FitInv, SentInv, run.at = "place", NEW st \in {"filled", "refused", "working"},
           Sends(st), UNCHANGED acct
    PROVE SentInv'
<1>0. Now.id \in Ids /\ Now.sub \in Subs /\ order[Now.id] = "none" /\ acct[Now.id] = Now.sub
    BY NowIn DEF FanTypeInv, Items, FitInv
<1>1. PICK id \in Ids, sub \in Subs :
        id = Now.id /\ sub = Now.sub /\ order[id] = "none" /\ acct[id] = sub
    BY <1>0
<1>2. /\ order'[id] # "none" /\ \A i \in Ids : i # id => order'[i] = order[i]
      /\ fanSent'[sub] = fanSent[sub] + 1 /\ \A s \in Subs : s # sub => fanSent'[s] = fanSent[s]
    BY <1>1 DEF Sends, FanTypeInv
<1>3. ASSUME NEW i \in Ids, NEW s \in Subs, Sold(i, s) PROVE Sold(i, s)' /\ i # id
    BY <1>1, <1>2, <1>3 DEF Sold
<1>4. Sold(id, sub)'
    BY <1>1, <1>2 DEF Sold
<1>5. ASSUME NEW s \in Subs, s # sub
      PROVE /\ fanSent'[s] > 0 => \E i \in Ids : Sold(i, s)'
            /\ fanSent'[s] > 1 => \E i, j \in Ids : i # j /\ Sold(i, s)' /\ Sold(j, s)'
    BY <1>2, <1>3, <1>5 DEF SentInv
<1>6. fanSent'[sub] > 1 => \E i, j \in Ids : i # j /\ Sold(i, sub)' /\ Sold(j, sub)'
    <2> SUFFICES ASSUME fanSent'[sub] > 1
                 PROVE \E i, j \in Ids : i # j /\ Sold(i, sub)' /\ Sold(j, sub)'
        OBVIOUS
    <2>1. fanSent[sub] > 0
        BY <1>1, <1>2 DEF FanTypeInv
    <2>2. PICK i \in Ids : Sold(i, sub)
        BY <1>1, <2>1 DEF SentInv
    <2> QED
        BY <1>1, <1>3, <1>4, <2>2
<1>7. sub \in Subs /\ \E i \in Ids : Sold(i, sub)'
    BY <1>1, <1>4
<1>8. ASSUME NEW s \in Subs
      PROVE /\ fanSent'[s] > 0 => \E i \in Ids : Sold(i, s)'
            /\ fanSent'[s] > 1 => \E i, j \in Ids : i # j /\ Sold(i, s)' /\ Sold(j, s)'
    <2>1. CASE s = sub
        BY <1>6, <1>7, <2>1
    <2> QED
        BY <1>5, <2>1
<1>9. \A s \in Subs, i \in Ids : Sold(i, s)' <=> (order'[i] # "none" /\ acct'[i] = s)
    BY DEF Sold
<1> QED
    BY <1>8, <1>9 DEF SentInv, Sold

LEMMA SentStep == ASSUME FanTypeInv, FitInv, SentInv, [FanNext]_fanVars PROVE SentInv'
<1>1. ASSUME UNCHANGED <<fanSent, order, acct>> PROVE SentInv'
    BY <1>1, SentKept
<1>2. ASSUME Place PROVE SentInv'
    <2>1. run.at = "place" /\ UNCHANGED acct /\ \E st \in {"filled", "refused", "working"} : Sends(st)
        BY <1>2 DEF Place
    <2> QED
        BY <2>1, SentOnce
<1>3. ASSUME FanCrash PROVE SentInv'
    <2>1. UNCHANGED acct /\ (UNCHANGED <<order, fanSent>> \/ (run.at = "place" /\ Sends("filled")))
        BY <1>3 DEF FanCrash, db
    <2> QED
        BY <1>1, <2>1, SentOnce
<1>4. ASSUME Insert PROVE SentInv'
    <2>1. UNCHANGED <<order, fanSent>>
        BY <1>4 DEF Insert, venue
    <2>2. Now.id \in Ids
        BY <1>4, NowIn DEF Insert, FanTypeInv, Items
    <2>3. acct' = acct \/ (fanExec[Now.id] = "none" /\ acct' = [acct EXCEPT ![Now.id] = Now.sub])
        BY <1>4 DEF Insert
    <2>4. \A i \in Ids : order[i] # "none" => acct'[i] = acct[i]
        BY <2>2, <2>3 DEF FitInv, FanTypeInv
    <2> QED
        BY <2>1, <2>4, SentKept
<1>5. ASSUME CloseOne PROVE SentInv'
    <2>1. UNCHANGED <<acct, fanSent>> /\ (order' = order \/ order' = [order EXCEPT ![Now.id] = "closed"])
        BY <1>5 DEF CloseOne
    <2>2. \A i \in Ids : order[i] # "none" => order'[i] # "none"
        BY <2>1 DEF FanTypeInv
    <2> QED
        BY <2>1, <2>2, SentKept
<1>6. ASSUME NEW i \in Ids, FanResolve(i) PROVE SentInv'
    <2>1. UNCHANGED <<acct, fanSent>> /\ \E st \in {"filled", "refused"} : order' = [order EXCEPT ![i] = st]
        BY <1>6 DEF FanResolve
    <2>2. \A j \in Ids : order[j] # "none" => order'[j] # "none"
        BY <2>1 DEF FanTypeInv
    <2> QED
        BY <2>1, <2>2, SentKept
<1>7. ASSUME Gate \/ Throw \/ Defer \/ Finish PROVE SentInv'
    BY <1>1, <1>7 DEF Gate, Throw, Defer, Finish, venue
<1>8. ASSUME FanDeliver \/ StartEntry \/ StartClose PROVE SentInv'
    BY <1>1, <1>8 DEF FanDeliver, StartEntry, StartClose, venue
<1>9. ASSUME Polling PROVE SentInv'
    BY <1>1, <1>9 DEF Polling, Tick, Expire, Visit, Resume, Resumed, venue, db
<1>10. ASSUME DeadlinePasses \/ \E s \in Subs : Pause(s) PROVE SentInv'
    BY <1>1, <1>10 DEF DeadlinePasses, Pause, venue, db
<1>11. CASE UNCHANGED fanVars
    BY <1>1, <1>11 DEF fanVars, venue, db
<1> QED
    BY <1>2, <1>3, <1>4, <1>5, <1>6, <1>7, <1>8, <1>9, <1>10, <1>11 DEF FanNext, Steps

LEMMA TwoFirsts ==
    ASSUME FanTypeInv, NEW f \in firsts, NEW g \in firsts, f # g PROVE Cardinality(firsts) > 1
<1>1. IsFiniteSet(firsts) /\ {f, g} \subseteq firsts
    BY FanOutAssumption, FS_Subset DEF FanTypeInv
<1>2. IsFiniteSet({f}) /\ Cardinality({f}) = 1
    BY FS_Singleton
<1>3. {f, g} = {f} \cup {g} /\ g \notin {f}
    OBVIOUS
<1>4. Cardinality({f, g}) = 2
    BY <1>2, <1>3, FS_AddElement
<1>5. Cardinality({f, g}) <= Cardinality(firsts)
    BY <1>1, FS_Subset
<1> QED
    BY <1>1, <1>4, <1>5, FS_CardinalityType

LEMMA SoldTwiceMovedUp == ASSUME FanTypeInv, FitInv, SentInv PROVE OneOrderPerAccount
<1> SUFFICES ASSUME NEW s \in Subs, fanSent[s] > 1 PROVE Cardinality(firsts) > 1
    BY DEF OneOrderPerAccount
<1>1. PICK i \in Ids, j \in Ids : i # j /\ Sold(i, s) /\ Sold(j, s)
    BY DEF SentInv
<1>2. Fits(i, s) /\ Fits(j, s)
    BY <1>1 DEF Sold, FitInv
<1>3. s \in firsts /\ \E f \in firsts : f # s
    BY <1>1, <1>2 DEF Fits
<1> QED
    BY <1>3, TwoFirsts

FanInv == FanTypeInv /\ FitInv /\ SentInv

LEMMA InvInit == FanInit => FanInv
BY FanTypeInit, FitInit, SentInit DEF FanInv

LEMMA InvStep == FanInv /\ [FanNext]_fanVars => FanInv'
BY FanTypeStep, FitStep, SentStep DEF FanInv

(* However often the signal is delivered, parked, resumed, retired or cut  *)
(* short by a restart, and on however many subscriptions it runs, an       *)
(* account gets one order for it unless its subscription moved up to the   *)
(* wire id between two deliveries (fanOutEntry, processSignalForSub).      *)
THEOREM OneFanOrder == FanSpec => []OneOrderPerAccount
<1>1. FanInv => OneOrderPerAccount
    BY SoldTwiceMovedUp DEF FanInv
<1> QED
    BY <1>1, InvInit, InvStep, PTL DEF FanSpec

(* The tables, the lock's holder, the poller and what the server has heard *)
(* keep their types, for any bounds: no lineage of a fan-out ends without  *)
(* an outcome the wire row can take (aggregateOutcomes).                   *)
THEOREM FanTypeCorrect == FanSpec => []FanTypeOK
<1>1. FanTypeInv => FanTypeOK
    BY FanOutAssumption DEF FanTypeInv, FanTypeOK, Outcomes, Heard
<1>2. FanInv => FanTypeOK
    BY <1>1 DEF FanInv
<1> QED
    BY <1>2, InvInit, InvStep, PTL DEF FanSpec

----------------------------------------------------------------------------
(* `executed` starts at a fill: nobody else acks it, and a fan-out passes  *)
(* on only what its lineages ended with.                                   *)
FilledInv ==
    /\ heard = "executed" \/ "executed" \in run.outs => \E i \in Ids : Executed(i)
    /\ run.sink # "executed"

LEMMA FilledInit == FanInit => FilledInv
BY DEF FanInit, FilledInv, Free

(* An order that filled stays one that filled.                             *)
LEMMA FilledKept ==
    ASSUME FilledInv, \A i \in Ids : Executed(i) => Executed(i)', run'.sink # "executed",
           heard' = "executed" \/ "executed" \in run'.outs
              => heard = "executed" \/ "executed" \in run.outs \/ \E i \in Ids : Executed(i)'
    PROVE FilledInv'
BY DEF FilledInv, Executed

LEMMA EndSays ==
    ASSUME FanTypeInv, FilledInv, NEW ack, NEW threw \in BOOLEAN, NEW status,
           ack # "executed", End(ack, threw, status)
    PROVE run'.sink # "executed" /\ (heard' = "executed" \/ "executed" \in run'.outs => heard = "executed" \/ "executed" \in run.outs)
<1>1. CASE run.fan
    <2>1. PICK o : o = Outcome(ack, threw, status) /\ o # "executed"
        BY DEF Outcome, FilledInv
    <2>2. /\ run' = [run EXCEPT !.todo = run.todo \ {Now}, !.sink = "none",
                                !.at = IF run.todo \ {Now} = {} THEN "finish" ELSE "gate",
                                !.outs = run.outs \cup {o}]
          /\ heard' = heard
        BY <1>1, <2>1 DEF End
    <2>3. run'.sink = "none" /\ run'.outs = run.outs \cup {o}
        BY <2>2 DEF FanTypeInv
    <2> QED
        BY <2>1, <2>2, <2>3
<1>2. CASE ~run.fan
    BY <1>2 DEF End, Tell, Free
<1> QED
    BY <1>1, <1>2 DEF FanTypeInv

LEMMA FilledTurn == ASSUME FanTypeInv, FitInv, FilledInv, Gate \/ Defer \/ Insert \/ Place PROVE FilledInv'
<1>1. ASSUME NEW ack, NEW threw \in BOOLEAN, NEW status, ack # "executed", End(ack, threw, status),
             \A i \in Ids : Executed(i) => Executed(i)'
      PROVE FilledInv'
    BY <1>1, EndSays, FilledKept
<1>2. ASSUME order' = order PROVE \A i \in Ids : Executed(i) => Executed(i)'
    BY <1>2 DEF Executed
<1>3. ASSUME Gate PROVE FilledInv'
    <2>1. order' = order
        BY <1>3 DEF Gate, venue
    <2>2. CASE run' = [run EXCEPT !.at = "guard"] /\ UNCHANGED heard
        BY <1>2, <2>1, <2>2, FilledKept DEF FanTypeInv, FilledInv
    <2>3. CASE End("rejected", FALSE, "rejected")
        BY <1>1, <1>2, <2>1, <2>3
    <2> QED
        BY <1>3, <2>2, <2>3 DEF Gate
<1>4. ASSUME Defer PROVE FilledInv'
    <2>1. order' = order /\ (End("deferred", FALSE, "deferred") \/ End("none", FALSE, fanRow[Now.id]))
        BY <1>4 DEF Defer, venue
    <2> QED
        BY <1>1, <1>2, <2>1
<1>5. ASSUME Insert PROVE FilledInv'
    <2>1. order' = order
        BY <1>5 DEF Insert, venue
    <2>2. CASE run' = [run EXCEPT !.at = "place"] /\ UNCHANGED heard
        BY <1>2, <2>1, <2>2, FilledKept DEF FanTypeInv, FilledInv
    <2>3. CASE End("none", FALSE, fanRow[Now.id])
        BY <1>1, <1>2, <2>1, <2>3
    <2> QED
        BY <1>5, <2>2, <2>3 DEF Insert
<1>6. ASSUME Place PROVE FilledInv'
    <2>1. PICK id \in Ids : id = Now.id /\ order[id] = "none"
        BY <1>6, NowIn DEF Place, FanTypeInv, Items, FitInv
    <2>2. ASSUME NEW st, Sends(st) PROVE order'[id] = st /\ \A i \in Ids : Executed(i) => Executed(i)'
        BY <2>1, <2>2 DEF Sends, Executed, FanTypeInv
    <2>3. CASE Sends("filled") /\ End("executed", FALSE, "executed")
        <3>1. Executed(id)'
            BY <2>2, <2>3 DEF Executed
        <3>2. run'.sink # "executed"
            <4>1. CASE run.fan
                <5>1. PICK todo, st, outs :
                        run' = [run EXCEPT !.todo = todo, !.sink = "none", !.at = st, !.outs = outs]
                    BY <2>3, <4>1 DEF End
                <5> QED
                    BY <5>1 DEF FanTypeInv
            <4>2. CASE ~run.fan
                BY <2>3, <4>2 DEF End, Free
            <4> QED
                BY <4>1, <4>2
        <3> QED
            BY <2>2, <2>3, <3>1, <3>2, FilledKept
    <2>4. CASE Sends("refused") /\ End("rejected", FALSE, "rejected")
        BY <1>1, <2>2, <2>4
    <2>5. CASE Sends("working") /\ (End("none", FALSE, "pending") \/ End("rejected", FALSE, "rejected"))
        BY <1>1, <2>2, <2>5
    <2> QED
        BY <1>6, <2>3, <2>4, <2>5 DEF Place
<1> QED
    BY <1>3, <1>4, <1>5, <1>6

LEMMA FilledThrow == ASSUME FanTypeInv, FilledInv, Throw PROVE FilledInv'
<1>1. \A i \in Ids : Executed(i) => Executed(i)'
    BY DEF Throw, venue, Executed
<1>2. CASE run.fan
    BY <1>1, <1>2, EndSays, FilledKept DEF Throw
<1>3. CASE ~run.fan
    <2>1. run'.sink = "none" /\ run'.outs = {} /\ heard' = heard
        BY <1>3 DEF Throw, Free
    <2> QED
        BY <1>1, <2>1, FilledKept
<1> QED
    BY <1>2, <1>3

LEMMA FilledStep == ASSUME FanTypeInv, FitInv, FilledInv, [FanNext]_fanVars PROVE FilledInv'
<1>1. ASSUME order' = order, run'.sink # "executed",
             heard' = "executed" \/ "executed" \in run'.outs => heard = "executed" \/ "executed" \in run.outs
      PROVE FilledInv'
    BY <1>1, FilledKept DEF Executed
<1>2. ASSUME order' = order, run' = run \/ (run'.sink = "none" /\ run'.outs = {}),
             heard' = "executed" => heard = "executed"
      PROVE FilledInv'
    BY <1>1, <1>2 DEF FilledInv
<1>3. ASSUME NEW i \in Ids, FanAck(i, "rejected"), order' = order PROVE FilledInv'
    <2>1. run' = run \/ run' = [run EXCEPT !.sink = "rejected"]
        BY <1>3 DEF FanAck
    <2>2. run'.sink # "executed" /\ run'.outs = run.outs
        BY <2>1 DEF FanTypeInv, FilledInv
    <2>3. heard' = "executed" => heard = "executed"
        BY <1>3 DEF FanAck, Tell
    <2> QED
        BY <1>1, <1>3, <2>2, <2>3
<1>4. ASSUME FanDeliver PROVE FilledInv'
    <2>1. order' = order /\ (UNCHANGED <<run, heard>> \/ FanAck(Wire, "rejected"))
        BY <1>4 DEF FanDeliver, venue
    <2> QED
        BY <1>2, <1>3, <2>1, IdsType
<1>5. ASSUME StartEntry PROVE FilledInv'
    <2>1. order' = order /\ (heard' = "executed" => heard = "executed")
        BY <1>5 DEF StartEntry, venue, Tell
    <2>2. run' = run \/ (run'.sink = "none" /\ run'.outs = {})
        BY <1>5 DEF StartEntry, Free
    <2> QED
        BY <1>2, <2>1, <2>2
<1>6. ASSUME Finish PROVE FilledInv'
    <2>1. heard' = "executed" => heard = "executed" \/ "executed" \in run.outs
        BY <1>6 DEF Finish, Tell, Aggregate
    <2>2. order' = order /\ run' = Free
        BY <1>6 DEF Finish, venue
    <2> QED
        BY <1>1, <2>1, <2>2 DEF Free
<1>7. ASSUME CloseOne PROVE FilledInv'
    <2>1. order' = order \/ order' = [order EXCEPT ![Now.id] = "closed"]
        BY <1>7 DEF CloseOne
    <2>2. \A i \in Ids : Executed(i) => Executed(i)'
        BY <2>1 DEF Executed, FanTypeInv
    <2>3. heard' = heard /\ (run' = Free \/ run' = [run EXCEPT !.todo = run.todo \ {Now}])
        BY <1>7 DEF CloseOne
    <2>4. run'.sink # "executed" /\ ("executed" \in run'.outs => "executed" \in run.outs)
        <3>1. CASE run' = Free
            BY <3>1 DEF Free
        <3>2. CASE run' = [run EXCEPT !.todo = run.todo \ {Now}]
            BY <3>2 DEF FanTypeInv, FilledInv
        <3> QED
            BY <2>3, <3>1, <3>2
    <2> QED
        BY <2>2, <2>3, <2>4, FilledKept
<1>8. ASSUME NEW i \in Ids, FanResolve(i) PROVE FilledInv'
    <2>1. run' = run /\ order[i] = "working"
        BY <1>8 DEF FanResolve
    <2>2. CASE order' = [order EXCEPT ![i] = "filled"]
        <3>1. \A j \in Ids : Executed(j) => Executed(j)'
            BY <2>1, <2>2 DEF Executed, FanTypeInv
        <3>2. Executed(i)'
            BY <2>2 DEF Executed, FanTypeInv
        <3> QED
            BY <2>1, <3>1, <3>2, FilledKept DEF FilledInv
    <2>3. CASE order' = [order EXCEPT ![i] = "refused"] /\ Tell("rejected")
        <3>1. \A j \in Ids : Executed(j) => Executed(j)'
            BY <2>1, <2>3 DEF Executed, FanTypeInv
        <3>2. heard' = "executed" => heard = "executed"
            BY <2>3 DEF Tell
        <3> QED
            BY <2>1, <3>1, <3>2, FilledKept DEF FilledInv
    <2> QED
        BY <1>8, <2>2, <2>3 DEF FanResolve
<1>9. ASSUME Polling PROVE FilledInv'
    <2>1. poll.at # "idle" => Row \in Ids
        BY RowIn DEF FanTypeInv
    <2>2. CASE Tick \/ Visit \/ Resumed
        BY <1>2, <2>2 DEF Tick, Visit, Resumed, venue
    <2>3. CASE Expire
        <3>1. order' = order /\ poll.at # "idle" /\ (UNCHANGED <<run, heard>> \/ FanAck(Row, "rejected"))
            BY <2>3 DEF Expire, venue
        <3> QED
            BY <1>2, <1>3, <2>1, <3>1
    <2>4. CASE Resume
        <3>1. order' = order /\ (heard' = "executed" => heard = "executed")
            BY <2>4 DEF Resume, venue, Tell
        <3>2. run' = run \/ (run'.sink = "none" /\ run'.outs = {})
            BY <2>4 DEF Resume, Free
        <3> QED
            BY <1>2, <3>1, <3>2
    <2> QED
        BY <1>9, <2>2, <2>3, <2>4 DEF Polling
<1>10. ASSUME StartClose PROVE FilledInv'
    <2>1. order' = order /\ (heard' = "executed" => heard = "executed")
        BY <1>10 DEF StartClose, venue, Tell
    <2>2. run'.sink = "none" /\ run'.outs = {}
        <3>1. run' = Free \/ \E todo : run' = [Free EXCEPT !.kind = "close", !.at = "close", !.todo = todo]
            BY <1>10 DEF StartClose
        <3>2. CASE run' = Free
            BY <3>2 DEF Free
        <3>3. ASSUME NEW todo, run' = [Free EXCEPT !.kind = "close", !.at = "close", !.todo = todo]
              PROVE run'.sink = "none" /\ run'.outs = {}
            BY <3>3 DEF Free
        <3> QED
            BY <3>1, <3>2, <3>3
    <2> QED
        BY <1>2, <2>1, <2>2
<1>11. ASSUME FanCrash PROVE FilledInv'
    <2>1. run' = Free /\ (heard' = "executed" => heard = "executed")
        BY <1>11 DEF FanCrash, Missed
    <2>2. \A i \in Ids : Executed(i) => Executed(i)'
        <3>1. order' = order \/ order' = [order EXCEPT ![Now.id] = "filled"]
            BY <1>11 DEF FanCrash, Sends
        <3> QED
            BY <3>1 DEF Executed, FanTypeInv
    <2> QED
        BY <2>1, <2>2, FilledKept DEF Free
<1>12. ASSUME DeadlinePasses \/ \E s \in Subs : Pause(s) PROVE FilledInv'
    BY <1>2, <1>12 DEF DeadlinePasses, Pause, venue
<1>13. CASE UNCHANGED fanVars
    BY <1>2, <1>13 DEF fanVars, venue
<1> QED
    BY <1>4, <1>5, <1>6, <1>7, <1>8, <1>9, <1>10, <1>11, <1>12, <1>13, FilledTurn, FilledThrow DEF FanNext, Steps

(* The server hears `executed` only of a signal that filled on an account, *)
(* whatever the other accounts of the fan-out made of it (finishFanout).   *)
THEOREM ExecutedIsTrue == FanSpec => []ExecutedIsFilled
<1>1. FanInit => FanInv /\ FilledInv
    BY InvInit, FilledInit
<1>2. FanInv /\ FilledInv /\ [FanNext]_fanVars => FanInv' /\ FilledInv'
    BY InvStep, FilledStep DEF FanInv
<1>3. FilledInv => ExecutedIsFilled
    BY DEF FilledInv, ExecutedIsFilled
<1> QED
    BY <1>1, <1>2, <1>3, PTL DEF FanSpec
=============================================================================
