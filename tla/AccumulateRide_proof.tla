----------------------- MODULE AccumulateRide_proof -----------------------
(***************************************************************************)
(* Proofs about a plan that accumulates and rides, for ladders of any      *)
(* number and size, whatever the user or another plan holds beside it, and *)
(* whatever fails: as long as none of the Ways has happened.               *)
(***************************************************************************)
EXTENDS AccumulateRide, ContractCount_proof

----------------------------------------------------------------------------
(* A decision, and the action it is at *)

LenOf(s)  == Len(s)
NextOf(p) == IF p.done < LenOf(p.acts) THEN p.acts[p.done + 1] ELSE "commit"
NoActs == << >>
First1 == <<"ladder">>
Leave1 == <<"cancel">>
Ladder3 == <<"cancel", "handover", "ladder">>
Armed4 == <<"cancel", "market", "handover", "ladder">>
Waiting3 == <<"market", "handover", "ladder">>
Riding2 == <<"cancel", "ladder">>
Acts == {NoActs, First1, Leave1, Ladder3, Armed4, Waiting3, Riding2}
Phases == {"ladder", "armed", "waiting", "riding", "stopped", "closed"}
Pends  == [acts : Acts, done : 0..4, next : {"none", "ladder", "armed", "riding", "waiting"}]

\* Placing the first ladder, following a breakout, or giving up the ride or the position.
First(p, phase)  == p.acts = First1 /\ p.next = phase /\ phase \in {"ladder", "armed"}
Breaks(p, phase) ==
    /\ p.next = "riding" /\ phase \in {"ladder", "armed", "waiting", "riding"}
    /\ p.acts = CASE phase = "ladder" -> Ladder3 [] phase = "armed" -> Armed4
                  [] phase = "waiting" -> Waiting3 [] phase = "riding" -> Riding2
Leaves(p, phase) == p.acts = Leave1 /\ p.next = "waiting" /\ phase \in {"ladder", "riding"}
Decision(p, phase) ==
    /\ First(p, phase) \/ Breaks(p, phase) \/ Leaves(p, phase)
    /\ p.done <= LenOf(p.acts)

\* An action the decision has still to do.
ToGo(p, act) == \E i \in DOMAIN p.acts : i > p.done /\ p.acts[i] = act

At(act) == Pending /\ NextOf(plan.pend) = act

\* The hand-over of this decision is behind the plan, or before it.
HandedTo == Pending /\ plan.pend.next = "riding" /\ NextOf(plan.pend) \in {"ladder", "commit"}
Bought   == Pending /\ plan.phase \in {"armed", "waiting"} /\ plan.pend.next = "riding"
                    /\ NextOf(plan.pend) \in {"handover", "ladder", "commit"}

----------------------------------------------------------------------------
(* The invariant *)

Rows == [phase : Phases, seq : Seqs \cup {0}, pend : Pends, ride : BOOLEAN, ended : BOOLEAN,
         entry : {0, 1}, settle : {"none", "pending", "done"}, stop : {"none", "set", "orphan"}]
Asks == [rung : Rungs, on : {"marker", "ride"}, was : Nat]
Steps == {"idle", "look", "run", "cancel", "market", "refused", "handover", "handed", "ladder", "settle", "protect"}
Parties == [step : Steps, todo : SUBSET Asks, open : SUBSET Rungs, pend : Pends, n : Nat]
Tracks  == [Rungs -> [on : {"none", "marker", "ride"}, got : Nat]]
Slips   == [Rungs -> {"none", "open", "filled", "cancelled"}]

Types ==
    /\ plan \in Rows
    /\ slip \in Slips
    /\ track \in Tracks
    /\ ord \in [Rungs -> {"none", "working", "filled", "cancelled"}]
    /\ fill \in [Rungs -> Nat]
    /\ bought \in [venue : SUBSET Seqs, row : SUBSET Seqs, refused : SUBSET Seqs]
    /\ ride \in [st : {"none", "open", "ended"}, qty : Nat]
    /\ parent \in Nat /\ net \in Nat /\ base \in Nat
    /\ guard \in [st : {"none", "working", "filled", "cancelled"}, qty : Nat]
    /\ proc \in [Procs -> Parties]
    /\ sweep = NoAsk \/ sweep \in Asks
    /\ faults \in 0..MaxFaults

\* How far the plan is: its decision, and what of it is on record.
PlanOk ==
    /\ Pending => Decision(plan.pend, plan.phase)
    /\ Stopped => ~Pending
    /\ Pending /\ plan.pend.next # "waiting" => plan.seq \in Seqs
    /\ plan.phase = "riding" => plan.ride
    /\ plan.ride => Stopped \/ plan.phase = "riding" \/ HandedTo
    /\ HandedTo => plan.ride
    /\ plan.phase = "closed" => ~plan.ride
    /\ plan.ended => plan.phase \in {"waiting", "riding", "stopped", "closed"}
    /\ plan.settle # "none" => plan.phase = "stopped"
    /\ plan.stop # "none" => plan.settle = "done"

RideOk ==
    /\ ride.st = "open" /\ ~plan.ride => At("handover")
    /\ plan.phase = "riding" /\ Pending /\ plan.pend.next = "waiting" => ride.st # "open"

EntryOk ==
    /\ ~Stopped => (plan.entry = 1 <=> Bought)
    /\ Bought => plan.seq \in bought.venue
    /\ ToDo("handover") /\ plan.seq \in bought.venue => plan.phase \in {"armed", "waiting"}
    /\ bought.refused \cap (bought.venue \cup bought.row) = {}
    /\ \A s \in bought.venue : s <= plan.seq

\* What the tick holds is what the row says, and nobody runs on a plan that was stopped.
ProcOk ==
    /\ proc["tick"].step = "look" => ~Stopped
    /\ proc["tick"].step \in {"run", "cancel", "market", "refused", "handover", "handed", "ladder"} =>
           Pending /\ proc["tick"].pend = plan.pend
    /\ proc["tick"].step = "cancel" => At("cancel")
    /\ proc["tick"].step = "market" => At("market") /\ plan.seq \in bought.venue
    /\ proc["tick"].step = "refused" => At("market") /\ plan.seq \notin bought.venue
    /\ proc["tick"].step \in {"handover", "handed"} => At("handover")
    /\ proc["tick"].step = "ladder" => At("ladder") /\ proc["tick"].n >= 1
    /\ proc["tick"].step \in {"settle", "protect"} => plan.settle = "pending"
    /\ proc["stop"].step \in {"idle", "cancel"} /\ proc["floor"].step \in {"idle", "cancel"}
    /\ proc["stop"].step = "idle" \/ proc["floor"].step = "idle"
    /\ plan.phase = "stopped" => proc["stop"].step = "idle" /\ proc["floor"].step = "idle"

\* The position is all the user's and the plan's, or it is what the plan bought.
HandOverOk ==
    /\ proc["tick"].step = "handover" =>
           \/ proc["tick"].n = Own
           \/ ride.st # "open" /\ parent = 0 /\ proc["tick"].n = net
    /\ proc["tick"].step = "handed" => ride.st = "open"

\* A rung's row, what it is tracked on and its order belong together.
Owned == plan.ride \/ ride.st = "open"
RungOk(r) ==
    /\ ord[r] = "filled" <=> fill[r] = Size[r[2]]
    /\ fill[r] <= Size[r[2]]
    /\ ord[r] = "none" => fill[r] = 0
    /\ track[r].got <= fill[r]
    /\ Tracked(r) => ord[r] \in {"working", "filled"} /\ slip[r] \in {"open", "filled"}
    /\ Tracked(r) /\ slip[r] = "filled" => ord[r] = "filled"
    /\ track[r].on = "ride" => plan.ride /\ slip[r] = "open"
    /\ track[r].on = "marker" /\ slip[r] = "open" => ~Owned /\ ~plan.ended
    /\ slip[r] = "open" /\ ~Tracked(r) => ord[r] \in {"filled", "cancelled"}
    /\ slip[r] = "none" => ord[r] \in {"none", "working", "filled"}
    /\ slip[r] = "none" /\ ord[r] # "none" => r[1] = plan.seq /\ At("ladder")
    /\ slip[r] = "filled" => ord[r] \in {"filled", "cancelled"} /\ fill[r] > 0
    /\ slip[r] = "cancelled" => ord[r] \in {"filled", "cancelled"}
    /\ slip[r] = "cancelled" /\ fill[r] > 0 => plan.settle = "pending" /\ r[1] = plan.seq
    /\ r[1] > plan.seq => slip[r] = "none" /\ ord[r] = "none"
RungsOk == \A r \in Rungs : RungOk(r)

\* Where no rung is open, or none that is not of the last ladder.
Cleared ==
    \/ At("market") \/ At("handover") \/ (At("commit") /\ plan.pend.next = "waiting")
    \/ ~Pending /\ plan.phase \in {"waiting", "closed"}
    \/ plan.phase = "stopped" /\ plan.settle # "pending"
    \/ proc["tick"].step = "protect" \/ guard.st # "none"
OpenOk ==
    /\ Cleared => \A r \in Rungs : slip[r] # "open"
    /\ plan.phase = "stopped" => \A r \in Rungs : slip[r] = "open" => r[1] = plan.seq
    /\ proc["tick"].step = "protect" => \A r \in Rungs : slip[r] = "cancelled" => fill[r] = 0

\* The rungs the tick has been through are on record.
LadderOk ==
    proc["tick"].step = "ladder" =>
        \A i \in Ladder : i < proc["tick"].n /\ slip[<<plan.seq, i>>] = "none" => ord[<<plan.seq, i>>] = "none"

\* Whoever waits for the status of a rung read no more of it than is booked, or it is gone.
AskOk(x) == /\ x.was <= fill[x.rung] /\ slip[x.rung] # "none"
            /\ Tracked(x.rung) => x.was <= track[x.rung].got
AsksOk ==
    /\ sweep # NoAsk => AskOk(sweep)
    /\ \A p \in Procs : \A x \in proc[p].todo : AskOk(x)

\* The ledger: what the venue holds beyond the rides and the user is what the plan bought,
\* and beside a ride of its own it is what a rung without a row filled.
LostOf(sl, fi)    == [r \in Rungs |-> IF sl[r] = "none" THEN fi[r] ELSE 0]
OwnOf(sl, fi)     == [r \in Rungs |-> IF sl[r] = "filled" THEN fi[r] ELSE 0]
UnsweptOf(tr, fi) == [r \in Rungs |-> IF tr[r].on = "ride" THEN fi[r] - tr[r].got ELSE 0]
Lost == Sum(LostOf(slip, fill))
EntryHeld == IF Stopped THEN plan.entry ELSE IF ToDo("handover") /\ plan.seq \in bought.venue THEN 1 ELSE 0
Due  == IF Owned THEN Lost ELSE EntryHeld + IF plan.ended THEN 0 ELSE Sum(fill)
Free == net - Ridden - Unswept - base
LedgerOk ==
    /\ Free <= Due
    /\ Stopped \/ Free = Due \/ (base = 0 /\ parent = 0 /\ ride.st # "open")
    /\ ride.st # "open" => Unswept = 0

\* What the floor stopped is with the other ride, or behind the stop.
GuardOk ==
    /\ guard.st # "none" => plan.settle # "none" /\ parent = 0 /\ ride.st # "open"
    /\ guard.st = "working" => net - base <= guard.qty
    /\ guard.st = "filled" => net - base <= 0
    /\ guard.st = "cancelled" => plan.settle = "done"
    /\ plan.stop = "orphan" => net <= Ridden
    /\ plan.settle = "done" => net - base <= Guarded

Inv ==
    /\ Types /\ PlanOk /\ RideOk /\ EntryOk /\ ProcOk /\ HandOverOk
    /\ RungsOk /\ OpenOk /\ LadderOk /\ AsksOk /\ LedgerOk /\ GuardOk

\* What the floor found open is on record.
FloorOk == \A r \in proc["floor"].open : slip[r] # "none"

\* As long as nothing came apart.
IInv == ways = {} => Inv /\ FloorOk

----------------------------------------------------------------------------
(* Decisions *)

\* An action done: the decision is at the one after it.
Further(p) == [p EXCEPT !.done = @ + 1]

(* The actions of each decision.                                           *)
LEMMA ActsShape ==
    /\ NoActs = << >> /\ LenOf(NoActs) = 0
    /\ LenOf(First1) = 1 /\ DOMAIN First1 = 1..1 /\ First1[1] = "ladder"
    /\ LenOf(Leave1) = 1 /\ DOMAIN Leave1 = 1..1 /\ Leave1[1] = "cancel"
    /\ LenOf(Ladder3) = 3 /\ DOMAIN Ladder3 = 1..3
    /\ Ladder3[1] = "cancel" /\ Ladder3[2] = "handover" /\ Ladder3[3] = "ladder"
    /\ LenOf(Armed4) = 4 /\ DOMAIN Armed4 = 1..4
    /\ Armed4[1] = "cancel" /\ Armed4[2] = "market" /\ Armed4[3] = "handover" /\ Armed4[4] = "ladder"
    /\ LenOf(Waiting3) = 3 /\ DOMAIN Waiting3 = 1..3
    /\ Waiting3[1] = "market" /\ Waiting3[2] = "handover" /\ Waiting3[3] = "ladder"
    /\ LenOf(Riding2) = 2 /\ DOMAIN Riding2 = 1..2 /\ Riding2[1] = "cancel" /\ Riding2[2] = "ladder"
<1>1. NoActs = << >> /\ LenOf(NoActs) = 0
    BY DEF NoActs, LenOf
<1>2. LenOf(First1) = 1 /\ DOMAIN First1 = 1..1 /\ First1[1] = "ladder"
    BY DEF First1, LenOf
<1>3. LenOf(Leave1) = 1 /\ DOMAIN Leave1 = 1..1 /\ Leave1[1] = "cancel"
    BY DEF Leave1, LenOf
<1>4. /\ LenOf(Ladder3) = 3 /\ DOMAIN Ladder3 = 1..3
      /\ Ladder3[1] = "cancel" /\ Ladder3[2] = "handover" /\ Ladder3[3] = "ladder"
    BY DEF Ladder3, LenOf
<1>5. /\ LenOf(Armed4) = 4 /\ DOMAIN Armed4 = 1..4
      /\ Armed4[1] = "cancel" /\ Armed4[2] = "market" /\ Armed4[3] = "handover" /\ Armed4[4] = "ladder"
    BY DEF Armed4, LenOf
<1>6. /\ LenOf(Waiting3) = 3 /\ DOMAIN Waiting3 = 1..3
      /\ Waiting3[1] = "market" /\ Waiting3[2] = "handover" /\ Waiting3[3] = "ladder"
    BY DEF Waiting3, LenOf
<1>7. LenOf(Riding2) = 2 /\ DOMAIN Riding2 = 1..2 /\ Riding2[1] = "cancel" /\ Riding2[2] = "ladder"
    BY DEF Riding2, LenOf
<1> QED
    BY <1>1, <1>2, <1>3, <1>4, <1>5, <1>6, <1>7

(* The parts of a decision, and how they make one.                         *)
LEMMA PendParts ==
    ASSUME NEW p \in Pends
    PROVE  /\ p.acts \in Acts /\ p.done \in 0..4
           /\ p.next \in {"none", "ladder", "armed", "riding", "waiting"}
           /\ Further(p) = [acts |-> p.acts, done |-> p.done + 1, next |-> p.next]
<1>1. /\ p.acts \in Acts /\ p.done \in 0..4
      /\ p.next \in {"none", "ladder", "armed", "riding", "waiting"}
    BY DEF Pends
<1>2. Further(p) = [acts |-> p.acts, done |-> p.done + 1, next |-> p.next]
    BY DEF Pends, Further
<1> QED
    BY <1>1, <1>2

LEMMA ActsLen == \A a \in Acts : LenOf(a) \in 0..4
BY ActsShape DEF Acts

LEMMA NoPendType ==
    NoPend \in Pends /\ NoPend.acts = NoActs
<1>1. NoPend = [acts |-> NoActs, done |-> 0, next |-> "none"]
    BY DEF NoPend, NoActs
<1>2. NoActs \in Acts
    BY DEF Acts
<1>3. 0 \in 0..4 /\ "none" \in {"none", "ladder", "armed", "riding", "waiting"}
    OBVIOUS
<1>4. NoPend \in Pends
    BY <1>1, <1>2, <1>3, Zenon DEF Pends
<1>5. NoPend.acts = NoActs
    BY <1>1
<1> QED
    BY <1>4, <1>5

(* Where each decision stands, and what of it is still to do.              *)
LEMMA First1Stage ==
    ASSUME NEW p, p.acts = First1, p.done \in {0, 1}
    PROVE  /\ NextOf(p) = IF p.done = 0 THEN "ladder" ELSE "commit"
           /\ ToGo(p, "handover") <=> FALSE
           /\ ToGo(p, "market") <=> FALSE
           /\ p # NoPend
<1>1. NextOf(p) = IF p.done = 0 THEN "ladder" ELSE "commit"
    BY ActsShape DEF NextOf
<1>2. ToGo(p, "handover") <=> FALSE
    BY ActsShape DEF ToGo
<1>3. ToGo(p, "market") <=> FALSE
    BY ActsShape DEF ToGo
<1>4. First1 # NoActs
    BY ActsShape
<1>5. p # NoPend
    BY <1>4, NoPendType
<1> QED
    BY <1>1, <1>2, <1>3, <1>5

LEMMA Leave1Stage ==
    ASSUME NEW p, p.acts = Leave1, p.done \in {0, 1}
    PROVE  /\ NextOf(p) = IF p.done = 0 THEN "cancel" ELSE "commit"
           /\ ToGo(p, "handover") <=> FALSE
           /\ ToGo(p, "market") <=> FALSE
           /\ p # NoPend
<1>1. NextOf(p) = IF p.done = 0 THEN "cancel" ELSE "commit"
    BY ActsShape DEF NextOf
<1>2. ToGo(p, "handover") <=> FALSE
    BY ActsShape DEF ToGo
<1>3. ToGo(p, "market") <=> FALSE
    BY ActsShape DEF ToGo
<1>4. Leave1 # NoActs
    BY ActsShape
<1>5. p # NoPend
    BY <1>4, NoPendType
<1> QED
    BY <1>1, <1>2, <1>3, <1>5

LEMMA Ladder3Stage ==
    ASSUME NEW p, p.acts = Ladder3, p.done \in {0, 1, 2, 3}
    PROVE  /\ NextOf(p) = IF p.done = 0 THEN "cancel" ELSE IF p.done = 1 THEN "handover" ELSE IF p.done = 2 THEN "ladder" ELSE "commit"
           /\ ToGo(p, "handover") <=> p.done \in {0, 1}
           /\ ToGo(p, "market") <=> FALSE
           /\ p # NoPend
<1>1. NextOf(p) = IF p.done = 0 THEN "cancel" ELSE IF p.done = 1 THEN "handover" ELSE IF p.done = 2 THEN "ladder" ELSE "commit"
    BY ActsShape DEF NextOf
<1>2. ToGo(p, "handover") <=> p.done \in {0, 1}
    BY ActsShape DEF ToGo
<1>3. ToGo(p, "market") <=> FALSE
    BY ActsShape DEF ToGo
<1>4. Ladder3 # NoActs
    BY ActsShape
<1>5. p # NoPend
    BY <1>4, NoPendType
<1> QED
    BY <1>1, <1>2, <1>3, <1>5

LEMMA Armed4Stage ==
    ASSUME NEW p, p.acts = Armed4, p.done \in {0, 1, 2, 3, 4}
    PROVE  /\ NextOf(p) = IF p.done = 0 THEN "cancel" ELSE IF p.done = 1 THEN "market" ELSE IF p.done = 2 THEN "handover" ELSE IF p.done = 3 THEN "ladder" ELSE "commit"
           /\ ToGo(p, "handover") <=> p.done \in {0, 1, 2}
           /\ ToGo(p, "market") <=> p.done \in {0, 1}
           /\ p # NoPend
<1>1. NextOf(p) = IF p.done = 0 THEN "cancel" ELSE IF p.done = 1 THEN "market" ELSE IF p.done = 2 THEN "handover" ELSE IF p.done = 3 THEN "ladder" ELSE "commit"
    BY ActsShape DEF NextOf
<1>2. ToGo(p, "handover") <=> p.done \in {0, 1, 2}
    BY ActsShape DEF ToGo
<1>3. ToGo(p, "market") <=> p.done \in {0, 1}
    BY ActsShape DEF ToGo
<1>4. Armed4 # NoActs
    BY ActsShape
<1>5. p # NoPend
    BY <1>4, NoPendType
<1> QED
    BY <1>1, <1>2, <1>3, <1>5

LEMMA Waiting3Stage ==
    ASSUME NEW p, p.acts = Waiting3, p.done \in {0, 1, 2, 3}
    PROVE  /\ NextOf(p) = IF p.done = 0 THEN "market" ELSE IF p.done = 1 THEN "handover" ELSE IF p.done = 2 THEN "ladder" ELSE "commit"
           /\ ToGo(p, "handover") <=> p.done \in {0, 1}
           /\ ToGo(p, "market") <=> p.done \in {0}
           /\ p # NoPend
<1>1. NextOf(p) = IF p.done = 0 THEN "market" ELSE IF p.done = 1 THEN "handover" ELSE IF p.done = 2 THEN "ladder" ELSE "commit"
    BY ActsShape DEF NextOf
<1>2. ToGo(p, "handover") <=> p.done \in {0, 1}
    BY ActsShape DEF ToGo
<1>3. ToGo(p, "market") <=> p.done \in {0}
    BY ActsShape DEF ToGo
<1>4. Waiting3 # NoActs
    BY ActsShape
<1>5. p # NoPend
    BY <1>4, NoPendType
<1> QED
    BY <1>1, <1>2, <1>3, <1>5

LEMMA Riding2Stage ==
    ASSUME NEW p, p.acts = Riding2, p.done \in {0, 1, 2}
    PROVE  /\ NextOf(p) = IF p.done = 0 THEN "cancel" ELSE IF p.done = 1 THEN "ladder" ELSE "commit"
           /\ ToGo(p, "handover") <=> FALSE
           /\ ToGo(p, "market") <=> FALSE
           /\ p # NoPend
<1>1. NextOf(p) = IF p.done = 0 THEN "cancel" ELSE IF p.done = 1 THEN "ladder" ELSE "commit"
    BY ActsShape DEF NextOf
<1>2. ToGo(p, "handover") <=> FALSE
    BY ActsShape DEF ToGo
<1>3. ToGo(p, "market") <=> FALSE
    BY ActsShape DEF ToGo
<1>4. Riding2 # NoActs
    BY ActsShape
<1>5. p # NoPend
    BY <1>4, NoPendType
<1> QED
    BY <1>1, <1>2, <1>3, <1>5

(* Where a decision stands, and what it has still to do.                   *)
LEMMA DecisionStage ==
    ASSUME NEW p \in Pends, NEW phase \in Phases, Decision(p, phase)
    PROVE  /\ p # NoPend
           /\ NextOf(p) \in {"cancel", "market", "handover", "ladder", "commit"}
           /\ p.next \in {"ladder", "armed", "waiting", "riding"}
           /\ p.next \in {"ladder", "armed"} => NextOf(p) \in {"ladder", "commit"} /\ phase = p.next
           /\ p.next = "waiting" => NextOf(p) \in {"cancel", "commit"} /\ phase \in {"ladder", "riding"}
           /\ p.next = "riding" =>
                /\ phase \in {"ladder", "armed", "waiting", "riding"}
                /\ phase = "ladder" => NextOf(p) \in {"cancel", "handover", "ladder", "commit"}
                /\ phase = "waiting" => NextOf(p) \in {"market", "handover", "ladder", "commit"}
                /\ phase = "riding" => NextOf(p) \in {"cancel", "ladder", "commit"}
           /\ ToGo(p, "handover") <=>
                /\ p.next = "riding"
                /\ NextOf(p) \in {"market", "handover"} \/ (NextOf(p) = "cancel" /\ phase \in {"ladder", "armed"})
           /\ ToGo(p, "market") <=>
                /\ p.next = "riding"
                /\ NextOf(p) = "market" \/ (NextOf(p) = "cancel" /\ phase = "armed")
<1>p. p.done \in 0..4
    BY PendParts
<1>q. p.done <= LenOf(p.acts)
    BY DEF Decision
<1>1. CASE First(p, phase)
    <2>1. p.acts = First1
        BY <1>1 DEF First
    <2>2. p.done \in {0, 1}
        BY <1>p, <1>q, <2>1, ActsShape
    <2> QED
        BY <1>1, <2>1, <2>2, First1Stage DEF First
<1>2. CASE Leaves(p, phase)
    <2>1. p.acts = Leave1
        BY <1>2 DEF Leaves
    <2>2. p.done \in {0, 1}
        BY <1>p, <1>q, <2>1, ActsShape
    <2> QED
        BY <1>2, <2>1, <2>2, Leave1Stage DEF Leaves
<1>3. CASE Breaks(p, phase) /\ phase = "ladder"
    <2>1. p.acts = Ladder3
        BY <1>3 DEF Breaks
    <2>2. p.done \in {0, 1, 2, 3}
        BY <1>p, <1>q, <2>1, ActsShape
    <2> QED
        BY <1>3, <2>1, <2>2, Ladder3Stage DEF Breaks
<1>4. CASE Breaks(p, phase) /\ phase = "armed"
    <2>1. p.acts = Armed4
        BY <1>4 DEF Breaks
    <2>2. p.done \in {0, 1, 2, 3, 4}
        BY <1>p, <1>q, <2>1, ActsShape
    <2> QED
        BY <1>4, <2>1, <2>2, Armed4Stage DEF Breaks
<1>5. CASE Breaks(p, phase) /\ phase = "waiting"
    <2>1. p.acts = Waiting3
        BY <1>5 DEF Breaks
    <2>2. p.done \in {0, 1, 2, 3}
        BY <1>p, <1>q, <2>1, ActsShape
    <2> QED
        BY <1>5, <2>1, <2>2, Waiting3Stage DEF Breaks
<1>6. CASE Breaks(p, phase) /\ phase = "riding"
    <2>1. p.acts = Riding2
        BY <1>6 DEF Breaks
    <2>2. p.done \in {0, 1, 2}
        BY <1>p, <1>q, <2>1, ActsShape
    <2> QED
        BY <1>6, <2>1, <2>2, Riding2Stage DEF Breaks
<1> QED
    BY <1>1, <1>2, <1>3, <1>4, <1>5, <1>6 DEF Decision, Breaks

(* The action after it.                                                    *)
LEMMA DecisionStep ==
    ASSUME NEW p \in Pends, NEW phase \in Phases, Decision(p, phase), NextOf(p) # "commit"
    PROVE  /\ Further(p) \in Pends /\ Decision(Further(p), phase) /\ Further(p).next = p.next
           /\ NextOf(p) = "ladder" => NextOf(Further(p)) = "commit"
           /\ NextOf(p) = "handover" => NextOf(Further(p)) = "ladder" /\ p.next = "riding"
           /\ NextOf(p) = "market" => NextOf(Further(p)) = "handover" /\ p.next = "riding"
           /\ NextOf(p) = "cancel" =>
                NextOf(Further(p)) = IF p.next = "waiting" THEN "commit"
                                     ELSE IF phase = "ladder" THEN "handover"
                                     ELSE IF phase = "armed" THEN "market" ELSE "ladder"
           /\ NextOf(p) = "cancel" => p.next \in {"waiting", "riding"} /\ phase # "waiting"
<1> DEFINE q == Further(p)
<1>p. p.done \in 0..4 /\ p.acts \in Acts /\ p.next \in {"none", "ladder", "armed", "riding", "waiting"}
    BY PendParts
<1>q. p.done <= LenOf(p.acts)
    BY DEF Decision
<1>r. q = [acts |-> p.acts, done |-> p.done + 1, next |-> p.next]
    BY PendParts
<1>0. q.acts = p.acts /\ q.next = p.next /\ q.done = p.done + 1
    BY <1>r
<1>a. p.done < LenOf(p.acts)
    BY DEF NextOf
<1>b. LenOf(p.acts) \in 0..4
    BY <1>p, ActsLen
<1>c. p.done + 1 \in 0..4
    BY <1>p, <1>a, <1>b
<1>d. q \in Pends
    BY <1>p, <1>r, <1>c DEF Pends
<1>e. q.done <= LenOf(q.acts)
    BY <1>0, <1>p, <1>a, <1>b
<1> HIDE DEF q
<1>1. CASE First(p, phase)
    <2>1. p.acts = First1
        BY <1>1 DEF First
    <2>2. p.done \in {0}
        BY <1>p, <1>a, <2>1, ActsShape
    <2>3. q.acts = First1 /\ q.done = p.done + 1 /\ q.done \in {0, 1} /\ p.done \in {0, 1}
        BY <1>0, <2>1, <2>2
    <2>4. First(q, phase)
        BY <1>0, <1>1, <2>3 DEF First
    <2> QED
        BY <1>0, <1>d, <1>e, <1>1, <2>1, <2>2, <2>3, <2>4, First1Stage DEF First, Decision, q
<1>2. CASE Leaves(p, phase)
    <2>1. p.acts = Leave1
        BY <1>2 DEF Leaves
    <2>2. p.done \in {0}
        BY <1>p, <1>a, <2>1, ActsShape
    <2>3. q.acts = Leave1 /\ q.done = p.done + 1 /\ q.done \in {0, 1} /\ p.done \in {0, 1}
        BY <1>0, <2>1, <2>2
    <2>4. Leaves(q, phase)
        BY <1>0, <1>2, <2>3 DEF Leaves
    <2> QED
        BY <1>0, <1>d, <1>e, <1>2, <2>1, <2>2, <2>3, <2>4, Leave1Stage DEF Leaves, Decision, q
<1>3. CASE Breaks(p, phase) /\ phase = "ladder"
    <2>1. p.acts = Ladder3
        BY <1>3 DEF Breaks
    <2>2. p.done \in {0, 1, 2}
        BY <1>p, <1>a, <2>1, ActsShape
    <2>3. q.acts = Ladder3 /\ q.done = p.done + 1 /\ q.done \in {0, 1, 2, 3} /\ p.done \in {0, 1, 2, 3}
        BY <1>0, <2>1, <2>2
    <2>4. Breaks(q, phase)
        BY <1>0, <1>3, <2>3 DEF Breaks
    <2> QED
        BY <1>0, <1>d, <1>e, <1>3, <2>1, <2>2, <2>3, <2>4, Ladder3Stage DEF Breaks, Decision, q
<1>4. CASE Breaks(p, phase) /\ phase = "armed"
    <2>1. p.acts = Armed4
        BY <1>4 DEF Breaks
    <2>2. p.done \in {0, 1, 2, 3}
        BY <1>p, <1>a, <2>1, ActsShape
    <2>3. q.acts = Armed4 /\ q.done = p.done + 1 /\ q.done \in {0, 1, 2, 3, 4} /\ p.done \in {0, 1, 2, 3, 4}
        BY <1>0, <2>1, <2>2
    <2>4. Breaks(q, phase)
        BY <1>0, <1>4, <2>3 DEF Breaks
    <2> QED
        BY <1>0, <1>d, <1>e, <1>4, <2>1, <2>2, <2>3, <2>4, Armed4Stage DEF Breaks, Decision, q
<1>5. CASE Breaks(p, phase) /\ phase = "waiting"
    <2>1. p.acts = Waiting3
        BY <1>5 DEF Breaks
    <2>2. p.done \in {0, 1, 2}
        BY <1>p, <1>a, <2>1, ActsShape
    <2>3. q.acts = Waiting3 /\ q.done = p.done + 1 /\ q.done \in {0, 1, 2, 3} /\ p.done \in {0, 1, 2, 3}
        BY <1>0, <2>1, <2>2
    <2>4. Breaks(q, phase)
        BY <1>0, <1>5, <2>3 DEF Breaks
    <2> QED
        BY <1>0, <1>d, <1>e, <1>5, <2>1, <2>2, <2>3, <2>4, Waiting3Stage DEF Breaks, Decision, q
<1>6. CASE Breaks(p, phase) /\ phase = "riding"
    <2>1. p.acts = Riding2
        BY <1>6 DEF Breaks
    <2>2. p.done \in {0, 1}
        BY <1>p, <1>a, <2>1, ActsShape
    <2>3. q.acts = Riding2 /\ q.done = p.done + 1 /\ q.done \in {0, 1, 2} /\ p.done \in {0, 1, 2}
        BY <1>0, <2>1, <2>2
    <2>4. Breaks(q, phase)
        BY <1>0, <1>6, <2>3 DEF Breaks
    <2> QED
        BY <1>0, <1>d, <1>e, <1>6, <2>1, <2>2, <2>3, <2>4, Riding2Stage DEF Breaks, Decision, q
<1> QED
    BY <1>1, <1>2, <1>3, <1>4, <1>5, <1>6 DEF Decision, Breaks, q

(* A decision that is new.                                                 *)
LEMMA DecisionNew ==
    /\ \A phase \in {"ladder", "armed"} :
          LET p == [acts |-> <<"ladder">>, done |-> 0, next |-> phase]
          IN  p \in Pends /\ Decision(p, phase) /\ NextOf(p) = "ladder"
    /\ \A phase \in {"ladder", "riding"} :
          LET p == [acts |-> <<"cancel">>, done |-> 0, next |-> "waiting"]
          IN  p \in Pends /\ Decision(p, phase) /\ NextOf(p) = "cancel"
    /\ \A phase \in {"ladder", "armed", "waiting", "riding"} :
          LET p == [acts |-> Breakout(phase), done |-> 0, next |-> "riding"]
          IN  /\ p \in Pends /\ Decision(p, phase)
              /\ NextOf(p) = IF phase = "waiting" THEN "market" ELSE "cancel"
<1>1. First1 \in Acts /\ Leave1 \in Acts /\ Ladder3 \in Acts /\ Armed4 \in Acts /\ Waiting3 \in Acts /\ Riding2 \in Acts
    BY DEF Acts
<1>2. ASSUME NEW acts \in Acts, NEW next \in {"ladder", "armed", "waiting", "riding"}
      PROVE  [acts |-> acts, done |-> 0, next |-> next] \in Pends
    <2>1. 0 \in 0..4 /\ next \in {"none", "ladder", "armed", "riding", "waiting"}
        OBVIOUS
    <2> QED
        BY <2>1, Zenon DEF Pends
<1>3. ASSUME NEW phase \in {"ladder", "armed"}, NEW p, p = [acts |-> First1, done |-> 0, next |-> phase]
      PROVE  p \in Pends /\ Decision(p, phase) /\ NextOf(p) = "ladder"
    <2>1. p.acts = First1 /\ p.done = 0 /\ p.next = phase
        BY <1>3
    <2>2. p.done \in {0, 1} /\ p.done <= LenOf(p.acts)
        BY <2>1, ActsShape
    <2>3. p \in Pends
        BY <1>1, <1>2, <1>3
    <2> QED
        BY <2>1, <2>2, <2>3, First1Stage DEF Decision, First
<1>4. ASSUME NEW phase \in {"ladder", "riding"}, NEW p, p = [acts |-> Leave1, done |-> 0, next |-> "waiting"]
      PROVE  p \in Pends /\ Decision(p, phase) /\ NextOf(p) = "cancel"
    <2>1. p.acts = Leave1 /\ p.done = 0 /\ p.next = "waiting"
        BY <1>4
    <2>2. p.done \in {0, 1} /\ p.done <= LenOf(p.acts)
        BY <2>1, ActsShape
    <2>3. p \in Pends
        BY <1>1, <1>2, <1>4
    <2> QED
        BY <2>1, <2>2, <2>3, Leave1Stage DEF Decision, Leaves
<1>5. ASSUME NEW phase \in {"ladder", "armed", "waiting", "riding"}, NEW p,
             p = [acts |-> Breakout(phase), done |-> 0, next |-> "riding"]
      PROVE  /\ p \in Pends /\ Decision(p, phase)
             /\ NextOf(p) = IF phase = "waiting" THEN "market" ELSE "cancel"
    <2>1. p.acts = Breakout(phase) /\ p.done = 0 /\ p.next = "riding"
        BY <1>5
    <2>2. CASE phase = "ladder"
        <3>1. Breakout(phase) = Ladder3
            BY <2>2 DEF Breakout, Ladder3
        <3>2. p.done \in {0, 1, 2, 3} /\ p.done <= LenOf(p.acts)
            BY <2>1, <3>1, ActsShape
        <3>3. p \in Pends
            BY <1>1, <1>2, <1>5, <3>1
        <3> QED
            BY <2>1, <2>2, <3>1, <3>2, <3>3, Ladder3Stage DEF Decision, Breaks
    <2>3. CASE phase = "armed"
        <3>1. Breakout(phase) = Armed4
            BY <2>3 DEF Breakout, Armed4
        <3>2. p.done \in {0, 1, 2, 3, 4} /\ p.done <= LenOf(p.acts)
            BY <2>1, <3>1, ActsShape
        <3>3. p \in Pends
            BY <1>1, <1>2, <1>5, <3>1
        <3> QED
            BY <2>1, <2>3, <3>1, <3>2, <3>3, Armed4Stage DEF Decision, Breaks
    <2>4. CASE phase = "waiting"
        <3>1. Breakout(phase) = Waiting3
            BY <2>4 DEF Breakout, Waiting3
        <3>2. p.done \in {0, 1, 2, 3} /\ p.done <= LenOf(p.acts)
            BY <2>1, <3>1, ActsShape
        <3>3. p \in Pends
            BY <1>1, <1>2, <1>5, <3>1
        <3> QED
            BY <2>1, <2>4, <3>1, <3>2, <3>3, Waiting3Stage DEF Decision, Breaks
    <2>5. CASE phase = "riding"
        <3>1. Breakout(phase) = Riding2
            BY <2>5 DEF Breakout, Riding2
        <3>2. p.done \in {0, 1, 2} /\ p.done <= LenOf(p.acts)
            BY <2>1, <3>1, ActsShape
        <3>3. p \in Pends
            BY <1>1, <1>2, <1>5, <3>1
        <3> QED
            BY <2>1, <2>5, <3>1, <3>2, <3>3, Riding2Stage DEF Decision, Breaks
    <2> QED
        BY <2>2, <2>3, <2>4, <2>5
<1>6. First1 = <<"ladder">> /\ Leave1 = <<"cancel">>
    BY DEF First1, Leave1
<1> QED
    BY <1>3, <1>4, <1>5, <1>6

----------------------------------------------------------------------------
(* Sums over the rungs *)

LEMMA RungsFinite == IsFiniteSet(Rungs)
BY AccumulateRideAssumption, FS_Product DEF Rungs

(* What the rungs filled, unseen by the sweep, without a row, or for good. *)
LEMMA SumTypes ==
    ASSUME NEW sl \in Slips, NEW tr \in Tracks, NEW fi \in [Rungs -> Nat]
    PROVE  /\ Sum(fi) \in Nat /\ Sum(LostOf(sl, fi)) \in Nat /\ Sum(OwnOf(sl, fi)) \in Nat
           /\ Sum(UnsweptOf(tr, fi)) \in Int
           /\ (\A r \in Rungs : tr[r].got <= fi[r]) => Sum(UnsweptOf(tr, fi)) \in Nat
           /\ (\A r \in Rungs : tr[r].on # "ride") => Sum(UnsweptOf(tr, fi)) = 0
           /\ (\A r \in Rungs : sl[r] = "none" => fi[r] = 0) => Sum(LostOf(sl, fi)) = 0
           /\ (\A r \in Rungs : sl[r] = "filled" \/ fi[r] = 0) => OwnOf(sl, fi) = fi
<1>1. fi \in [Rungs -> Int] /\ \A r \in Rungs : fi[r] >= 0
    OBVIOUS
<1>2. LostOf(sl, fi) \in [Rungs -> Int] /\ \A r \in Rungs : LostOf(sl, fi)[r] >= 0
    BY <1>1 DEF LostOf
<1>3. OwnOf(sl, fi) \in [Rungs -> Int] /\ \A r \in Rungs : OwnOf(sl, fi)[r] >= 0
    BY <1>1 DEF OwnOf
<1>4. UnsweptOf(tr, fi) \in [Rungs -> Int]
    BY <1>1 DEF UnsweptOf, Tracks
<1>5. Sum(fi) \in Nat /\ Sum(LostOf(sl, fi)) \in Nat /\ Sum(OwnOf(sl, fi)) \in Nat
    BY <1>1, <1>2, <1>3, RungsFinite, SumNat
<1>6. Sum(UnsweptOf(tr, fi)) \in Int
    BY <1>4, RungsFinite, SumType
<1>7. ASSUME \A r \in Rungs : tr[r].got <= fi[r]
      PROVE  Sum(UnsweptOf(tr, fi)) \in Nat
    <2>1. \A r \in Rungs : UnsweptOf(tr, fi)[r] >= 0
        BY <1>1, <1>7 DEF UnsweptOf, Tracks
    <2> QED
        BY <2>1, <1>4, RungsFinite, SumNat
<1>8. ASSUME \A r \in Rungs : tr[r].on # "ride"
      PROVE  Sum(UnsweptOf(tr, fi)) = 0
    <2>1. \A r \in Rungs : UnsweptOf(tr, fi)[r] = 0
        BY <1>8 DEF UnsweptOf
    <2> QED
        BY <2>1, <1>4, SumZero
<1>9. ASSUME \A r \in Rungs : sl[r] = "none" => fi[r] = 0
      PROVE  Sum(LostOf(sl, fi)) = 0
    <2>1. \A r \in Rungs : LostOf(sl, fi)[r] = 0
        BY <1>9 DEF LostOf
    <2> QED
        BY <2>1, <1>2, SumZero
<1>10. ASSUME \A r \in Rungs : sl[r] = "filled" \/ fi[r] = 0
       PROVE  OwnOf(sl, fi) = fi
    BY <1>10 DEF OwnOf
<1> QED
    BY <1>5, <1>6, <1>7, <1>8, <1>9, <1>10

(* What a step of one rung does to them.                                   *)
Unseen(tr, fi, r) == IF tr[r].on = "ride" THEN fi[r] - tr[r].got ELSE 0
Rowless(sl, fi, r) == IF sl[r] = "none" THEN fi[r] ELSE 0

LEMMA UnsweptChange ==
    ASSUME NEW tr \in Tracks, NEW fi \in [Rungs -> Nat], NEW tr2 \in Tracks, NEW fi2 \in [Rungs -> Nat],
           NEW x \in Rungs, \A r \in Rungs \ {x} : tr2[r] = tr[r] /\ fi2[r] = fi[r]
    PROVE  Sum(UnsweptOf(tr2, fi2)) = Sum(UnsweptOf(tr, fi)) + Unseen(tr2, fi2, x) - Unseen(tr, fi, x)
<1>1. UnsweptOf(tr, fi) \in [Rungs -> Int] /\ UnsweptOf(tr2, fi2) \in [Rungs -> Int]
    BY DEF UnsweptOf, Tracks
<1>2. \A r \in Rungs \ {x} : UnsweptOf(tr2, fi2)[r] = UnsweptOf(tr, fi)[r]
    BY DEF UnsweptOf
<1>3. UnsweptOf(tr, fi)[x] = Unseen(tr, fi, x) /\ UnsweptOf(tr2, fi2)[x] = Unseen(tr2, fi2, x)
    BY DEF UnsweptOf, Unseen
<1> QED
    BY <1>1, <1>2, <1>3, RungsFinite, SumChange

LEMMA LostChange ==
    ASSUME NEW sl \in Slips, NEW fi \in [Rungs -> Nat], NEW sl2 \in Slips, NEW fi2 \in [Rungs -> Nat],
           NEW x \in Rungs, \A r \in Rungs \ {x} : sl2[r] = sl[r] /\ fi2[r] = fi[r]
    PROVE  Sum(LostOf(sl2, fi2)) = Sum(LostOf(sl, fi)) + Rowless(sl2, fi2, x) - Rowless(sl, fi, x)
<1>1. LostOf(sl, fi) \in [Rungs -> Int] /\ LostOf(sl2, fi2) \in [Rungs -> Int]
    BY DEF LostOf
<1>2. \A r \in Rungs \ {x} : LostOf(sl2, fi2)[r] = LostOf(sl, fi)[r]
    BY DEF LostOf
<1>3. LostOf(sl, fi)[x] = Rowless(sl, fi, x) /\ LostOf(sl2, fi2)[x] = Rowless(sl2, fi2, x)
    BY DEF LostOf, Rowless
<1> QED
    BY <1>1, <1>2, <1>3, RungsFinite, SumChange

LEMMA FillChange ==
    ASSUME NEW fi \in [Rungs -> Nat], NEW fi2 \in [Rungs -> Nat],
           NEW x \in Rungs, \A r \in Rungs \ {x} : fi2[r] = fi[r]
    PROVE  Sum(fi2) = Sum(fi) + fi2[x] - fi[x]
<1>1. fi \in [Rungs -> Int] /\ fi2 \in [Rungs -> Int]
    OBVIOUS
<1> QED
    BY <1>1, RungsFinite, SumChange

(* Rows that are rewritten but not made or dropped lose nothing.           *)
LEMMA LostSame ==
    ASSUME NEW sl, NEW sl2, NEW fi, \A r \in Rungs : sl2[r] = "none" <=> sl[r] = "none"
    PROVE  LostOf(sl2, fi) = LostOf(sl, fi)
BY DEF LostOf

(* The sums of the model are these.                                        *)
LEMMA SumsAre ==
    /\ Unswept = Sum(UnsweptOf(track, fill))
    /\ Unswept' = Sum(UnsweptOf(track', fill'))
    /\ Lost = Sum(LostOf(slip, fill)) /\ Lost' = Sum(LostOf(slip', fill'))
    /\ Own = plan.entry + IF plan.ended THEN 0 ELSE Sum(OwnOf(slip, fill))
    /\ Own' = plan'.entry + IF plan'.ended THEN 0 ELSE Sum(OwnOf(slip', fill'))
BY DEF Unswept, UnsweptOf, Lost, Own, OwnOf

----------------------------------------------------------------------------
(* What a step leaves as it was *)

LEMMA Ranges ==
    /\ Seqs \subseteq Nat \ {0} /\ Ladder \subseteq Nat \ {0}
    /\ \A r \in Rungs : r[1] \in Seqs /\ r[2] \in Ladder /\ Size[r[2]] \in Nat \ {0}
    /\ \A s \in Seqs : \A i \in Ladder : <<s, i>> \in Rungs /\ <<s, i>>[1] = s /\ <<s, i>>[2] = i
    /\ \A r \in Rungs : r = <<r[1], r[2]>>
<1>1. Seqs \subseteq Nat \ {0} /\ Ladder \subseteq Nat \ {0}
    BY AccumulateRideAssumption, FS_CardinalityType
<1>2. \A r \in Rungs : r[1] \in Seqs /\ r[2] \in Ladder /\ Size[r[2]] \in Nat \ {0}
    BY AccumulateRideAssumption DEF Rungs
<1>3. \A s \in Seqs : \A i \in Ladder : <<s, i>> \in Rungs /\ <<s, i>>[1] = s /\ <<s, i>>[2] = i
    BY DEF Rungs
<1>4. \A r \in Rungs : r = <<r[1], r[2]>>
    BY DEF Rungs
<1> QED
    BY <1>1, <1>2, <1>3, <1>4

(* One party takes a step, the others stay where they are.                 *)
LEMMA PartyStep ==
    ASSUME proc \in [Procs -> Parties], NEW p \in Procs, NEW r \in Parties, Becomes(p, r)
    PROVE  /\ proc' \in [Procs -> Parties] /\ proc'[p] = r
           /\ \A q \in Procs : q # p => proc'[q] = proc[q]
BY DEF Becomes

LEMMA IdleType == Idle \in Parties /\ Idle.step = "idle" /\ Idle.todo = {} /\ Idle.pend = NoPend
BY NoPendType DEF Idle, Parties, Steps

(* A rung that is asked for is on record and tracked.                      *)
LEMMA FreshAsk ==
    ASSUME Types, NEW r \in Rungs, RungOk(r), Tracked(r)
    PROVE  Ask(r) \in Asks /\ Ask(r).rung = r /\ Ask(r).was = track[r].got /\ AskOk(Ask(r))
<1>1. track[r].on \in {"marker", "ride"} /\ track[r].got \in Nat
    BY DEF Types, Tracks, Tracked
<1>2. Ask(r) \in Asks /\ Ask(r).rung = r /\ Ask(r).was = track[r].got
    BY <1>1 DEF Ask, Asks
<1> QED
    BY <1>2 DEF AskOk, RungOk, Types, Tracks

LEMMA PlanFrame ==
    ASSUME PlanOk, RideOk, EntryOk, UNCHANGED <<plan, bought>>, ride'.st = ride.st
    PROVE  PlanOk' /\ RideOk' /\ EntryOk'
<1>1. PlanOk'
    BY DEF PlanOk, Pending, Stopped, HandedTo
<1>2. RideOk'
    BY DEF RideOk, At, Pending
<1>3. EntryOk'
    BY DEF EntryOk, Bought, Stopped, Pending, ToDo
<1> QED
    BY <1>1, <1>2, <1>3

LEMMA RungsFrame ==
    ASSUME RungsOk, UNCHANGED <<plan, slip, track, ord, fill>>, ride'.st = ride.st
    PROVE  RungsOk'
BY DEF RungsOk, RungOk, Tracked, Owned, At, Pending

LEMMA OpenFrame ==
    ASSUME OpenOk, UNCHANGED <<plan, slip, fill, guard>>,
           proc'["tick"].step = "protect" => proc["tick"].step = "protect"
    PROVE  OpenOk'
BY DEF OpenOk, Cleared, At, Pending

LEMMA LadderFrame ==
    ASSUME LadderOk, UNCHANGED <<plan, slip, ord>>,
           proc'["tick"].step = "ladder" => proc["tick"].step = "ladder" /\ proc'["tick"].n = proc["tick"].n
    PROVE  LadderOk'
BY DEF LadderOk

LEMMA AsksFrame ==
    ASSUME AsksOk, UNCHANGED <<slip, track, fill>>, sweep' \in {NoAsk, sweep},
           \A p \in Procs : proc'[p].todo \subseteq proc[p].todo
    PROVE  AsksOk'
BY DEF AsksOk, AskOk, Tracked

LEMMA LedgerFrame ==
    ASSUME LedgerOk, UNCHANGED <<plan, slip, track, fill, bought, ride, parent, net, base>>
    PROVE  LedgerOk' /\ Own' = Own /\ Ridden' = Ridden
<1>1. Unswept' = Unswept /\ Lost' = Lost /\ Own' = Own
    BY SumsAre
<1>2. Ridden' = Ridden
    BY DEF Ridden
<1>3. Due' = Due
    BY <1>1 DEF Due, Owned, EntryHeld, Stopped, ToDo
<1> QED
    BY <1>1, <1>2, <1>3 DEF LedgerOk, Free, Stopped

LEMMA GuardFrame ==
    ASSUME GuardOk, UNCHANGED <<plan, ride, parent, guard, net, base>>
    PROVE  GuardOk'
BY DEF GuardOk, Guarded, Ridden

(* A step of the parties alone.                                            *)
LEMMA PartiesAlone ==
    ASSUME Inv, UNCHANGED <<plan, rungs, venue>>,
           proc' \in [Procs -> Parties], sweep' = NoAsk \/ sweep' \in Asks, faults' \in 0..MaxFaults,
           proc'["tick"].step = "protect" => proc["tick"].step = "protect",
           ProcOk', HandOverOk', LadderOk', AsksOk'
    PROVE  Inv'
<1>1. UNCHANGED <<plan, slip, track, ord, fill, bought, ride, parent, guard, net, base>>
    BY DEF rungs, venue
<1>2. Types'
    BY <1>1 DEF Inv, Types
<1>3. PlanOk' /\ RideOk' /\ EntryOk'
    BY <1>1, PlanFrame DEF Inv
<1>4. RungsOk'
    BY <1>1, RungsFrame DEF Inv
<1>5. OpenOk'
    BY <1>1, OpenFrame DEF Inv
<1>6. LedgerOk' /\ GuardOk'
    BY <1>1, LedgerFrame, GuardFrame DEF Inv
<1> QED
    BY <1>2, <1>3, <1>4, <1>5, <1>6 DEF Inv

(* No step undoes a way.                                                   *)
LEMMA TickTypes ==
    ASSUME Types
    PROVE  /\ proc["tick"] \in Parties /\ proc["stop"] \in Parties /\ proc["floor"] \in Parties
           /\ plan.pend \in Pends /\ plan.phase \in Phases /\ Mem \in Pends
           /\ ride.st \in {"none", "open", "ended"} /\ ride.qty \in Nat
BY DEF Types, Procs, Parties, Rows, Mem

(* What the tick may be at while the plan's row stays as it is.            *)
TickOk(r) ==
    /\ r.step = "look" => ~Stopped
    /\ r.step \in {"run", "cancel", "market", "refused", "handover", "handed", "ladder"} => Pending /\ r.pend = plan.pend
    /\ r.step = "cancel" => At("cancel")
    /\ r.step = "market" => At("market") /\ plan.seq \in bought.venue
    /\ r.step = "refused" => At("market") /\ plan.seq \notin bought.venue
    /\ r.step \in {"handover", "handed"} => At("handover")
    /\ r.step = "ladder" => At("ladder") /\ r.n >= 1
    /\ r.step \in {"settle", "protect"} => plan.settle = "pending"
    /\ r.step = "handover" => r.n = Own \/ (ride.st # "open" /\ parent = 0 /\ r.n = net)
    /\ r.step = "handed" => ride.st = "open"
    /\ r.step = "ladder" =>
           \A i \in Ladder : i < r.n /\ slip[<<plan.seq, i>>] = "none" => ord[<<plan.seq, i>>] = "none"
    /\ \A x \in r.todo : AskOk(x)

LEMMA TickAlone ==
    ASSUME Inv, UNCHANGED <<plan, rungs, venue, sweep>>, faults' \in 0..MaxFaults,
           NEW r \in Parties, Becomes("tick", r), r.step # "protect", TickOk(r)
    PROVE  Inv'
<1>0. UNCHANGED <<plan, slip, track, ord, fill, bought, ride, parent, guard, net, base>>
    BY DEF rungs, venue
<1>1. /\ proc' \in [Procs -> Parties] /\ proc'["tick"] = r
      /\ proc'["stop"] = proc["stop"] /\ proc'["floor"] = proc["floor"]
    BY PartyStep DEF Inv, Types, Procs
<1>2. ProcOk'
    BY <1>0, <1>1 DEF Inv, ProcOk, TickOk, Stopped, Pending, At
<1>3. Own' = Own
    BY <1>0, LedgerFrame DEF Inv
<1>4. HandOverOk'
    BY <1>0, <1>1, <1>3 DEF HandOverOk, TickOk
<1>5. LadderOk'
    BY <1>0, <1>1 DEF LadderOk, TickOk
<1>6. AsksOk'
    BY <1>0, <1>1 DEF Inv, AsksOk, AskOk, Tracked, TickOk, Procs
<1> QED
    BY <1>1, <1>2, <1>4, <1>5, <1>6, PartiesAlone DEF Inv, Types

LEMMA TickIdle ==
    ASSUME Inv, UNCHANGED <<plan, rungs, venue, sweep>>, faults' \in 0..MaxFaults, Ends("tick")
    PROVE  Inv'
<1>1. TickOk(Idle)
    BY IdleType DEF TickOk
<1> QED
    BY <1>1, TickAlone, IdleType DEF Ends

----------------------------------------------------------------------------
(* Steps that change nobody but who takes them *)

LEMMA FaultType == Types /\ (Fault \/ UNCHANGED faults) => faults' \in 0..MaxFaults
BY AccumulateRideAssumption DEF Types, Fault

(* The tick that runs a decision holds the one in the row.                 *)
LEMMA TickMem ==
    ASSUME Inv, proc["tick"].step \in {"run", "cancel", "market", "refused", "handover", "handed", "ladder"}, Mem # NoPend
    PROVE  /\ Mem = plan.pend /\ Pending /\ Mem \in Pends
           /\ Act = NextOf(plan.pend) /\ \A act : At(act) <=> Act = act
           /\ Decision(plan.pend, plan.phase) /\ ~Stopped /\ plan.phase \in {"ladder", "armed", "waiting", "riding"}
<1>1. Mem = plan.pend /\ Pending
    BY DEF Inv, ProcOk, Mem
<1>2. Act = NextOf(plan.pend)
    BY <1>1 DEF Act, NextOf, LenOf
<1>3. Decision(plan.pend, plan.phase) /\ ~Stopped
    BY <1>1 DEF Inv, PlanOk
<1>4. plan.phase \in {"ladder", "armed", "waiting", "riding"}
    BY <1>3, TickTypes DEF Inv, Phases, Stopped
<1> QED
    BY <1>1, <1>2, <1>3, <1>4, TickTypes DEF Inv, At

LEMMA ResumeStep == ASSUME Inv, Resume PROVE Inv'
<1> DEFINE r == [Idle EXCEPT !.step = "run", !.pend = plan.pend]
<1>1. plan.pend \in Pends
    BY TickTypes DEF Inv
<1>2. r \in Parties /\ r.step = "run" /\ r.todo = {} /\ r.pend = plan.pend
    BY <1>1, IdleType DEF Steps, Parties
<1> HIDE DEF r
<1>3. TickOk(r)
    BY <1>2 DEF TickOk, Resume
<1> QED
    BY <1>2, <1>3, TickAlone DEF Resume, r, Inv, Types

LEMMA NothingToDoStep == ASSUME Inv, NothingToDo PROVE Inv'
BY TickIdle DEF NothingToDo, Inv, Types

LEMMA TickFailsStep == ASSUME Inv, TickFails PROVE Inv'
BY TickIdle, FaultType DEF TickFails, Inv

(* The rungs that are tracked, each with what is booked of it.             *)
LEMMA FreshAsks ==
    ASSUME Types, RungsOk, NEW S, \A r \in S : r \in Rungs /\ Tracked(r)
    PROVE  /\ {Ask(r) : r \in S} \in SUBSET Asks /\ \A x \in {Ask(r) : r \in S} : AskOk(x)
BY FreshAsk DEF RungsOk

LEMMA CancelRungsStep == ASSUME Inv, CancelRungs PROVE Inv'
<1> DEFINE t == {Ask(r) : r \in {o \in OpenRungs : Tracked(o)}}
           r == [proc["tick"] EXCEPT !.step = "cancel", !.todo = t]
<1>1. t \in SUBSET Asks /\ \A x \in t : AskOk(x)
    BY FreshAsks DEF Inv, OpenRungs
<1> HIDE DEF t
<1>2. r \in Parties /\ r.step = "cancel" /\ r.todo = t /\ r.pend = proc["tick"].pend
    BY <1>1, TickTypes DEF Steps, Parties, Inv
<1> HIDE DEF r
<1>3. Mem # NoPend /\ proc["tick"].step = "run" /\ Act = "cancel"
    BY NoPendType, ActsShape DEF CancelRungs, Act, LenOf, Inv, ProcOk, Pending, Mem
<1>4. TickOk(r)
    BY <1>1, <1>2, <1>3, TickMem DEF TickOk, Mem
<1> QED
    BY <1>2, <1>4, TickAlone DEF CancelRungs, r, t, Inv, Types

LEMMA PlaceLadderStep == ASSUME Inv, PlaceLadder PROVE Inv'
<1> DEFINE r == [proc["tick"] EXCEPT !.step = "ladder", !.n = 1]
<1>2. r \in Parties /\ r.step = "ladder" /\ r.n = 1 /\ r.todo = proc["tick"].todo /\ r.pend = proc["tick"].pend
    BY TickTypes DEF Steps, Parties, Inv
<1> HIDE DEF r
<1>3. Mem # NoPend /\ proc["tick"].step = "run" /\ Act = "ladder"
    BY DEF PlaceLadder, Inv, ProcOk, Pending, Mem
<1>4. \A x \in r.todo : AskOk(x)
    BY <1>2 DEF Inv, AsksOk, Procs
<1>5. \A i \in Ladder : ~(i < r.n)
    BY <1>2, Ranges
<1>6. TickOk(r)
    BY <1>2, <1>3, <1>4, <1>5, TickMem DEF TickOk, Mem
<1> QED
    BY <1>2, <1>6, TickAlone DEF PlaceLadder, r, Inv, Types

LEMMA RungRejectedStep == ASSUME Inv, RungRejected PROVE Inv'
<1> DEFINE r == [proc["tick"] EXCEPT !.n = @ + 1]
<1>1. r \in Parties /\ r.step = "ladder" /\ r.n = proc["tick"].n + 1
      /\ r.todo = proc["tick"].todo /\ r.pend = proc["tick"].pend
    BY TickTypes DEF Parties, Inv, RungRejected
<1>2. Becomes("tick", r)
    BY DEF RungRejected, NextRung
<1> HIDE DEF r
<1>3. Mem # NoPend /\ At("ladder") /\ proc["tick"].n >= 1 /\ proc["tick"].step = "ladder"
    BY DEF RungRejected, Inv, ProcOk, Pending, Mem
<1>4. \A x \in r.todo : AskOk(x)
    BY <1>1 DEF Inv, AsksOk, Procs
<1>5. \A i \in Ladder : i < r.n /\ slip[<<plan.seq, i>>] = "none" => ord[<<plan.seq, i>>] = "none"
    <2> TAKE i \in Ladder
    <2>1. CASE i = proc["tick"].n
        BY <2>1 DEF RungRejected, Rung
    <2>2. CASE i # proc["tick"].n
        <3>1. i < r.n => i < proc["tick"].n
            BY <2>2, <1>1, Ranges, TickTypes DEF Inv, Parties
        <3> QED
            BY <3>1, <1>3 DEF Inv, LadderOk
    <2> QED
        BY <2>1, <2>2
<1>6. proc["tick"].n \in Nat
    BY TickTypes DEF Inv, Parties
<1>7. TickOk(r)
    BY <1>1, <1>3, <1>4, <1>5, <1>6, TickMem DEF TickOk, Mem
<1> QED
    BY <1>1, <1>2, <1>7, TickAlone, FaultType DEF RungRejected, Inv, Types

LEMMA SettleStartsStep == ASSUME Inv, SettleStarts PROVE Inv'
<1> DEFINE t == {Ask(r) : r \in {u \in Unsure : Tracked(u)}}
           r == [Idle EXCEPT !.step = "settle", !.todo = t]
<1>1. t \in SUBSET Asks /\ \A x \in t : AskOk(x)
    BY FreshAsks DEF Inv, Unsure
<1> HIDE DEF t
<1>2. r \in Parties /\ r.step = "settle" /\ r.todo = t
    BY <1>1, IdleType DEF Steps, Parties
<1> HIDE DEF r
<1>3. TickOk(r)
    BY <1>1, <1>2 DEF TickOk, SettleStarts
<1> QED
    BY <1>2, <1>3, TickAlone DEF SettleStarts, r, t, Inv, Types

LEMMA SumsNat ==
    ASSUME Types
    PROVE  Own \in Nat /\ Lost \in Nat /\ Sum(fill) \in Nat /\ Unswept \in Int /\ Ridden \in Nat /\ Ridden >= parent
<1>1. Sum(fill) \in Nat /\ Sum(LostOf(slip, fill)) \in Nat /\ Sum(OwnOf(slip, fill)) \in Nat
      /\ Sum(UnsweptOf(track, fill)) \in Int
    BY SumTypes DEF Types
<1>2. Own \in Nat
    BY <1>1, SumsAre DEF Types, Rows
<1>3. Ridden \in Nat /\ Ridden >= parent
    BY DEF Types, Ridden
<1> QED
    BY <1>1, <1>2, <1>3, SumsAre

LEMMA HandOverReads ==
    ASSUME Inv, HandOver, ~(parent = 0 /\ ride.st = "open")
    PROVE  Inv'
<1> DEFINE qty == IF parent > 0 THEN Own ELSE net
           r == [proc["tick"] EXCEPT !.step = "handover", !.n = qty]
<1>0. qty \in Nat /\ UNCHANGED <<plan, rungs, venue, sweep, faults>>
    BY SumsNat DEF Inv, Types, HandOver
<1>1. CASE Ends("tick")
    BY <1>0, <1>1, TickIdle DEF Inv, Types
<1>2. CASE Becomes("tick", r)
    <2>0. qty = Own \/ (ride.st # "open" /\ parent = 0 /\ qty = net)
        BY DEF Inv, Types
    <2> HIDE DEF qty
    <2>2. r \in Parties /\ r.step = "handover" /\ r.n = qty /\ r.todo = proc["tick"].todo /\ r.pend = proc["tick"].pend
        BY <1>0, TickTypes DEF Steps, Parties, Inv
    <2> HIDE DEF r
    <2>3. Mem # NoPend /\ proc["tick"].step = "run" /\ Act = "handover"
        BY DEF HandOver, Inv, ProcOk, Pending, Mem
    <2>4. \A x \in r.todo : AskOk(x)
        BY <2>2 DEF Inv, AsksOk, Procs
    <2>5. TickOk(r)
        BY <2>0, <2>2, <2>3, <2>4, TickMem DEF TickOk, Mem
    <2> QED
        BY <1>0, <1>2, <2>2, <2>5, TickAlone DEF Inv, Types
<1> QED
    BY <1>1, <1>2 DEF HandOver

LEMMA StopStartsStep == ASSUME Inv, StopStarts PROVE Inv'
<1> DEFINE t == {Ask(r) : r \in {o \in OpenRungs : Tracked(o)}}
           r == [Idle EXCEPT !.step = "cancel", !.todo = t]
<1>1. t \in SUBSET Asks /\ \A x \in t : AskOk(x)
    BY FreshAsks DEF Inv, OpenRungs
<1> HIDE DEF t
<1>2. r \in Parties /\ r.step = "cancel" /\ r.todo = t
    BY <1>1, IdleType DEF Steps, Parties
<1> HIDE DEF r
<1>0. Becomes("stop", r) /\ UNCHANGED <<plan, rungs, venue, sweep, faults>>
    BY DEF StopStarts, r, t
<1>3. /\ proc' \in [Procs -> Parties] /\ proc'["stop"] = r
      /\ proc'["tick"] = proc["tick"] /\ proc'["floor"] = proc["floor"]
    BY <1>0, <1>2, PartyStep DEF Inv, Types, Procs
<1>4. UNCHANGED <<plan, slip, track, ord, fill, bought, ride, parent, guard, net, base>>
    BY <1>0 DEF rungs, venue
<1>5. ProcOk'
    BY <1>2, <1>3, <1>4 DEF Inv, ProcOk, Stopped, Pending, At, StopStarts
<1>6. HandOverOk'
    BY <1>3, <1>4, LedgerFrame DEF Inv, HandOverOk
<1>7. LadderOk'
    BY <1>3, <1>4 DEF Inv, LadderOk
<1>8. AsksOk'
    BY <1>0, <1>1, <1>2, <1>3, <1>4 DEF Inv, AsksOk, AskOk, Tracked, Procs
<1> QED
    BY <1>0, <1>3, <1>5, <1>6, <1>7, <1>8, PartiesAlone DEF Inv, Types

LEMMA FloorFiresStep == ASSUME Inv, FloorFires PROVE Inv'
<1> DEFINE rs == {r \in Rungs : Tracked(r) /\ (track[r].on = "marker" \/ slip[r] = "open")}
           t == {Ask(r) : r \in rs}
           os == {r \in rs : slip[r] = "open"}
           r == [Idle EXCEPT !.step = "cancel", !.todo = t, !.open = os]
<1>0. Becomes("floor", r) /\ UNCHANGED <<plan, rungs, venue, sweep, faults>>
    BY DEF FloorFires
<1>a. \A o \in rs : o \in Rungs /\ Tracked(o)
    OBVIOUS
<1> HIDE DEF rs
<1>1. t \in SUBSET Asks /\ \A x \in t : AskOk(x)
    BY <1>a, FreshAsks DEF Inv
<1> HIDE DEF t
<1>2. r \in Parties /\ r.step = "cancel" /\ r.todo = t
    BY <1>a, <1>1, IdleType DEF Steps, Parties
<1> HIDE DEF r
<1>3. /\ proc' \in [Procs -> Parties] /\ proc'["floor"] = r
      /\ proc'["tick"] = proc["tick"] /\ proc'["stop"] = proc["stop"]
    BY <1>0, <1>2, PartyStep DEF Inv, Types, Procs
<1>4. UNCHANGED <<plan, slip, track, ord, fill, bought, ride, parent, guard, net, base>>
    BY <1>0 DEF rungs, venue
<1>5. ProcOk'
    BY <1>2, <1>3, <1>4 DEF Inv, ProcOk, Stopped, Pending, At, FloorFires
<1>6. HandOverOk'
    BY <1>3, <1>4, LedgerFrame DEF Inv, HandOverOk
<1>7. LadderOk'
    BY <1>3, <1>4 DEF Inv, LadderOk
<1>8. AsksOk'
    BY <1>0, <1>1, <1>2, <1>3, <1>4 DEF Inv, AsksOk, AskOk, Tracked, Procs
<1> QED
    BY <1>0, <1>3, <1>5, <1>6, <1>7, <1>8, PartiesAlone DEF Inv, Types

LEMMA SweepAsksStep == ASSUME Inv, NEW r \in Rungs, SweepAsks(r) PROVE Inv'
<1>1. Ask(r) \in Asks /\ AskOk(Ask(r))
    BY FreshAsk DEF SweepAsks, Inv, RungsOk
<1>2. UNCHANGED <<plan, slip, track, ord, fill, bought, ride, parent, guard, net, base, proc, faults>>
    BY DEF SweepAsks, rungs, venue
<1>3. ProcOk' /\ HandOverOk' /\ LadderOk'
    BY <1>2, LedgerFrame DEF Inv, ProcOk, Stopped, Pending, At, HandOverOk, LadderOk
<1>4. AsksOk'
    BY <1>1, <1>2 DEF SweepAsks, Inv, AsksOk, AskOk, Tracked
<1> QED
    BY <1>1, <1>2, <1>3, <1>4, PartiesAlone DEF SweepAsks, Inv, Types

LEMMA CrashStep == ASSUME Inv, Crash PROVE Inv'
<1>1. UNCHANGED <<plan, slip, track, ord, fill, bought, ride, parent, guard, net, base>>
    BY DEF Crash, rungs, venue
<1>2. proc' \in [Procs -> Parties] /\ \A p \in Procs : proc'[p] = Idle
    BY IdleType DEF Crash
<1>3. proc'["tick"].step = "idle" /\ proc'["stop"].step = "idle" /\ proc'["floor"].step = "idle"
    BY <1>2, IdleType DEF Procs
<1>4. ProcOk' /\ HandOverOk' /\ LadderOk'
    BY <1>3 DEF ProcOk, HandOverOk, LadderOk
<1>5. AsksOk'
    BY <1>2, IdleType DEF Crash, AsksOk
<1> QED
    BY <1>1, <1>2, <1>3, <1>4, <1>5, PartiesAlone, FaultType DEF Crash, Inv, Types

----------------------------------------------------------------------------
(* Steps that change the plan's row *)

(* What is still to do is told by the action a plan is at.                 *)
LEMMA StageNow ==
    ASSUME Types, Decision(plan.pend, plan.phase)
    PROVE  /\ plan.pend # NoPend /\ Pending
           /\ NextOf(plan.pend) \in {"cancel", "market", "handover", "ladder", "commit"}
           /\ plan.pend.next \in {"ladder", "armed", "waiting", "riding"}
           /\ plan.pend.next \in {"ladder", "armed"} =>
                  NextOf(plan.pend) \in {"ladder", "commit"} /\ plan.phase = plan.pend.next
           /\ plan.pend.next = "waiting" =>
                  NextOf(plan.pend) \in {"cancel", "commit"} /\ plan.phase \in {"ladder", "riding"}
           /\ plan.pend.next = "riding" =>
                /\ plan.phase \in {"ladder", "armed", "waiting", "riding"}
                /\ plan.phase = "ladder" => NextOf(plan.pend) \in {"cancel", "handover", "ladder", "commit"}
                /\ plan.phase = "waiting" => NextOf(plan.pend) \in {"market", "handover", "ladder", "commit"}
                /\ plan.phase = "riding" => NextOf(plan.pend) \in {"cancel", "ladder", "commit"}
           /\ ToDo("handover") <=>
                /\ plan.pend.next = "riding"
                /\ NextOf(plan.pend) \in {"market", "handover"}
                   \/ (NextOf(plan.pend) = "cancel" /\ plan.phase \in {"ladder", "armed"})
           /\ ToDo("market") <=>
                /\ plan.pend.next = "riding"
                /\ NextOf(plan.pend) = "market" \/ (NextOf(plan.pend) = "cancel" /\ plan.phase = "armed")
<1>1. plan.pend \in Pends /\ plan.phase \in Phases
    BY TickTypes
<1>2. \A act : ToDo(act) <=> ToGo(plan.pend, act)
    BY DEF ToDo, ToGo
<1> QED
    BY <1>1, <1>2, DecisionStage DEF Pending

LEMMA StageNext ==
    ASSUME plan' \in Rows, Decision(plan'.pend, plan'.phase)
    PROVE  /\ plan'.pend # NoPend /\ Pending'
           /\ NextOf(plan'.pend) \in {"cancel", "market", "handover", "ladder", "commit"}
           /\ plan'.pend.next \in {"ladder", "armed", "waiting", "riding"}
           /\ plan'.pend.next \in {"ladder", "armed"} =>
                  NextOf(plan'.pend) \in {"ladder", "commit"} /\ plan'.phase = plan'.pend.next
           /\ plan'.pend.next = "waiting" =>
                  NextOf(plan'.pend) \in {"cancel", "commit"} /\ plan'.phase \in {"ladder", "riding"}
           /\ plan'.pend.next = "riding" =>
                /\ plan'.phase \in {"ladder", "armed", "waiting", "riding"}
                /\ plan'.phase = "ladder" => NextOf(plan'.pend) \in {"cancel", "handover", "ladder", "commit"}
                /\ plan'.phase = "waiting" => NextOf(plan'.pend) \in {"market", "handover", "ladder", "commit"}
                /\ plan'.phase = "riding" => NextOf(plan'.pend) \in {"cancel", "ladder", "commit"}
           /\ ToDo("handover")' <=>
                /\ plan'.pend.next = "riding"
                /\ NextOf(plan'.pend) \in {"market", "handover"}
                   \/ (NextOf(plan'.pend) = "cancel" /\ plan'.phase \in {"ladder", "armed"})
           /\ ToDo("market")' <=>
                /\ plan'.pend.next = "riding"
                /\ NextOf(plan'.pend) = "market" \/ (NextOf(plan'.pend) = "cancel" /\ plan'.phase = "armed")
<1>1. plan'.pend \in Pends /\ plan'.phase \in Phases
    BY DEF Rows
<1>2. \A act : ToDo(act)' <=> ToGo(plan'.pend, act)
    BY DEF ToDo, ToGo
<1> QED
    BY <1>1, <1>2, DecisionStage DEF Pending

LEMMA NothingToGo ==
    ASSUME ~Pending
    PROVE  ~ToDo("handover") /\ ~ToDo("market")
<1>1. plan.pend.acts = NoActs /\ NoActs = << >>
    BY NoPendType, ActsShape DEF Pending
<1> QED
    BY <1>1 DEF ToDo

(* An action done: the row and the tick go on to the next one.             *)
LEMMA ActionDoneParts ==
    ASSUME Inv, proc["tick"].step \in {"run", "cancel", "market", "refused", "handover", "handed", "ladder"},
           Mem # NoPend, Act # "commit", NEW row \in Rows, row.phase = plan.phase, row.seq = plan.seq,
           row.ended = plan.ended, row.settle = plan.settle, row.stop = plan.stop, ActionDone(row)
    PROVE  /\ plan' \in Rows /\ plan'.phase = plan.phase /\ plan'.seq = plan.seq /\ plan'.ended = plan.ended
           /\ plan'.settle = plan.settle /\ plan'.stop = plan.stop
           /\ plan'.entry = row.entry /\ plan'.ride = row.ride
           /\ plan'.pend.next = plan.pend.next
           /\ Pending' /\ Stopped' = Stopped /\ ~Stopped
           /\ Decision(plan'.pend, plan'.phase)
           /\ NextOf(plan.pend) = "ladder" => NextOf(plan'.pend) = "commit"
           /\ NextOf(plan.pend) = "handover" => NextOf(plan'.pend) = "ladder" /\ plan.pend.next = "riding"
           /\ NextOf(plan.pend) = "market" => NextOf(plan'.pend) = "handover" /\ plan.pend.next = "riding"
           /\ NextOf(plan.pend) = "cancel" =>
                NextOf(plan'.pend) = IF plan.pend.next = "waiting" THEN "commit"
                                     ELSE IF plan.phase = "ladder" THEN "handover"
                                     ELSE IF plan.phase = "armed" THEN "market" ELSE "ladder"
           /\ NextOf(plan.pend) = "cancel" => plan.pend.next \in {"waiting", "riding"} /\ plan.phase # "waiting"
           /\ proc' \in [Procs -> Parties] /\ proc'["tick"].step = "run" /\ proc'["tick"].todo = {}
           /\ proc'["stop"] = proc["stop"] /\ proc'["floor"] = proc["floor"]
           /\ ProcOk' /\ HandOverOk' /\ LadderOk'
<1> DEFINE q == Further(plan.pend)
           r == [Idle EXCEPT !.step = "run", !.pend = q]
<1>1. plan.pend \in Pends /\ plan.phase \in Phases /\ Progress = q
    BY TickTypes, TickMem DEF Inv, Progress, Further
<1>2. Decision(plan.pend, plan.phase) /\ NextOf(plan.pend) # "commit"
    BY TickMem
<1>3. /\ q \in Pends /\ Decision(q, plan.phase) /\ q.next = plan.pend.next
      /\ NextOf(plan.pend) = "ladder" => NextOf(q) = "commit"
      /\ NextOf(plan.pend) = "handover" => NextOf(q) = "ladder" /\ plan.pend.next = "riding"
      /\ NextOf(plan.pend) = "market" => NextOf(q) = "handover" /\ plan.pend.next = "riding"
      /\ NextOf(plan.pend) = "cancel" =>
                NextOf(q) = IF plan.pend.next = "waiting" THEN "commit"
                            ELSE IF plan.phase = "ladder" THEN "handover"
                            ELSE IF plan.phase = "armed" THEN "market" ELSE "ladder"
      /\ NextOf(plan.pend) = "cancel" => plan.pend.next \in {"waiting", "riding"} /\ plan.phase # "waiting"
    BY <1>1, <1>2, DecisionStep
<1>4. q # NoPend
    BY <1>1, <1>3, DecisionStage
<1>5. plan' = [row EXCEPT !.pend = q] /\ Becomes("tick", r)
    BY <1>1 DEF ActionDone
<1> HIDE DEF q
<1>6. r \in Parties /\ r.step = "run" /\ r.todo = {} /\ r.pend = q
    BY <1>3, IdleType DEF Parties, Steps
<1> HIDE DEF r
<1>7. /\ plan' \in Rows /\ plan'.phase = plan.phase /\ plan'.seq = plan.seq /\ plan'.ended = plan.ended
      /\ plan'.settle = plan.settle /\ plan'.stop = plan.stop
      /\ plan'.entry = row.entry /\ plan'.ride = row.ride /\ plan'.pend = q
    BY <1>3, <1>5 DEF Rows
<1>8. ~Stopped /\ Stopped' = Stopped /\ Pending'
    BY <1>4, <1>7, TickMem DEF Stopped, Pending
<1>9. /\ proc' \in [Procs -> Parties] /\ proc'["tick"] = r
      /\ proc'["stop"] = proc["stop"] /\ proc'["floor"] = proc["floor"]
    BY <1>5, <1>6, PartyStep DEF Inv, Types, Procs
<1>10. ProcOk'
    BY <1>6, <1>7, <1>8, <1>9 DEF Inv, ProcOk
<1>11. HandOverOk' /\ LadderOk'
    BY <1>6, <1>9 DEF HandOverOk, LadderOk
<1> QED
    BY <1>3, <1>6, <1>7, <1>8, <1>9, <1>10, <1>11

LEMMA GuardKept ==
    ASSUME GuardOk, UNCHANGED <<ride, parent, guard, net, base>>, plan'.settle = plan.settle, plan'.stop = plan.stop
    PROVE  GuardOk'
BY DEF GuardOk, Guarded, Ridden

LEMMA LedgerKept ==
    ASSUME LedgerOk, UNCHANGED <<track, fill, ride, parent, net, base>>, Due' = Due, Stopped => Stopped'
    PROVE  LedgerOk'
<1>1. Unswept' = Unswept
    BY SumsAre
<1>2. Ridden' = Ridden
    BY DEF Ridden
<1> QED
    BY <1>1, <1>2 DEF LedgerOk, Free

(* The entry of a breakout is on record.                                   *)
LEMMA EntryDone ==
    ASSUME Inv, proc["tick"].step \in {"run", "market"}, Mem # NoPend, Act = "market",
           plan.seq \in bought.venue, ActionDone([plan EXCEPT !.entry = 1]),
           UNCHANGED <<rungs, venue, sweep, faults>>
    PROVE  Inv'
<1> DEFINE row == [plan EXCEPT !.entry = 1]
<1>1. /\ row \in Rows /\ row.phase = plan.phase /\ row.seq = plan.seq /\ row.ended = plan.ended
      /\ row.settle = plan.settle /\ row.stop = plan.stop /\ row.entry = 1 /\ row.ride = plan.ride
    BY DEF Inv, Types, Rows
<1> HIDE DEF row
<1>2. /\ plan' \in Rows /\ plan'.phase = plan.phase /\ plan'.seq = plan.seq /\ plan'.ended = plan.ended
      /\ plan'.settle = plan.settle /\ plan'.stop = plan.stop
      /\ plan'.entry = 1 /\ plan'.ride = plan.ride
      /\ plan'.pend.next = plan.pend.next
      /\ Pending' /\ Stopped' = Stopped /\ ~Stopped
      /\ Decision(plan'.pend, plan'.phase)
      /\ NextOf(plan.pend) = "market" => NextOf(plan'.pend) = "handover" /\ plan.pend.next = "riding"
      /\ proc' \in [Procs -> Parties] /\ proc'["tick"].step = "run" /\ proc'["tick"].todo = {}
      /\ proc'["stop"] = proc["stop"] /\ proc'["floor"] = proc["floor"]
      /\ ProcOk' /\ HandOverOk' /\ LadderOk'
    BY <1>1, ActionDoneParts DEF row
<1>3. NextOf(plan.pend) = "market" /\ Decision(plan.pend, plan.phase) /\ Pending
    BY TickMem
<1>4. NextOf(plan'.pend) = "handover" /\ plan.pend.next = "riding" /\ plan'.pend.next = "riding"
    BY <1>2, <1>3
<1>5. plan.phase \in {"armed", "waiting"} /\ ToDo("handover")
    BY <1>3, <1>4, StageNow DEF Inv
<1>6. ToDo("handover")'
    BY <1>2, <1>4, StageNext
<1>7. ~HandedTo /\ ~HandedTo' /\ Bought'
    BY <1>2, <1>3, <1>4, <1>5 DEF HandedTo, Bought
<1>8. ~plan.ride /\ ride.st # "open"
    BY <1>3, <1>5, <1>7, TickMem DEF Inv, PlanOk, RideOk, At, Stopped
<1>9. UNCHANGED <<slip, track, ord, fill, bought, ride, parent, guard, net, base, sweep, faults>>
    BY DEF rungs, venue
<1>10. Types'
    BY <1>2, <1>9 DEF Inv, Types
<1>11. PlanOk'
    BY <1>2, <1>3, <1>5, <1>7, <1>8 DEF Inv, PlanOk, Stopped
<1>12. RideOk'
    BY <1>8, <1>9 DEF RideOk
<1>13. EntryOk'
    BY <1>2, <1>5, <1>7, <1>9 DEF Inv, EntryOk
<1>14. RungsOk'
    BY <1>2, <1>3, <1>9 DEF Inv, RungsOk, RungOk, Tracked, Owned, At
<1>15. OpenOk'
    BY <1>2, <1>3, <1>5, <1>9 DEF Inv, OpenOk, Cleared, At
<1>16. AsksOk'
    BY <1>2, <1>9 DEF Inv, AsksOk, AskOk, Tracked, Procs
<1>17. Due' = Due
    BY <1>2, <1>5, <1>6, <1>9, SumsAre DEF Due, Owned, EntryHeld
<1>18. LedgerOk' /\ GuardOk'
    BY <1>2, <1>9, <1>17, LedgerKept, GuardKept DEF Inv
<1> QED
    BY <1>2, <1>10, <1>11, <1>12, <1>13, <1>14, <1>15, <1>16, <1>18 DEF Inv

LEMMA RunMem ==
    ASSUME Inv, proc["tick"].step \in {"run", "cancel", "market", "refused", "handover", "handed", "ladder"}
    PROVE  Mem # NoPend
BY DEF Inv, ProcOk, Pending, Mem

LEMMA MarketSettledStep == ASSUME Inv, MarketSettled PROVE Inv'
<1>1. proc["tick"].step = "market" /\ plan.seq \in bought.venue /\ Mem # NoPend /\ Act = "market"
    BY RunMem, TickMem DEF MarketSettled, Inv, ProcOk
<1> QED
    BY <1>1, EntryDone DEF MarketSettled

(* The entry of a breakout fills: it is to be handed over.                 *)
LEMMA EntryFills ==
    ASSUME Inv, proc["tick"].step = "run", Act = "market",
           bought' \in [venue : SUBSET Seqs, row : SUBSET Seqs, refused : SUBSET Seqs],
           bought'.venue = bought.venue \cup {plan.seq}, bought'.refused \cap (bought'.venue \cup bought'.row) = {},
           net' = IF plan.seq \in bought.venue THEN net ELSE net + 1,
           UNCHANGED <<plan, rungs, ride, parent, guard, base, sweep>>, faults' \in 0..MaxFaults,
           NEW r \in Parties, Becomes("tick", r), r.step \in {"idle", "market"}, r.pend = Mem \/ r.step = "idle", r.todo = {} \/ r.todo = proc["tick"].todo
    PROVE  Inv'
<1>1. UNCHANGED <<plan, slip, track, ord, fill, ride, parent, guard, base, sweep>>
    BY DEF rungs
<1>2. /\ proc' \in [Procs -> Parties] /\ proc'["tick"] = r
      /\ proc'["stop"] = proc["stop"] /\ proc'["floor"] = proc["floor"]
    BY PartyStep DEF Inv, Types, Procs
<1>3. Mem # NoPend /\ NextOf(plan.pend) = "market" /\ Decision(plan.pend, plan.phase) /\ Pending /\ Mem = plan.pend /\ ~Stopped
    BY RunMem, TickMem
<1>4. plan.pend.next = "riding" /\ plan.phase \in {"armed", "waiting"} /\ ToDo("handover")
    BY <1>3, StageNow DEF Inv
<1>5. ~HandedTo /\ ~Bought /\ ~Owned
    BY <1>3, <1>4 DEF HandedTo, Bought, Inv, PlanOk, RideOk, At, Stopped, Owned
<1>6. Types'
    BY <1>1, <1>2 DEF Inv, Types
<1>7. PlanOk' /\ RideOk' /\ EntryOk'
    <2>1. PlanOk'
        BY <1>1 DEF Inv, PlanOk, Pending, Stopped, HandedTo
    <2>2. RideOk'
        BY <1>1 DEF Inv, RideOk, At, Pending
    <2>3. Bought' = Bought /\ Stopped' = Stopped /\ ToDo("handover")' = ToDo("handover")
        BY <1>1 DEF Bought, Pending, Stopped, ToDo
    <2>4. \A s \in bought'.venue : s <= plan'.seq
        BY <1>1, <1>4, Ranges DEF Inv, EntryOk, PlanOk
    <2>5. EntryOk'
        BY <1>1, <1>4, <1>5, <2>3, <2>4 DEF Inv, EntryOk
    <2> QED
        BY <2>1, <2>2, <2>5
<1>8. ProcOk'
    BY <1>1, <1>2, <1>3 DEF Inv, ProcOk, At, Pending, Stopped
<1>9. HandOverOk' /\ LadderOk'
    BY <1>2 DEF HandOverOk, LadderOk
<1>10. RungsOk'
    BY <1>1, RungsFrame DEF Inv
<1>11. OpenOk'
    BY <1>1, <1>2, OpenFrame DEF Inv
<1>12. AsksOk'
    BY <1>1, <1>2 DEF Inv, AsksOk, AskOk, Tracked, Procs
<1>13. LedgerOk'
    <2>1. Unswept' = Unswept /\ Ridden' = Ridden /\ Stopped' = Stopped
        BY <1>1, SumsAre DEF Ridden, Stopped
    <2>2. Unswept \in Int /\ Ridden \in Nat /\ Sum(fill) \in Nat
        BY SumsNat DEF Inv
    <2>3. Owned' = Owned /\ EntryHeld' = 1
        BY <1>1, <1>3, <1>4 DEF Owned, EntryHeld, Stopped, ToDo
    <2>4. Due' = 1 + (IF plan.ended THEN 0 ELSE Sum(fill))
        BY <1>1, <1>5, <2>3 DEF Due
    <2>5. Due = (IF plan.seq \in bought.venue THEN 1 ELSE 0) + IF plan.ended THEN 0 ELSE Sum(fill)
        BY <1>3, <1>4, <1>5 DEF Due, EntryHeld
    <2>6. net \in Nat /\ base \in Nat
        BY DEF Inv, Types
    <2> QED
        BY <1>1, <2>1, <2>2, <2>4, <2>5, <2>6 DEF Inv, LedgerOk, Free
<1>14. GuardOk'
    BY <1>1, <1>3 DEF Inv, GuardOk, PlanOk, Stopped
<1> QED
    BY <1>6, <1>7, <1>8, <1>9, <1>10, <1>11, <1>12, <1>13, <1>14 DEF Inv

LEMMA MarketEntryStep == ASSUME Inv, MarketEntry PROVE Inv'
<1> DEFINE r == [proc["tick"] EXCEPT !.step = "market"]
<1>1. proc["tick"].step = "run" /\ Act = "market" /\ Mem # NoPend
    BY RunMem DEF MarketEntry, AtEntry
<1>2. r \in Parties /\ r.step = "market" /\ r.todo = proc["tick"].todo /\ r.pend = Mem
    BY TickTypes DEF Inv, Parties, Steps, Mem
<1>3. Becomes("tick", r)
    BY DEF MarketEntry
<1> HIDE DEF r
<1>4. plan.seq \in Seqs
    BY <1>1, RunMem, TickMem, StageNow DEF Inv, PlanOk
<1>5. /\ bought' \in [venue : SUBSET Seqs, row : SUBSET Seqs, refused : SUBSET Seqs]
      /\ bought'.venue = bought.venue \cup {plan.seq}
      /\ bought'.refused \cap (bought'.venue \cup bought'.row) = {}
    BY <1>4 DEF MarketEntry, Recorded, Inv, Types, EntryOk
<1> QED
    BY <1>1, <1>2, <1>3, <1>5, EntryFills DEF MarketEntry, Inv, Types

(* An entry on record that filled is bought; one that was refused throws.  *)
LEMMA EntryOnRecordStep == ASSUME Inv, EntryOnRecord, ways' = {} PROVE Inv'
<1>1. proc["tick"].step = "run" /\ Act = "market" /\ Mem # NoPend
    BY RunMem DEF EntryOnRecord, AtEntry
<1>2. CASE plan.seq \in bought.refused
    BY <1>2, TickIdle, FaultType DEF EntryOnRecord, Inv
<1>3. CASE plan.seq \notin bought.refused
    <2>1. plan.seq \in bought.venue
        BY <1>3 DEF EntryOnRecord, Recorded, Way
    <2> QED
        BY <1>1, <1>3, <2>1, EntryDone DEF EntryOnRecord
<1> QED
    BY <1>2, <1>3

(* Entries that did not fill go on record, and nothing else changes.       *)
LEMMA EntryNoted ==
    ASSUME Inv, UNCHANGED <<plan, rungs, ride, parent, guard, net, base, sweep, faults>>,
           bought' \in [venue : SUBSET Seqs, row : SUBSET Seqs, refused : SUBSET Seqs],
           bought'.venue = bought.venue, bought'.refused \cap (bought'.venue \cup bought'.row) = {},
           NEW r \in Parties, proc' = [proc EXCEPT !["tick"] = r],
           r = proc["tick"] \/ r.step = "idle" \/ (r.step = "refused" /\ proc["tick"].step = "run" /\ Act = "market"
                                                   /\ plan.seq \notin bought.venue),
           r = Idle \/ (r.pend = Mem /\ r.todo = proc["tick"].todo)
    PROVE  Inv'
<1>1. UNCHANGED <<plan, slip, track, ord, fill, ride, parent, guard, net, base, sweep, faults>>
    BY DEF rungs
<1>2. /\ proc' \in [Procs -> Parties] /\ proc'["tick"] = r
      /\ proc'["stop"] = proc["stop"] /\ proc'["floor"] = proc["floor"]
    BY PartyStep DEF Becomes, Inv, Types, Procs
<1>3. Types'
    BY <1>1, <1>2 DEF Inv, Types
<1>4. PlanOk' /\ RideOk'
    BY <1>1 DEF Inv, PlanOk, RideOk, At, Pending, Stopped, HandedTo
<1>5. EntryOk'
    BY <1>1 DEF Inv, EntryOk, Bought, Pending, Stopped, ToDo
<1>6. r.step = "refused" /\ proc["tick"].step = "run" /\ Act = "market" =>
          Pending /\ At("market") /\ Mem = plan.pend
    BY RunMem, TickMem
<1>7. ProcOk'
    <2>1. Stopped' = Stopped /\ Pending' = Pending /\ (\A act : At(act)' = At(act))
        BY <1>1 DEF At, Pending, Stopped
    <2>2. proc["tick"].step \in {"run", "cancel", "market", "refused", "handover", "handed", "ladder"} =>
              Pending /\ Mem = plan.pend
        BY RunMem, TickMem
    <2>3. CASE r = proc["tick"]
        BY <1>1, <1>2, <2>1, <2>3 DEF Inv, ProcOk
    <2>4. CASE r.step = "idle"
        BY <1>1, <1>2, <2>1, <2>4 DEF Inv, ProcOk
    <2>5. CASE r.step = "refused" /\ proc["tick"].step = "run" /\ Act = "market" /\ plan.seq \notin bought.venue
        <3>1. Pending /\ At("market") /\ r.pend = plan.pend
            BY <1>6, <2>5, IdleType
        <3> QED
            BY <1>1, <1>2, <2>1, <2>5, <3>1 DEF Inv, ProcOk
    <2> QED
        BY <2>3, <2>4, <2>5
<1>8. Own' = Own
    BY <1>1, SumsAre
<1>9. HandOverOk' /\ LadderOk'
    BY <1>1, <1>2, <1>8 DEF Inv, HandOverOk, LadderOk
<1>10. RungsOk'
    BY <1>1, RungsFrame DEF Inv
<1>11. OpenOk'
    BY <1>1, <1>2, OpenFrame DEF Inv
<1>12. AsksOk'
    BY <1>1, <1>2, IdleType DEF Inv, AsksOk, AskOk, Tracked, Procs
<1>13. Due' = Due
    <2>1. EntryHeld' = EntryHeld /\ Owned' = Owned
        BY <1>1 DEF EntryHeld, Owned, Stopped, ToDo
    <2> QED
        BY <1>1, <2>1, SumsAre DEF Due
<1>14. LedgerOk' /\ GuardOk'
    BY <1>1, <1>13, LedgerKept, GuardKept DEF Inv, Stopped
<1> QED
    BY <1>3, <1>4, <1>5, <1>7, <1>9, <1>10, <1>11, <1>12, <1>14 DEF Inv

LEMMA EntryUnfilledStep == ASSUME Inv, EntryUnfilled, ways' = {} PROVE Inv'
<1> DEFINE r == [proc["tick"] EXCEPT !.step = "refused"]
<1>1. proc["tick"].step = "run" /\ Act = "market" /\ plan.seq \notin bought.venue
    BY DEF EntryUnfilled, AtEntry
<1>2. r \in Parties /\ r.step = "refused" /\ r.todo = proc["tick"].todo /\ r.pend = Mem
    BY TickTypes DEF Inv, Parties, Steps, Mem
<1>3. proc' = [proc EXCEPT !["tick"] = r]
    BY DEF EntryUnfilled, Becomes
<1> HIDE DEF r
<1>4. plan.seq \in Seqs
    BY <1>1, RunMem, TickMem, StageNow DEF Inv, PlanOk
<1>5. /\ bought' \in [venue : SUBSET Seqs, row : SUBSET Seqs, refused : SUBSET Seqs]
      /\ bought'.venue = bought.venue
      /\ bought'.refused \cap (bought'.venue \cup bought'.row) = {}
    BY <1>4 DEF EntryUnfilled, Recorded, Inv, Types, EntryOk
<1> QED
    BY <1>1, <1>2, <1>3, <1>5, EntryNoted DEF EntryUnfilled

(* An entry that did not fill is resolved as rejected.                     *)
LEMMA Rejected ==
    ASSUME Inv, NEW s \in Seqs \ bought.venue, Rejects(s)
    PROVE  /\ bought' \in [venue : SUBSET Seqs, row : SUBSET Seqs, refused : SUBSET Seqs]
           /\ bought'.venue = bought.venue
           /\ bought'.refused \cap (bought'.venue \cup bought'.row) = {}
BY DEF Rejects, Inv, Types, EntryOk

LEMMA EntryRejectedStep == ASSUME Inv, EntryRejected PROVE Inv'
<1>1. plan.seq \in Seqs \ bought.venue
    BY RunMem, TickMem, StageNow DEF EntryRejected, Inv, PlanOk, ProcOk
<1>2. proc' = [proc EXCEPT !["tick"] = Idle]
    BY DEF EntryRejected, Ends, Becomes
<1> QED
    BY <1>1, <1>2, IdleType, Rejected, EntryNoted DEF EntryRejected

LEMMA EntryResolvedStep == ASSUME Inv, NEW s \in Seqs, EntryResolved(s) PROVE Inv'
<1> DEFINE r == proc["tick"]
<1>1. r \in Parties /\ proc' = [proc EXCEPT !["tick"] = r] /\ r.pend = Mem
    BY DEF EntryResolved, Inv, Types, Procs, Mem
<1> QED
    BY <1>1, Rejected, EntryNoted DEF EntryResolved

LEMMA MarketEntryLostStep == ASSUME Inv, MarketEntryLost PROVE Inv'
<1>0. proc["tick"].step = "run" /\ Act = "market" /\ Mem # NoPend
    BY RunMem DEF MarketEntryLost, AtEntry
<1>1. plan.seq \in Seqs
    BY <1>0, RunMem, TickMem, StageNow DEF Inv, PlanOk
<1>2. /\ bought' \in [venue : SUBSET Seqs, row : SUBSET Seqs, refused : SUBSET Seqs]
      /\ bought'.venue = bought.venue \cup {plan.seq}
      /\ bought'.refused \cap (bought'.venue \cup bought'.row) = {}
    BY <1>1 DEF MarketEntryLost, Recorded, Inv, Types, EntryOk
<1> QED
    BY <1>0, <1>2, EntryFills, IdleType, FaultType DEF MarketEntryLost, Ends, Inv, Types

(* Where no rung is open or unsettled, the plan's own contracts are all    *)
(* its rungs filled, and no fill is without a row.                         *)
LEMMA OwnIsAll ==
    ASSUME Types, \A r \in Rungs : slip[r] = "filled" \/ fill[r] = 0
    PROVE  Own = plan.entry + (IF plan.ended THEN 0 ELSE Sum(fill)) /\ Lost = 0
<1>1. OwnOf(slip, fill) = fill /\ Sum(LostOf(slip, fill)) = 0
    BY SumTypes DEF Types
<1> QED
    BY <1>1, SumsAre

(* Before its hand-over the plan holds what it bought, and no ride.        *)
LEMMA BeforeHandOver ==
    ASSUME Inv, At("handover"), ~Stopped
    PROVE  /\ Decision(plan.pend, plan.phase) /\ plan.pend.next = "riding" /\ ToDo("handover")
           /\ plan.phase \in {"ladder", "armed", "waiting"} /\ ~plan.ride
           /\ \A r \in Rungs : slip[r] # "open" /\ (slip[r] = "filled" \/ fill[r] = 0)
           /\ Own = EntryHeld + (IF plan.ended THEN 0 ELSE Sum(fill)) /\ Lost = 0
           /\ plan.settle = "none" /\ plan.stop = "none" /\ guard.st = "none"
<1>1. Pending /\ NextOf(plan.pend) = "handover" /\ Decision(plan.pend, plan.phase)
    BY DEF Inv, PlanOk, At
<1>2. plan.pend.next = "riding" /\ ToDo("handover") /\ plan.phase \in {"ladder", "armed", "waiting"}
    BY <1>1, StageNow, TickTypes DEF Inv, Phases, Stopped
<1>3. ~plan.ride
    BY <1>1, <1>2 DEF Inv, PlanOk, HandedTo, Stopped
<1>4. plan.settle = "none" /\ plan.stop = "none" /\ guard.st = "none"
    BY <1>2 DEF Inv, PlanOk, GuardOk, Types, Rows
<1>5. \A r \in Rungs : slip[r] # "open"
    BY <1>1 DEF Inv, OpenOk, Cleared, At
<1>6. ASSUME NEW r \in Rungs
      PROVE  slip[r] = "filled" \/ fill[r] = 0
    <2>1. slip[r] \in {"none", "filled", "cancelled"} /\ fill[r] \in Nat
        BY <1>5 DEF Inv, Types, Slips
    <2>2. RungOk(r)
        BY DEF Inv, RungsOk
    <2> QED
        BY <1>1, <1>4, <2>1, <2>2 DEF RungOk, At
<1>7. Own = plan.entry + (IF plan.ended THEN 0 ELSE Sum(fill)) /\ Lost = 0
    BY <1>6, OwnIsAll DEF Inv
<1>8. plan.entry = EntryHeld
    <2>1. Bought <=> plan.phase \in {"armed", "waiting"}
        BY <1>1, <1>2 DEF Bought
    <2>2. Bought <=> plan.seq \in bought.venue
        BY <1>2, <2>1 DEF Inv, EntryOk
    <2> QED
        BY <1>2, <2>1, <2>2 DEF Inv, EntryOk, EntryHeld, Types, Rows
<1> QED
    BY <1>1, <1>2, <1>3, <1>4, <1>5, <1>6, <1>7, <1>8

(* The hand-over is on record.                                             *)
LEMMA RideKnown ==
    ASSUME Inv, proc["tick"].step \in {"run", "handed"}, Act = "handover", ride.st = "open",
           ActionDone([plan EXCEPT !.ride = TRUE]),
           UNCHANGED <<rungs, venue, sweep, faults>>
    PROVE  Inv'
<1> DEFINE row == [plan EXCEPT !.ride = TRUE]
<1>1. /\ row \in Rows /\ row.phase = plan.phase /\ row.seq = plan.seq /\ row.ended = plan.ended
      /\ row.settle = plan.settle /\ row.stop = plan.stop /\ row.entry = plan.entry /\ row.ride = TRUE
    BY DEF Inv, Types, Rows
<1> HIDE DEF row
<1>2. /\ plan' \in Rows /\ plan'.phase = plan.phase /\ plan'.seq = plan.seq /\ plan'.ended = plan.ended
      /\ plan'.settle = plan.settle /\ plan'.stop = plan.stop
      /\ plan'.entry = plan.entry /\ plan'.ride = TRUE
      /\ plan'.pend.next = plan.pend.next
      /\ Pending' /\ Stopped' = Stopped /\ ~Stopped
      /\ Decision(plan'.pend, plan'.phase)
      /\ NextOf(plan.pend) = "handover" => NextOf(plan'.pend) = "ladder" /\ plan.pend.next = "riding"
      /\ proc' \in [Procs -> Parties] /\ proc'["tick"].step = "run" /\ proc'["tick"].todo = {}
      /\ proc'["stop"] = proc["stop"] /\ proc'["floor"] = proc["floor"]
      /\ ProcOk' /\ HandOverOk' /\ LadderOk'
    BY <1>1, RunMem, ActionDoneParts DEF row
<1>3. NextOf(plan.pend) = "handover" /\ Pending /\ At("handover")
    BY RunMem, TickMem
<1>4. NextOf(plan'.pend) = "ladder" /\ plan.pend.next = "riding" /\ plan'.pend.next = "riding"
    BY <1>2, <1>3
<1>5. /\ plan.phase \in {"ladder", "armed", "waiting"} /\ ~plan.ride /\ Lost = 0
      /\ \A r \in Rungs : slip[r] # "open"
    BY <1>2, <1>3, BeforeHandOver
<1>6. ~ToDo("handover")'
    BY <1>2, <1>4, StageNext
<1>7. HandedTo' /\ (Bought' <=> Bought)
    BY <1>2, <1>3, <1>4 DEF HandedTo, Bought
<1>9. UNCHANGED <<slip, track, ord, fill, bought, ride, parent, guard, net, base, sweep, faults>>
    BY DEF rungs, venue
<1>10. Types'
    BY <1>2, <1>9 DEF Inv, Types
<1>11. PlanOk'
    BY <1>2, <1>3, <1>5, <1>7 DEF Inv, PlanOk, Stopped
<1>12. RideOk'
    BY <1>2, <1>5 DEF RideOk
<1>13. EntryOk'
    BY <1>2, <1>6, <1>7, <1>9 DEF Inv, EntryOk
<1>14. RungsOk'
    BY <1>2, <1>3, <1>5, <1>9 DEF Inv, RungsOk, RungOk, Tracked, Owned, At
<1>15. OpenOk'
    BY <1>2, <1>5, <1>9 DEF OpenOk
<1>16. AsksOk'
    BY <1>2, <1>9 DEF Inv, AsksOk, AskOk, Tracked, Procs
<1>17. Due' = Due
    BY <1>2, <1>9, SumsAre DEF Due, Owned
<1>18. LedgerOk' /\ GuardOk'
    BY <1>2, <1>9, <1>17, LedgerKept, GuardKept DEF Inv
<1> QED
    BY <1>2, <1>10, <1>11, <1>12, <1>13, <1>14, <1>15, <1>16, <1>18 DEF Inv

LEMMA HandOverStep == ASSUME Inv, HandOver PROVE Inv'
<1>1. CASE parent = 0 /\ ride.st = "open"
    BY <1>1, RideKnown DEF HandOver
<1> QED
    BY <1>1, HandOverReads

LEMMA RideRecordedStep == ASSUME Inv, RideRecorded PROVE Inv'
<1>1. ride.st = "open" /\ Act = "handover"
    BY RunMem, TickMem DEF Inv, HandOverOk, ProcOk, RideRecorded
<1> QED
    BY <1>1, RideKnown DEF RideRecorded

LEMMA HandedOverStep == ASSUME Inv, HandedOver, ways' = {} PROVE Inv'
<1> DEFINE n == proc["tick"].n
           r == [proc["tick"] EXCEPT !.step = "handed"]
<1>1. At("handover") /\ ~Stopped /\ Mem = plan.pend /\ Mem # NoPend
    BY RunMem, TickMem DEF HandedOver, Inv, ProcOk
<1>2. n \in Nat /\ n <= net - parent /\ net \in Nat /\ base \in Nat /\ parent \in Nat
    <2>1. ~(n > net - parent)
        BY DEF HandedOver, Way
    <2> QED
        BY <2>1, TickTypes DEF Inv, Parties, Types
<1>3. r \in Parties /\ r.step = "handed" /\ r.todo = proc["tick"].todo /\ r.pend = Mem /\ Becomes("tick", r)
    BY TickTypes DEF Inv, Parties, Steps, Mem, HandedOver
<1> HIDE DEF r
<1>4. \A x \in r.todo : AskOk(x)
    BY <1>3 DEF Inv, AsksOk, Procs
<1>5. CASE ride.st = "open"
    <2>1. n = Own
        BY <1>5 DEF Inv, HandOverOk, HandedOver
    <2>2. UNCHANGED <<plan, rungs, venue, sweep, faults>>
        BY <1>5, <2>1 DEF HandedOver, venue
    <2>3. TickOk(r)
        BY <1>1, <1>3, <1>4, <1>5 DEF TickOk, At
    <2> QED
        BY <1>3, <2>2, <2>3, TickAlone DEF Inv, Types
<1>6. CASE ride.st # "open"
    <2> HIDE DEF n
    <2>1. /\ ride' = [st |-> "open", qty |-> n] /\ base' = (IF n = Own THEN base ELSE 0)
          /\ UNCHANGED <<plan, slip, track, ord, fill, bought, parent, guard, net, sweep, faults>>
        BY <1>6 DEF HandedOver, rungs, n
    <2>2. n = Own \/ (parent = 0 /\ n = net)
        BY <1>6 DEF Inv, HandOverOk, HandedOver, n
    <2>3. /\ plan.phase \in {"ladder", "armed", "waiting"} /\ ~plan.ride /\ Lost = 0
          /\ \A o \in Rungs : slip[o] # "open"
          /\ Own = EntryHeld + (IF plan.ended THEN 0 ELSE Sum(fill))
          /\ plan.settle = "none" /\ plan.stop = "none" /\ guard.st = "none"
        BY <1>1, BeforeHandOver
    <2>4. /\ proc' \in [Procs -> Parties] /\ proc'["tick"] = r
          /\ proc'["stop"] = proc["stop"] /\ proc'["floor"] = proc["floor"]
        BY <1>3, PartyStep DEF Inv, Types, Procs
    <2>5. Types'
        BY <1>2, <2>1, <2>4 DEF Inv, Types
    <2>6. PlanOk' /\ EntryOk'
        <3>1. PlanOk'
            BY <2>1 DEF Inv, PlanOk, Pending, Stopped, HandedTo
        <3>2. EntryOk'
            BY <2>1 DEF Inv, EntryOk, Bought, Stopped, Pending, ToDo
        <3> QED
            BY <3>1, <3>2
    <2>7. RideOk'
        BY <1>1, <2>1, <2>3 DEF RideOk, At, Pending
    <2>8. ProcOk'
        BY <1>1, <1>3, <2>1, <2>4 DEF Inv, ProcOk, At, Pending, Stopped
    <2>9. HandOverOk' /\ LadderOk'
        BY <1>3, <2>1, <2>4 DEF HandOverOk, LadderOk
    <2>10. RungsOk'
        BY <2>1, <2>3 DEF Inv, RungsOk, RungOk, Tracked, At, Pending
    <2>11. OpenOk'
        BY <1>3, <2>1, <2>4, OpenFrame DEF Inv
    <2>12. AsksOk'
        BY <1>4, <2>1, <2>4 DEF Inv, AsksOk, AskOk, Tracked, Procs
    <2>13. LedgerOk'
        <3>1. Unswept = 0 /\ Ridden = parent /\ ~Owned
            BY <1>2, <1>6, <2>3 DEF Inv, LedgerOk, Ridden, Owned
        <3>2. Unswept' = 0 /\ Ridden' = parent + n /\ Due' = 0
            BY <2>1, <2>3, <3>1, SumsAre DEF Ridden, Owned, Due
        <3>3. Due = Own
            BY <2>3, <3>1 DEF Due
        <3>4. Free = net - parent - base /\ Free' = net - parent - n - base'
            BY <1>2, <2>1, <3>1, <3>2 DEF Free
        <3>5. Own \in Nat
            BY SumsNat DEF Inv
        <3>6. CASE n = Own
            BY <1>1, <1>2, <2>1, <3>2, <3>3, <3>4, <3>5, <3>6 DEF Inv, LedgerOk
        <3>7. CASE n # Own
            BY <1>2, <2>1, <2>2, <3>2, <3>4, <3>7 DEF LedgerOk
        <3> QED
            BY <3>6, <3>7
    <2>14. GuardOk'
        BY <2>1, <2>3 DEF GuardOk
    <2> QED
        BY <2>5, <2>6, <2>7, <2>8, <2>9, <2>10, <2>11, <2>12, <2>13, <2>14 DEF Inv
<1> QED
    BY <1>5, <1>6

LEMMA LadderPlacedStep == ASSUME Inv, LadderPlaced PROVE Inv'
<1>0. proc["tick"].step = "ladder" /\ Mem # NoPend /\ At("ladder") /\ Act = "ladder"
    BY RunMem, TickMem DEF LadderPlaced, Inv, ProcOk
<1>1. plan \in Rows
    BY DEF Inv, Types
<1>2. /\ plan' \in Rows /\ plan'.phase = plan.phase /\ plan'.seq = plan.seq /\ plan'.ended = plan.ended
      /\ plan'.settle = plan.settle /\ plan'.stop = plan.stop
      /\ plan'.entry = plan.entry /\ plan'.ride = plan.ride
      /\ plan'.pend.next = plan.pend.next
      /\ Pending' /\ Stopped' = Stopped /\ ~Stopped
      /\ Decision(plan'.pend, plan'.phase)
      /\ NextOf(plan.pend) = "ladder" => NextOf(plan'.pend) = "commit"
      /\ proc' \in [Procs -> Parties] /\ proc'["tick"].step = "run" /\ proc'["tick"].todo = {}
      /\ proc'["stop"] = proc["stop"] /\ proc'["floor"] = proc["floor"]
      /\ ProcOk' /\ HandOverOk' /\ LadderOk'
    BY <1>0, <1>1, ActionDoneParts DEF LadderPlaced
<1>3. NextOf(plan.pend) = "ladder" /\ Pending /\ Decision(plan.pend, plan.phase)
    BY <1>0, TickMem DEF At
<1>4. NextOf(plan'.pend) = "commit" /\ plan.pend.next \in {"ladder", "armed", "riding"}
    BY <1>2, <1>3, StageNow DEF Inv
<1>5. ~ToDo("handover") /\ ~ToDo("handover")'
    BY <1>2, <1>3, <1>4, StageNow, StageNext DEF Inv
<1>6. (HandedTo' <=> HandedTo) /\ (Bought' <=> Bought)
    BY <1>2, <1>3, <1>4 DEF HandedTo, Bought
<1>7. UNCHANGED <<slip, track, ord, fill, bought, ride, parent, guard, net, base, sweep, faults>>
    BY DEF LadderPlaced, rungs, venue
<1>8. ASSUME NEW r \in Rungs, slip[r] = "none"
      PROVE  ord[r] = "none"
    <2>1. r[1] \in Seqs /\ r[2] \in Ladder /\ r = <<r[1], r[2]>>
        BY Ranges
    <2>2. r[2] < proc["tick"].n
        <3>1. proc["tick"].n \notin Ladder /\ proc["tick"].n >= 1 /\ proc["tick"].n \in Nat
            BY <1>0, TickTypes DEF LadderPlaced, Rung, Inv, ProcOk, Parties
        <3> QED
            BY <2>1, <3>1, AccumulateRideAssumption, FS_CardinalityType
    <2>3. r[1] = plan.seq => ord[r] = "none"
        BY <1>0, <1>8, <2>1, <2>2 DEF Inv, LadderOk
    <2> QED
        BY <1>8, <2>3 DEF Inv, RungsOk, RungOk
<1>10. Types'
    BY <1>2, <1>7 DEF Inv, Types
<1>11. PlanOk'
    BY <1>2, <1>3, <1>6 DEF Inv, PlanOk, Stopped
<1>12. RideOk'
    BY <1>2, <1>3, <1>4, <1>7 DEF Inv, RideOk, At
<1>13. EntryOk'
    BY <1>2, <1>5, <1>6, <1>7 DEF Inv, EntryOk
<1>14. RungsOk'
    BY <1>2, <1>7, <1>8 DEF Inv, RungsOk, RungOk, Tracked, Owned
<1>15. OpenOk'
    BY <1>2, <1>4, <1>7 DEF Inv, OpenOk, Cleared, At, Stopped
<1>16. AsksOk'
    BY <1>2, <1>7 DEF Inv, AsksOk, AskOk, Tracked, Procs
<1>17. Due' = Due
    BY <1>2, <1>5, <1>7, SumsAre DEF Due, Owned, EntryHeld
<1>18. LedgerOk' /\ GuardOk'
    BY <1>2, <1>7, <1>17, LedgerKept, GuardKept DEF Inv
<1> QED
    BY <1>2, <1>10, <1>11, <1>12, <1>13, <1>14, <1>15, <1>16, <1>18 DEF Inv

LEMMA CommitStep == ASSUME Inv, Commit PROVE Inv'
<1>0. proc["tick"].step = "run" /\ Mem # NoPend /\ Act = "commit"
    BY DEF Commit
<1>1. /\ Pending /\ NextOf(plan.pend) = "commit" /\ Decision(plan.pend, plan.phase) /\ ~Stopped /\ Mem = plan.pend
      /\ plan.phase \in {"ladder", "armed", "waiting", "riding"}
    BY <1>0, TickMem
<1>2. /\ plan.pend.next \in {"ladder", "armed", "waiting", "riding"}
      /\ plan.pend.next \in {"ladder", "armed"} => plan.phase = plan.pend.next
      /\ plan.pend.next = "waiting" => plan.phase \in {"ladder", "riding"}
      /\ ~ToDo("handover")
    BY <1>1, StageNow DEF Inv
<1> DEFINE leaving == plan.phase = "riding" /\ plan.pend.next # "riding"
<1>3. PICK phase \in IF plan.pend.next = "waiting" THEN {"waiting", "closed"} ELSE {plan.pend.next} :
          plan' = [plan EXCEPT
                !.phase = phase, !.pend = NoPend,
                !.ended = @ \/ leaving,
                !.entry = IF plan.pend.next = "riding" /\ plan.phase # "riding" THEN 0 ELSE @,
                !.ride  = @ /\ ~leaving /\ plan.pend.next # "waiting"]
    BY <1>1 DEF Commit
<1>4. phase \in Phases /\ NoPend \in Pends
    BY <1>2, <1>3, NoPendType DEF Phases
<1>5. /\ plan'.phase = phase /\ plan'.pend = NoPend /\ plan'.seq = plan.seq
      /\ plan'.ended = (plan.ended \/ leaving)
      /\ plan'.entry = IF plan.pend.next = "riding" /\ plan.phase # "riding" THEN 0 ELSE plan.entry
      /\ plan'.ride = (plan.ride /\ ~leaving /\ plan.pend.next # "waiting")
      /\ plan'.settle = plan.settle /\ plan'.stop = plan.stop
    BY <1>3 DEF Inv, Types, Rows
<1>6. plan' \in Rows
    <2>1. (plan.ended \/ leaving) \in BOOLEAN /\ (plan.ride /\ ~leaving /\ plan.pend.next # "waiting") \in BOOLEAN
        BY DEF Inv, Types, Rows
    <2> QED
        BY <1>3, <1>4, <2>1 DEF Inv, Types, Rows
<1>7. ~Pending' /\ (Stopped' <=> phase = "closed") /\ ~HandedTo' /\ ~Bought' /\ \A act : ~At(act)'
    BY <1>2, <1>3, <1>5 DEF Pending, Stopped, HandedTo, Bought, At
<1>8. ~ToDo("handover")'
    <2>1. plan'.pend.acts = << >>
        BY <1>5, NoPendType, ActsShape
    <2> QED
        BY <2>1 DEF ToDo
<1>9. UNCHANGED <<slip, track, ord, fill, bought, ride, parent, guard, net, base, sweep, faults>>
    BY DEF Commit, rungs, venue
<1>10. /\ proc' \in [Procs -> Parties] /\ proc'["tick"] = Idle
       /\ proc'["stop"] = proc["stop"] /\ proc'["floor"] = proc["floor"]
    BY IdleType, PartyStep DEF Commit, Ends, Inv, Types, Procs
<1>11. /\ plan.settle = "none" /\ (plan.pend.next = "riding" => plan.ride)
       /\ plan.pend.next # "riding" /\ plan.phase # "riding" => ~plan.ride
       /\ plan.phase = "riding" => plan.ride
    BY <1>1 DEF Inv, PlanOk, HandedTo, Stopped, Types, Rows
<1>12. /\ ~plan'.ride => ride.st # "open"
       /\ plan.pend.next # "riding" => ride.st # "open"
    BY <1>1, <1>2, <1>5, <1>11 DEF Inv, RideOk, At
<1>13. plan'.entry = 0
    <2>1. Bought <=> plan.phase \in {"armed", "waiting"} /\ plan.pend.next = "riding"
        BY <1>1 DEF Bought
    <2> QED
        BY <1>1, <1>5, <2>1 DEF Inv, EntryOk, Types, Rows
<1>14. /\ \A r \in Rungs : slip[r] = "none" => ord[r] = "none" /\ fill[r] = 0
       /\ plan.pend.next = "waiting" => \A r \in Rungs : slip[r] # "open"
    BY <1>1 DEF Inv, RungsOk, RungOk, OpenOk, Cleared, At
<1>15. Types'
    BY <1>6, <1>9, <1>10 DEF Inv, Types
<1>16. PlanOk'
    <2>1. PlanOk /\ plan.ride \in BOOLEAN /\ plan.ended \in BOOLEAN /\ plan'.ride \in BOOLEAN /\ plan'.ended \in BOOLEAN
        BY <1>6 DEF Inv, Types, Rows
    <2>2. plan'.phase = "riding" => plan'.ride
        BY <1>2, <1>3, <1>5, <1>11, <2>1
    <2>3. plan'.ride => Stopped' \/ plan'.phase = "riding"
        BY <1>2, <1>3, <1>5, <1>7, <1>11, <2>1
    <2>4. plan'.phase = "closed" => ~plan'.ride
        BY <1>2, <1>3, <1>5, <2>1
    <2>5. plan'.ended => plan'.phase \in {"waiting", "riding", "stopped", "closed"}
        <3>1. plan.ended => plan.phase \in {"waiting", "riding"}
            BY <1>1, <2>1 DEF PlanOk
        <3>2. leaving => phase \in {"waiting", "closed"}
            BY <1>2, <1>3
        <3> QED
            BY <1>2, <1>3, <1>5, <2>1, <3>1, <3>2
    <2>6. plan'.settle = "none" /\ plan'.stop = "none"
        BY <1>5, <1>11, <2>1 DEF PlanOk, Types, Rows, Inv
    <2> QED
        BY <1>7, <2>2, <2>3, <2>4, <2>5, <2>6 DEF PlanOk
<1>17. RideOk'
    BY <1>7, <1>9, <1>12 DEF RideOk
<1>18. EntryOk'
    BY <1>5, <1>7, <1>8, <1>9, <1>13 DEF Inv, EntryOk
<1>19. ProcOk'
    BY <1>1, <1>3, <1>2, <1>5, <1>10, IdleType DEF Inv, ProcOk
<1>20. HandOverOk' /\ LadderOk'
    BY <1>10, IdleType DEF HandOverOk, LadderOk
<1>21. RungsOk'
    <2> SUFFICES ASSUME NEW r \in Rungs PROVE RungOk(r)'
        BY DEF RungsOk
    <2>1. RungOk(r) /\ Tracked(r)' = Tracked(r)
        BY <1>9 DEF Inv, RungsOk, Tracked
    <2>2. /\ plan.ride \in BOOLEAN /\ plan.ended \in BOOLEAN
          /\ plan.pend.next = "waiting" => slip[r] # "open"
          /\ slip[r] = "none" => ord[r] = "none"
        BY <1>14 DEF Inv, Types, Rows
    <2>3. track[r].on = "ride" => plan'.ride /\ slip[r] = "open"
        BY <1>2, <1>5, <2>1, <2>2 DEF RungOk
    <2>4. track[r].on = "marker" /\ slip[r] = "open" => ~Owned' /\ ~plan'.ended
        BY <1>2, <1>5, <1>9, <1>11, <2>1, <2>2 DEF RungOk, Owned
    <2> QED
        BY <1>5, <1>9, <2>1, <2>2, <2>3, <2>4 DEF RungOk
<1>22. OpenOk'
    BY <1>2, <1>3, <1>5, <1>7, <1>9, <1>10, <1>11, <1>14, IdleType DEF Inv, GuardOk, OpenOk, Cleared
<1>23. AsksOk'
    BY <1>9, <1>10, IdleType DEF Inv, AsksOk, AskOk, Tracked, Procs
<1>24. Due' = Due
    <2>1. Lost = 0 /\ Lost' = 0
        BY <1>9, <1>14, SumTypes, SumsAre DEF Inv, Types
    <2>2. EntryHeld = 0 /\ EntryHeld' = 0
        BY <1>1, <1>2, <1>8, <1>13 DEF EntryHeld
    <2>3. plan.ended \in BOOLEAN /\ plan'.ended \in BOOLEAN /\ plan.ride \in BOOLEAN
        BY <1>6 DEF Inv, Types, Rows
    <2>4. CASE plan.pend.next = "riding"
        <3>1. Owned /\ Owned'
            BY <1>5, <1>11, <2>3, <2>4 DEF Owned
        <3> QED
            BY <2>1, <3>1 DEF Due
    <2>5. CASE plan.pend.next # "riding" /\ plan.phase = "riding"
        <3>1. Owned /\ ~Owned' /\ plan'.ended
            BY <1>5, <1>9, <1>11, <1>12, <2>3, <2>5 DEF Owned
        <3> QED
            BY <2>1, <2>2, <3>1 DEF Due
    <2>6. CASE plan.pend.next # "riding" /\ plan.phase # "riding"
        <3>1. ~Owned /\ ~Owned' /\ plan'.ended = plan.ended
            BY <1>5, <1>9, <1>11, <1>12, <2>3, <2>6 DEF Owned
        <3> QED
            BY <1>9, <2>2, <3>1 DEF Due
    <2> QED
        BY <2>4, <2>5, <2>6
<1>25. LedgerOk' /\ GuardOk'
    BY <1>1, <1>5, <1>9, <1>24, LedgerKept, GuardKept DEF Inv
<1> QED
    BY <1>15, <1>16, <1>17, <1>18, <1>19, <1>20, <1>21, <1>22, <1>23, <1>25 DEF Inv

----------------------------------------------------------------------------
(* Rungs are settled by what the venue says, decisions begin and stop *)

\* What the venue says of a rung whose row is gone.
Answered(r) ==
    /\ ~Tracked(r) /\ slip[r] \in {"open", "cancelled"} /\ ord[r] \in {"filled", "cancelled"}
    /\ (slip'[r] = "filled" /\ fill[r] > 0) \/ (slip'[r] = "cancelled" /\ fill[r] = 0)

LEMMA SettleParts ==
    ASSUME Types, RungsOk, NEW S, \A r \in S : r \in Rungs /\ slip[r] \in {"open", "cancelled"}, Settled(S)
    PROVE  /\ slip' \in Slips
           /\ \A r \in Rungs : slip'[r] = slip[r] \/ Answered(r)
           /\ \A r \in Rungs : slip'[r] = "none" <=> slip[r] = "none"
           /\ \A r \in Rungs : slip'[r] = "open" => slip[r] = "open"
           /\ \A r \in S : ~Tracked(r) => slip'[r] # "open" /\ (slip'[r] = "cancelled" => fill[r] = 0)
           /\ Pulled(S) => ord' = ord
           /\ S = {} => slip' = slip
<1>1. \A r \in Rungs : RungOk(r) /\ fill[r] \in Nat /\ slip[r] \in {"none", "open", "filled", "cancelled"}
    BY DEF RungsOk, Types, Slips
<1>2. \A r \in S : Ended(r) <=> ~Tracked(r)
    BY <1>1 DEF RungOk, Ended
<1>3. slip' = [r \in Rungs |-> IF r \in S /\ ~Tracked(r)
                               THEN IF fill[r] > 0 THEN "filled" ELSE "cancelled" ELSE slip[r]]
    BY <1>2 DEF Settled
<1>4. slip' \in Slips
    BY <1>1, <1>3 DEF Slips
<1>5. ASSUME NEW r \in Rungs
      PROVE  /\ slip'[r] = slip[r] \/ Answered(r)
             /\ slip'[r] = "none" <=> slip[r] = "none"
             /\ slip'[r] = "open" => slip[r] = "open"
    <2>1. CASE r \in S /\ ~Tracked(r)
        BY <1>1, <1>2, <1>3, <2>1 DEF Answered, Ended
    <2>2. CASE ~(r \in S /\ ~Tracked(r))
        BY <1>3, <2>2
    <2> QED
        BY <2>1, <2>2
<1>6. \A r \in S : ~Tracked(r) => slip'[r] # "open" /\ (slip'[r] = "cancelled" => fill[r] = 0)
    BY <1>1, <1>3
<1>7. ASSUME Pulled(S)
      PROVE  ord' = ord
    <2>1. \A r \in S : ~Tracked(r) => ord[r] # "working"
        BY <1>2 DEF Ended
    <2>2. ord' = [r \in Rungs |-> ord[r]]
        BY <1>7, <2>1 DEF Pulled
    <2> QED
        BY <2>2 DEF Types
<1>8. ASSUME S = {}
      PROVE  slip' = slip
    <2>1. slip' = [r \in Rungs |-> slip[r]]
        BY <1>3, <1>8
    <2> QED
        BY <2>1 DEF Types, Slips
<1> QED
    BY <1>4, <1>5, <1>6, <1>7, <1>8

LEMMA ConfirmSame ==
    ASSUME Types, RungsOk, Confirm(OpenRungs)
    PROVE  ord' = ord
BY SettleParts DEF Confirm, OpenRungs

LEMMA RungsAnswered ==
    ASSUME RungsOk, UNCHANGED <<plan, track, ord, fill>>, ride'.st = ride.st,
           \A r \in Rungs : slip'[r] = slip[r] \/ Answered(r)
    PROVE  RungsOk'
<1> SUFFICES ASSUME NEW r \in Rungs PROVE RungOk(r)'
    BY DEF RungsOk
<1>1. RungOk(r) /\ (slip'[r] = slip[r] \/ Answered(r))
    BY DEF RungsOk
<1>2. Tracked(r)' = Tracked(r) /\ Owned' = Owned /\ At("ladder")' = At("ladder")
    BY DEF Tracked, Owned, At, Pending
<1> QED
    BY <1>1, <1>2 DEF RungOk, Answered, Tracked

(* Rungs are settled and the row stays as it is.                           *)
LEMMA SettleAlone ==
    ASSUME Inv, NEW S, \A r \in S : r \in Rungs /\ slip[r] \in {"open", "cancelled"}, Settled(S),
           UNCHANGED <<plan, track, ord, fill, venue, sweep, faults>>,
           proc' \in [Procs -> Parties], ProcOk', HandOverOk', LadderOk',
           \A p \in Procs : proc'[p].todo \subseteq proc[p].todo,
           proc'["tick"].step = "protect" =>
              \A r \in Rungs : slip'[r] # "open" /\ (slip'[r] = "cancelled" => fill[r] = 0)
    PROVE  Inv'
<1>0. UNCHANGED <<plan, track, ord, fill, bought, ride, parent, guard, net, base, sweep, faults>>
    BY DEF venue
<1>1. /\ slip' \in Slips
      /\ \A r \in Rungs : slip'[r] = slip[r] \/ Answered(r)
      /\ \A r \in Rungs : slip'[r] = "none" <=> slip[r] = "none"
      /\ \A r \in Rungs : slip'[r] = "open" => slip[r] = "open"
    BY SettleParts DEF Inv
<1>2. Types'
    BY <1>0, <1>1 DEF Inv, Types
<1>3. PlanOk' /\ RideOk' /\ EntryOk'
    BY <1>0, PlanFrame DEF Inv
<1>4. RungsOk'
    BY <1>0, <1>1, RungsAnswered DEF Inv
<1>5. OpenOk'
    BY <1>0, <1>1 DEF Inv, OpenOk, Cleared, At, Pending
<1>6. AsksOk'
    <2>1. ASSUME NEW x \in Asks, AskOk(x)
          PROVE  AskOk(x)'
        <3>1. x.rung \in Rungs
            BY DEF Asks
        <3> QED
            BY <1>0, <1>1, <2>1, <3>1 DEF AskOk, Tracked
    <2>2. \A p \in Procs : proc[p].todo \subseteq Asks
        BY DEF Inv, Types, Parties
    <2> QED
        BY <1>0, <2>1, <2>2 DEF Inv, Types, AsksOk
<1>7. Due' = Due
    <2>1. Lost' = Lost
        BY <1>0, <1>1, LostSame, SumsAre
    <2>2. EntryHeld' = EntryHeld
        BY <1>0 DEF EntryHeld, Stopped, ToDo
    <2> QED
        BY <1>0, <2>1, <2>2 DEF Due, Owned
<1>8. LedgerOk' /\ GuardOk'
    BY <1>0, <1>7, LedgerKept, GuardKept DEF Inv, Stopped
<1> QED
    BY <1>2, <1>3, <1>4, <1>5, <1>6, <1>8 DEF Inv

LEMMA OpenOnes == \A r \in OpenRungs : r \in Rungs /\ slip[r] \in {"open", "cancelled"}
BY DEF OpenRungs

LEMMA TickStartsStep == ASSUME Inv, TickStarts PROVE Inv'
<1> DEFINE r == [Idle EXCEPT !.step = "look"]
<1>1. r \in Parties /\ r.step = "look" /\ r.todo = {} /\ Becomes("tick", r)
    BY IdleType DEF Parties, Steps, TickStarts
<1> HIDE DEF r
<1>2. /\ proc' \in [Procs -> Parties] /\ proc'["tick"] = r
      /\ proc'["stop"] = proc["stop"] /\ proc'["floor"] = proc["floor"]
    BY <1>1, PartyStep DEF Inv, Types, Procs
<1>3. plan' = plan /\ ~Stopped
    BY DEF TickStarts
<1>4. ProcOk'
    BY <1>1, <1>2, <1>3 DEF Inv, ProcOk, Stopped
<1>5. HandOverOk' /\ LadderOk'
    BY <1>1, <1>2 DEF HandOverOk, LadderOk
<1>6. \A p \in Procs : proc'[p].todo \subseteq proc[p].todo
    BY <1>1, <1>2 DEF Procs
<1>7. proc'["tick"].step # "protect" /\ Settled(OpenRungs) /\ UNCHANGED <<plan, track, ord, fill, venue, sweep, faults>>
    BY <1>1, <1>2 DEF TickStarts
<1> QED
    BY <1>2, <1>4, <1>5, <1>6, <1>7, OpenOnes, SettleAlone

LEMMA RungsSettledStep == ASSUME Inv, RungsSettled PROVE Inv'
<1> DEFINE r == IF Confirmed(Unsure) THEN [Idle EXCEPT !.step = "protect"] ELSE Idle
<1>1. /\ r \in Parties /\ r.step \in {"idle", "protect"} /\ r.todo = {} /\ Becomes("tick", r)
      /\ r.step = "protect" => Confirmed(Unsure)
    BY IdleType DEF Parties, Steps, RungsSettled
<1> HIDE DEF r
<1>2. /\ proc' \in [Procs -> Parties] /\ proc'["tick"] = r
      /\ proc'["stop"] = proc["stop"] /\ proc'["floor"] = proc["floor"]
    BY <1>1, PartyStep DEF Inv, Types, Procs
<1>3. \A o \in Unsure : o \in Rungs /\ slip[o] \in {"open", "cancelled"}
    BY DEF Unsure
<1>4. /\ \A o \in Unsure : ~Tracked(o) => slip'[o] # "open" /\ (slip'[o] = "cancelled" => fill[o] = 0)
      /\ \A o \in Rungs : slip'[o] = slip[o] \/ Answered(o)
      /\ ord' = ord
    BY <1>3, SettleParts DEF RungsSettled, Inv
<1>5. plan' = plan /\ plan.settle = "pending" /\ plan.phase = "stopped"
    BY DEF RungsSettled, Inv, ProcOk, PlanOk
<1>6. ProcOk'
    BY <1>1, <1>2, <1>5 DEF Inv, ProcOk, Stopped
<1>7. HandOverOk' /\ LadderOk'
    BY <1>1, <1>2 DEF HandOverOk, LadderOk
<1>8. \A p \in Procs : proc'[p].todo \subseteq proc[p].todo
    BY <1>1, <1>2 DEF Procs
<1>9. ASSUME r.step = "protect", NEW o \in Rungs
      PROVE  slip'[o] # "open" /\ (slip'[o] = "cancelled" => fill[o] = 0)
    <2>1. RungOk(o) /\ fill[o] \in Nat
        BY DEF Inv, RungsOk, Types
    <2>2. CASE o \in Unsure
        BY <1>1, <1>4, <1>9, <2>2 DEF Confirmed, Ended
    <2>3. CASE o \notin Unsure
        <3>1. slip[o] # "open" /\ (slip[o] = "cancelled" => fill[o] = 0)
            BY <1>5, <2>1, <2>3 DEF Inv, OpenOk, RungOk, Unsure
        <3> QED
            BY <1>4, <3>1 DEF Answered
    <2> QED
        BY <2>2, <2>3
<1> QED
    BY <1>2, <1>3, <1>4, <1>6, <1>7, <1>8, <1>9, SettleAlone DEF RungsSettled

(* The decision's cancel is done: no rung is left open.                    *)
LEMMA CancelDone ==
    ASSUME Inv, RungsCancelled, Confirmed(OpenRungs)
    PROVE  Inv'
<1>0. proc["tick"].step = "cancel" /\ Mem # NoPend /\ At("cancel") /\ Act = "cancel" /\ ActionDone(plan)
    BY RunMem, TickMem DEF RungsCancelled, Inv, ProcOk
<1>1. plan \in Rows
    BY DEF Inv, Types
<1>2. /\ plan' \in Rows /\ plan'.phase = plan.phase /\ plan'.seq = plan.seq /\ plan'.ended = plan.ended
      /\ plan'.settle = plan.settle /\ plan'.stop = plan.stop
      /\ plan'.entry = plan.entry /\ plan'.ride = plan.ride
      /\ plan'.pend.next = plan.pend.next
      /\ Pending' /\ Stopped' = Stopped /\ ~Stopped
      /\ Decision(plan'.pend, plan'.phase)
      /\ NextOf(plan.pend) = "cancel" =>
                NextOf(plan'.pend) = IF plan.pend.next = "waiting" THEN "commit"
                                     ELSE IF plan.phase = "ladder" THEN "handover"
                                     ELSE IF plan.phase = "armed" THEN "market" ELSE "ladder"
      /\ NextOf(plan.pend) = "cancel" => plan.pend.next \in {"waiting", "riding"} /\ plan.phase # "waiting"
      /\ proc' \in [Procs -> Parties] /\ proc'["tick"].step = "run" /\ proc'["tick"].todo = {}
      /\ proc'["stop"] = proc["stop"] /\ proc'["floor"] = proc["floor"]
      /\ ProcOk' /\ HandOverOk' /\ LadderOk'
    BY <1>0, <1>1, ActionDoneParts
<1>3. NextOf(plan.pend) = "cancel" /\ Pending /\ Decision(plan.pend, plan.phase)
      /\ plan.phase \in {"ladder", "armed", "waiting", "riding"}
    BY <1>0, TickMem DEF At
<1>4. /\ NextOf(plan'.pend) = IF plan.pend.next = "waiting" THEN "commit"
                              ELSE IF plan.phase = "ladder" THEN "handover"
                              ELSE IF plan.phase = "armed" THEN "market" ELSE "ladder"
      /\ plan.pend.next \in {"waiting", "riding"} /\ plan.phase # "waiting"
      /\ plan.pend.next = "waiting" => plan.phase \in {"ladder", "riding"}
    BY <1>2, <1>3, StageNow DEF Inv
<1>5. ToDo("handover")' <=> ToDo("handover")
    BY <1>1, <1>2, <1>3, <1>4, StageNow, StageNext DEF Inv
<1>6. ~HandedTo /\ ~Bought /\ ~Bought' /\ (HandedTo' => plan.phase = "riding")
      /\ (ToDo("handover") => plan.phase \in {"ladder", "armed"})
    BY <1>2, <1>3, <1>4, StageNow DEF Inv, HandedTo, Bought
<1>7. /\ UNCHANGED <<track, fill, bought, ride, parent, guard, net, base, sweep, faults>> /\ ord' = ord
      /\ Settled(OpenRungs)
    BY ConfirmSame DEF RungsCancelled, venue, Inv, Confirm
<1>8. /\ slip' \in Slips
      /\ \A r \in Rungs : slip'[r] = slip[r] \/ Answered(r)
      /\ \A r \in Rungs : slip'[r] = "none" <=> slip[r] = "none"
      /\ \A r \in OpenRungs : ~Tracked(r) => slip'[r] # "open"
      /\ \A r \in Rungs : slip'[r] = "open" => slip[r] = "open"
    BY <1>7, OpenOnes, SettleParts DEF Inv
<1>9. \A r \in Rungs : slip'[r] # "open"
    BY <1>8 DEF OpenRungs, Confirmed, Ended
<1>10. Types'
    BY <1>2, <1>7, <1>8 DEF Inv, Types
<1>11. PlanOk'
    BY <1>2, <1>3, <1>6 DEF Inv, PlanOk, Stopped
<1>12. RideOk'
    BY <1>2, <1>3, <1>7 DEF Inv, RideOk, At
<1>13. EntryOk'
    BY <1>2, <1>5, <1>6, <1>7 DEF Inv, EntryOk
<1>14. RungsOk'
    <2> SUFFICES ASSUME NEW r \in Rungs PROVE RungOk(r)'
        BY DEF RungsOk
    <2>1. RungOk(r) /\ (slip'[r] = slip[r] \/ Answered(r)) /\ slip'[r] # "open"
        BY <1>8, <1>9 DEF Inv, RungsOk
    <2>2. Tracked(r)' = Tracked(r) /\ ~At("ladder")
        BY <1>3, <1>7 DEF Tracked, At
    <2> QED
        BY <1>2, <1>7, <2>1, <2>2 DEF RungOk, Answered, Tracked
<1>15. OpenOk'
    BY <1>2, <1>9 DEF OpenOk
<1>16. AsksOk'
    <2>1. ASSUME NEW x \in Asks, AskOk(x)
          PROVE  AskOk(x)'
        <3>1. x.rung \in Rungs
            BY DEF Asks
        <3> QED
            BY <1>7, <1>8, <2>1, <3>1 DEF AskOk, Tracked
    <2>2. \A p \in Procs : proc[p].todo \subseteq Asks
        BY DEF Inv, Types, Parties
    <2> QED
        BY <1>2, <1>7, <2>1, <2>2 DEF Inv, Types, AsksOk, Procs
<1>17. Due' = Due
    <2>1. Lost' = Lost
        BY <1>7, <1>8, LostSame, SumsAre
    <2> QED
        BY <1>2, <1>5, <1>7, <2>1 DEF Due, Owned, EntryHeld
<1>18. LedgerOk' /\ GuardOk'
    BY <1>2, <1>7, <1>17, LedgerKept, GuardKept DEF Inv
<1> QED
    BY <1>2, <1>10, <1>11, <1>12, <1>13, <1>14, <1>15, <1>16, <1>18 DEF Inv

LEMMA RungsCancelledStep == ASSUME Inv, RungsCancelled PROVE Inv'
<1>1. CASE Confirmed(OpenRungs)
    BY <1>1, CancelDone
<1>2. CASE ~Confirmed(OpenRungs)
    <2>1. UNCHANGED <<plan, track, fill, venue, sweep, faults>> /\ ord' = ord /\ Settled(OpenRungs) /\ Ends("tick")
        BY <1>2, ConfirmSame DEF RungsCancelled, Inv, Confirm
    <2>2. /\ proc' \in [Procs -> Parties] /\ proc'["tick"] = Idle
          /\ proc'["stop"] = proc["stop"] /\ proc'["floor"] = proc["floor"]
        BY <2>1, IdleType, PartyStep DEF Ends, Inv, Types, Procs
    <2>3. ProcOk'
        BY <2>1, <2>2, IdleType DEF Inv, ProcOk, Stopped
    <2>4. HandOverOk' /\ LadderOk' /\ proc'["tick"].step # "protect"
        BY <2>2, IdleType DEF HandOverOk, LadderOk
    <2>5. \A p \in Procs : proc'[p].todo \subseteq proc[p].todo
        BY <2>2, IdleType DEF Procs
    <2> QED
        BY <2>1, <2>2, <2>3, <2>4, <2>5, OpenOnes, SettleAlone
<1> QED
    BY <1>1, <1>2

(* A stop that reaches the plan finds no tick on it, and all on record.    *)
LEMMA StopFinds ==
    ASSUME Inv, proc["stop"].step = "cancel" \/ proc["floor"].step = "cancel",
           StopsPlan = {}
    PROVE  /\ proc["tick"].step = "idle" /\ plan.phase # "stopped"
           /\ plan.settle = "none" /\ plan.stop = "none" /\ guard.st = "none"
           /\ \A r \in Rungs : slip[r] = "none" => ord[r] = "none" /\ fill[r] = 0
           /\ \A r \in Rungs : slip[r] = "cancelled" => fill[r] = 0
           /\ ride.st = "open" => plan.ride
           /\ EntryHeld <= plan.entry
<1>1. ~InDecision /\ ~Unrecorded
    BY DEF StopsPlan, Way
<1>2. plan.phase # "stopped"
    BY DEF Inv, ProcOk
<1>3. plan.settle = "none" /\ plan.stop = "none" /\ guard.st = "none"
    BY <1>2 DEF Inv, PlanOk, GuardOk, Types, Rows
<1>4. proc["tick"].step = "idle"
    BY <1>1, <1>3 DEF InDecision, Inv, ProcOk
<1>5. ASSUME NEW r \in Rungs
      PROVE  /\ slip[r] = "none" => ord[r] = "none" /\ fill[r] = 0
             /\ slip[r] = "cancelled" => fill[r] = 0
    <2>1. RungOk(r) /\ fill[r] \in Nat /\ Size[r[2]] \in Nat \ {0}
        BY Ranges DEF Inv, RungsOk, Types
    <2>2. slip[r] = "none" => ord[r] # "working" /\ ~(fill[r] > 0)
        BY <1>1 DEF Unrecorded
    <2> QED
        BY <1>3, <2>1, <2>2 DEF RungOk
<1>6. ride.st = "open" => plan.ride
    BY <1>1 DEF Unrecorded
<1>7. EntryHeld <= plan.entry
    <2>1. plan.entry \in {0, 1}
        BY DEF Inv, Types, Rows
    <2>2. ASSUME ~Stopped, ToDo("handover"), plan.seq \in bought.venue
          PROVE  plan.entry = 1
        <3>1. Pending /\ Decision(plan.pend, plan.phase)
            BY <2>2, NothingToGo DEF Inv, PlanOk
        <3>2. ~ToDo("market") /\ plan.phase \in {"armed", "waiting"}
            BY <1>1, <2>2 DEF Unrecorded, Inv, EntryOk
        <3>3. plan.pend.next = "riding" /\ NextOf(plan.pend) = "handover"
            BY <2>2, <3>1, <3>2, StageNow DEF Inv
        <3> QED
            BY <2>2, <3>1, <3>2, <3>3 DEF Inv, EntryOk, Bought
    <2> QED
        BY <2>1, <2>2 DEF EntryHeld
<1> QED
    BY <1>2, <1>3, <1>4, <1>5, <1>6, <1>7

(* The plan is stopped, by the operator or by the floor.                   *)
LEMMA PlanStops ==
    ASSUME Inv, proc["stop"].step = "cancel" \/ proc["floor"].step = "cancel", StopsPlan = {},
           NEW settle \in {"none", "pending"},
           plan' = [plan EXCEPT !.phase = "stopped", !.pend = NoPend, !.settle = settle],
           UNCHANGED <<track, fill, venue, sweep, faults>>, ord' = ord,
           slip' \in Slips,
           \A r \in Rungs : slip'[r] = slip[r] \/ Answered(r)
              \/ (~Tracked(r) /\ slip[r] \in {"open", "filled"} /\ slip'[r] = "cancelled"
                  /\ settle = "pending" /\ r[1] = plan.seq),
           \A r \in Rungs : slip'[r] = "open" => slip[r] = "open" /\ settle = "pending" /\ r[1] = plan.seq,
           proc' \in [Procs -> Parties], proc'["tick"] = proc["tick"],
           proc'["stop"].step = "idle" /\ proc'["floor"].step = "idle",
           \A p \in Procs : proc'[p].todo \subseteq proc[p].todo
    PROVE  Inv'
<1>1. /\ proc["tick"].step = "idle" /\ plan.phase # "stopped"
      /\ plan.settle = "none" /\ plan.stop = "none" /\ guard.st = "none"
      /\ \A r \in Rungs : slip[r] = "none" => ord[r] = "none" /\ fill[r] = 0
      /\ \A r \in Rungs : slip[r] = "cancelled" => fill[r] = 0
      /\ ride.st = "open" => plan.ride
      /\ EntryHeld <= plan.entry
    BY StopFinds
<1>2. /\ plan' \in Rows /\ plan'.phase = "stopped" /\ plan'.pend = NoPend /\ plan'.settle = settle
      /\ plan'.seq = plan.seq /\ plan'.ride = plan.ride /\ plan'.ended = plan.ended
      /\ plan'.entry = plan.entry /\ plan'.stop = plan.stop
    BY NoPendType DEF Inv, Types, Rows, Phases
<1>3. ~Pending' /\ Stopped' /\ ~HandedTo' /\ ~Bought' /\ \A act : ~At(act)'
    BY <1>2 DEF Pending, Stopped, HandedTo, Bought, At
<1>4. ~ToDo("handover")'
    <2>1. plan'.pend.acts = << >>
        BY <1>2, NoPendType, ActsShape
    <2> QED
        BY <2>1 DEF ToDo
<1>5. UNCHANGED <<track, ord, fill, bought, ride, parent, guard, net, base, sweep, faults>>
    BY DEF venue
<1>6. \A r \in Rungs : (slip'[r] = "none" <=> slip[r] = "none")
    BY DEF Answered
<1>7. Types'
    BY <1>2, <1>5 DEF Inv, Types
<1>8. PlanOk'
    BY <1>1, <1>2, <1>3 DEF PlanOk
<1>9. RideOk'
    BY <1>1, <1>2, <1>3, <1>5 DEF RideOk
<1>10. EntryOk'
    BY <1>2, <1>3, <1>4, <1>5 DEF Inv, EntryOk
<1>11. ProcOk'
    BY <1>1 DEF ProcOk
<1>12. HandOverOk' /\ LadderOk'
    BY <1>1 DEF HandOverOk, LadderOk
<1>13. RungsOk'
    <2> SUFFICES ASSUME NEW r \in Rungs PROVE RungOk(r)'
        BY DEF RungsOk
    <2>1. RungOk(r) /\ (slip'[r] = slip[r] \/ Answered(r)
              \/ (~Tracked(r) /\ slip[r] \in {"open", "filled"} /\ slip'[r] = "cancelled"
                  /\ settle = "pending" /\ r[1] = plan.seq))
          /\ (slip[r] = "none" => ord[r] = "none") /\ (slip[r] = "cancelled" => fill[r] = 0)
        BY <1>1 DEF Inv, RungsOk
    <2>2. Tracked(r)' = Tracked(r) /\ Owned' = Owned /\ fill[r] \in Nat
        BY <1>2, <1>5 DEF Tracked, Owned, Inv, Types
    <2> QED
        BY <1>2, <1>5, <2>1, <2>2 DEF RungOk, Answered, Tracked
<1>14. OpenOk'
    BY <1>1, <1>2, <1>3, <1>5 DEF OpenOk, Cleared
<1>15. AsksOk'
    <2>1. ASSUME NEW x \in Asks, AskOk(x)
          PROVE  AskOk(x)'
        <3>1. x.rung \in Rungs
            BY DEF Asks
        <3> QED
            BY <1>5, <1>6, <2>1, <3>1 DEF AskOk, Tracked
    <2>2. \A p \in Procs : proc[p].todo \subseteq Asks
        BY DEF Inv, Types, Parties
    <2> QED
        BY <1>5, <2>1, <2>2 DEF Inv, Types, AsksOk
<1>16. LedgerOk'
    <2>1. Lost' = Lost /\ Unswept' = Unswept /\ Ridden' = Ridden
        BY <1>5, <1>6, LostSame, SumsAre DEF Ridden
    <2>2. Due \in Int /\ Due' \in Int /\ Due <= Due'
        <3>1. EntryHeld' = plan.entry /\ Owned' = Owned
            BY <1>2, <1>3, <1>5 DEF EntryHeld, Owned
        <3>2. Lost \in Nat /\ Sum(fill) \in Nat /\ plan.entry \in {0, 1} /\ EntryHeld \in {0, 1}
            BY SumsNat DEF Inv, Types, Rows, EntryHeld
        <3> QED
            BY <1>1, <1>2, <1>5, <2>1, <3>1, <3>2 DEF Due
    <2>3. Free' = Free /\ Free \in Int
        BY <1>5, <2>1, SumsNat DEF Free, Inv, Types
    <2> QED
        BY <1>3, <1>5, <2>1, <2>2, <2>3 DEF Inv, LedgerOk
<1>17. GuardOk'
    BY <1>1, <1>2, <1>5 DEF GuardOk
<1> QED
    BY <1>7, <1>8, <1>9, <1>10, <1>11, <1>12, <1>13, <1>14, <1>15, <1>16, <1>17 DEF Inv

LEMMA StopEndsStep == ASSUME Inv, StopEnds, ways' = {} PROVE Inv'
<1>1. /\ UNCHANGED <<track, fill, venue, sweep, faults>> /\ ord' = ord /\ Settled(OpenRungs)
      /\ Ends("stop") /\ proc["stop"].step = "cancel"
    BY ConfirmSame DEF StopEnds, Inv, Confirm
<1>2. /\ slip' \in Slips
      /\ \A r \in Rungs : slip'[r] = slip[r] \/ Answered(r)
      /\ \A r \in Rungs : slip'[r] = "none" <=> slip[r] = "none"
      /\ \A r \in OpenRungs : ~Tracked(r) => slip'[r] # "open"
      /\ \A r \in Rungs : slip'[r] = "open" => slip[r] = "open"
      /\ OpenRungs = {} => slip' = slip
    BY <1>1, OpenOnes, SettleParts DEF Inv
<1>3. /\ proc' \in [Procs -> Parties] /\ proc'["stop"] = Idle
      /\ proc'["tick"] = proc["tick"] /\ proc'["floor"] = proc["floor"]
    BY <1>1, IdleType, PartyStep DEF Ends, Inv, Types, Procs
<1>4. \A p \in Procs : proc'[p].todo \subseteq proc[p].todo
    BY <1>3, IdleType DEF Procs
<1>5. plan.phase # "stopped" /\ proc["floor"].step = "idle"
    BY <1>1 DEF Inv, ProcOk
<1>6. CASE Confirmed(OpenRungs)
    <2>1. plan' = [plan EXCEPT !.phase = "stopped", !.pend = NoPend] /\ StopsPlan = {}
        BY <1>6 DEF StopEnds
    <2>2. plan.settle = "none"
        BY <1>5 DEF Inv, PlanOk, Types, Rows
    <2>3. plan' = [plan EXCEPT !.phase = "stopped", !.pend = NoPend, !.settle = "none"]
        BY <2>1, <2>2 DEF Inv, Types, Rows
    <2>4. \A r \in Rungs : slip'[r] # "open"
        BY <1>2, <1>6 DEF OpenRungs, Confirmed, Ended
    <2> QED
        BY <1>1, <1>2, <1>3, <1>4, <1>5, <2>1, <2>3, <2>4, IdleType, PlanStops
<1>7. CASE ~Confirmed(OpenRungs)
    <2>1. plan' = plan
        BY <1>7 DEF StopEnds
    <2>2. OpenRungs # {} /\ ~At("handover")
        BY <1>7 DEF Confirmed, Inv, OpenOk, Cleared, OpenRungs
    <2>3. ProcOk'
        BY <1>1, <1>3, <1>5, <2>1, IdleType DEF Inv, ProcOk, Stopped, Pending, At, venue
    <2>4. HandOverOk'
        BY <1>3, <2>2 DEF Inv, ProcOk, HandOverOk
    <2>5. LadderOk'
        <3> SUFFICES ASSUME proc["tick"].step = "ladder", NEW i \in Ladder, i < proc["tick"].n,
                            slip'[<<plan.seq, i>>] = "none"
                     PROVE  ord[<<plan.seq, i>>] = "none"
            BY <1>1, <1>3, <2>1 DEF LadderOk
        <3>1. plan.seq \in Seqs
            BY RunMem, TickMem, StageNow DEF Inv, PlanOk, ProcOk, At
        <3>2. slip[<<plan.seq, i>>] = "none"
            BY <1>2, <3>1, Ranges
        <3> QED
            BY <3>2 DEF Inv, LadderOk
    <2>6. proc'["tick"].step # "protect"
        BY <1>3, <1>5 DEF Inv, ProcOk, PlanOk
    <2> QED
        BY <1>1, <1>3, <1>4, <2>1, <2>3, <2>4, <2>5, <2>6, OpenOnes, SettleAlone
<1> QED
    BY <1>6, <1>7

LEMMA FloorStopsStep == ASSUME Inv, FloorOk, FloorStops, ways' = {} PROVE Inv'
<1>1. /\ UNCHANGED <<track, fill, venue, sweep, faults>> /\ ord' = ord
      /\ Ends("floor") /\ proc["floor"].step = "cancel"
      /\ plan' = [plan EXCEPT !.phase = "stopped", !.pend = NoPend, !.settle = "pending"]
      /\ slip' = [r \in Rungs |-> IF r \in proc["floor"].open /\ ~Tracked(r) THEN "cancelled" ELSE slip[r]]
    BY DEF FloorStops
<1>2. /\ StopsPlan = {} /\ \A r \in OpenRungs : r[1] = plan.seq
      /\ \A r \in proc["floor"].open : ~Tracked(r) /\ slip[r] = "filled" => r[1] = plan.seq
    BY DEF FloorStops, Way
<1>3. slip' \in Slips
    BY <1>1 DEF Slips, Inv, Types
<1>4. /\ proc' \in [Procs -> Parties] /\ proc'["floor"] = Idle
      /\ proc'["tick"] = proc["tick"] /\ proc'["stop"] = proc["stop"]
    BY <1>1, IdleType, PartyStep DEF Ends, Inv, Types, Procs
<1>5. \A p \in Procs : proc'[p].todo \subseteq proc[p].todo
    BY <1>4, IdleType DEF Procs
<1>6. proc["stop"].step = "idle"
    BY <1>1 DEF Inv, ProcOk
<1>7. ASSUME NEW r \in Rungs
      PROVE  /\ slip'[r] = slip[r] \/ (~Tracked(r) /\ slip[r] \in {"open", "filled"} /\ slip'[r] = "cancelled"
                                       /\ r[1] = plan.seq)
             /\ slip'[r] = "open" => slip[r] = "open" /\ r[1] = plan.seq
    <2>1. slip[r] \in {"none", "open", "filled", "cancelled"}
        BY DEF Inv, Types, Slips
    <2> QED
        BY <1>1, <1>2, <2>1 DEF OpenRungs, FloorOk
<1> QED
    BY <1>1, <1>2, <1>3, <1>4, <1>5, <1>6, <1>7, IdleType, PlanStops

(* A decision begins: with the next ladder, or to leave ride or position.  *)
LEMMA DecisionBegins ==
    ASSUME Inv, proc["tick"].step = "look", ~Stopped, ~Pending, NEW pend \in Pends, NEW seq \in Seqs \cup {0},
           Decision(pend, plan.phase), pend.next \in {"riding", "waiting"},
           NextOf(pend) = IF pend.next = "riding" /\ plan.phase = "waiting" THEN "market" ELSE "cancel",
           pend.next = "riding" => seq = plan.seq + 1 /\ seq \in Seqs,
           pend.next = "waiting" => seq = plan.seq /\ (plan.phase = "riding" => ride.st # "open"),
           plan' = [plan EXCEPT !.seq = seq, !.pend = pend],
           Becomes("tick", [Idle EXCEPT !.step = "run", !.pend = pend]),
           UNCHANGED <<rungs, venue, sweep, faults>>
    PROVE  Inv'
<1> DEFINE r == [Idle EXCEPT !.step = "run", !.pend = pend]
<1>1. r \in Parties /\ r.step = "run" /\ r.todo = {} /\ r.pend = pend
    BY IdleType DEF Parties, Steps
<1> HIDE DEF r
<1>2. /\ plan' \in Rows /\ plan'.phase = plan.phase /\ plan'.pend = pend /\ plan'.seq = seq
      /\ plan'.ride = plan.ride /\ plan'.ended = plan.ended /\ plan'.settle = plan.settle
      /\ plan'.entry = plan.entry /\ plan'.stop = plan.stop
    BY DEF Inv, Types, Rows
<1>3. UNCHANGED <<slip, track, ord, fill, bought, ride, parent, guard, net, base, sweep, faults>>
    BY DEF rungs, venue
<1>4. /\ proc' \in [Procs -> Parties] /\ proc'["tick"] = r
      /\ proc'["stop"] = proc["stop"] /\ proc'["floor"] = proc["floor"]
    BY <1>1, PartyStep DEF r, Inv, Types, Procs
<1>5. plan.seq \in Nat /\ seq \in Nat /\ plan.phase \in Phases /\ plan.entry \in {0, 1}
    BY Ranges DEF Inv, Types, Rows
<1>6. /\ pend # NoPend
      /\ pend.next = "waiting" => plan.phase \in {"ladder", "riding"} /\ ~ToGo(pend, "handover")
    BY <1>5, DecisionStage
<1>7. Pending' /\ Stopped' = Stopped /\ ~HandedTo' /\ ~Bought' /\ ~At("handover")' /\ ~At("ladder")' /\ ~At("commit")'
    BY <1>2, <1>6 DEF Pending, Stopped, HandedTo, Bought, At
<1>8. ~HandedTo /\ ~Bought /\ ~ToDo("handover") /\ \A act : ~At(act)
    BY NothingToGo DEF HandedTo, Bought, At
<1>9. pend.next = "riding" => \A s \in bought.venue : s < seq
    BY <1>5, Ranges DEF Inv, EntryOk, Types
<1>10. ~(ToDo("handover")' /\ plan'.seq \in bought'.venue)
    <2>1. CASE pend.next = "riding"
        BY <1>2, <1>3, <1>5, <1>9, <2>1
    <2>2. CASE pend.next = "waiting"
        BY <1>2, <1>6, <2>2 DEF ToDo, ToGo
    <2> QED
        BY <2>1, <2>2
<1>11. Types'
    BY <1>2, <1>3, <1>4 DEF Inv, Types
<1>12. PlanOk'
    BY <1>2, <1>7, <1>8 DEF Inv, PlanOk, Stopped
<1>13. RideOk'
    BY <1>2, <1>3, <1>8 DEF Inv, RideOk
<1>14. EntryOk'
    <2>1. \A s \in bought'.venue : s <= plan'.seq
        BY <1>2, <1>3, <1>5, <1>9, Ranges DEF Inv, EntryOk, Types
    <2> QED
        BY <1>2, <1>3, <1>5, <1>7, <1>8, <1>10, <2>1 DEF Inv, EntryOk
<1>15. ProcOk'
    BY <1>1, <1>2, <1>4, <1>7 DEF Inv, ProcOk, Stopped
<1>16. HandOverOk' /\ LadderOk'
    BY <1>1, <1>4 DEF HandOverOk, LadderOk
<1>17. RungsOk'
    <2> SUFFICES ASSUME NEW o \in Rungs PROVE RungOk(o)'
        BY DEF RungsOk
    <2>1. RungOk(o) /\ o[1] \in Nat
        BY Ranges DEF Inv, RungsOk
    <2>2. Tracked(o)' = Tracked(o) /\ Owned' = Owned /\ plan.seq <= seq /\ plan.settle # "pending"
        BY <1>2, <1>3, <1>5 DEF Tracked, Owned, Inv, PlanOk, Stopped
    <2> QED
        BY <1>2, <1>3, <1>5, <1>8, <2>1, <2>2 DEF RungOk, Tracked
<1>18. OpenOk'
    <2>1. Cleared' => plan.phase = "waiting" /\ pend.next = "riding"
        BY <1>1, <1>2, <1>3, <1>4, <1>7 DEF Cleared, At, Stopped, Inv, PlanOk, GuardOk
    <2>2. plan.phase = "waiting" => Cleared
        BY DEF Cleared
    <2> QED
        BY <1>1, <1>2, <1>3, <1>4, <2>1, <2>2 DEF Inv, OpenOk, Stopped
<1>19. AsksOk'
    BY <1>1, <1>3, <1>4 DEF Inv, AsksOk, AskOk, Tracked, Procs
<1>20. Due' = Due
    <2>1. EntryHeld' = EntryHeld
        BY <1>7, <1>8, <1>10 DEF EntryHeld
    <2> QED
        BY <1>2, <1>3, <2>1, SumsAre DEF Due, Owned
<1>21. LedgerOk' /\ GuardOk'
    BY <1>2, <1>3, <1>7, <1>20, LedgerKept, GuardKept DEF Inv
<1> QED
    BY <1>11, <1>12, <1>13, <1>14, <1>15, <1>16, <1>17, <1>18, <1>19, <1>21 DEF Inv

LEMMA DecideStep == ASSUME Inv, Decide PROVE Inv'
<1>1. proc["tick"].step = "look" /\ ~Stopped /\ ~Pending /\ UNCHANGED <<rungs, venue, sweep, faults>>
    BY DEF Decide
<1>2. plan.phase \in {"ladder", "armed", "waiting", "riding"}
    BY <1>1, TickTypes DEF Inv, Phases, Stopped
<1>3. plan.seq \in Seqs \cup {0} /\ plan \in Rows
    BY DEF Inv, Types, Rows
<1>4. CASE RideOver(plan.phase) \/ PositionGone(plan.phase)
    <2> DEFINE pend == [acts |-> <<"cancel">>, done |-> 0, next |-> "waiting"]
    <2>1. Begin(<<"cancel">>, "waiting")
        BY <1>4 DEF Decide
    <2>2. ~\E i \in DOMAIN <<"cancel">> : <<"cancel">>[i] \in {"ladder", "market"}
        BY ActsShape DEF Leave1
    <2>3. plan.phase \in {"ladder", "riding"} /\ (plan.phase = "riding" => ride.st # "open")
        BY <1>4 DEF RideOver, PositionGone
    <2>4. plan' = [plan EXCEPT !.seq = plan.seq, !.pend = pend] /\ Becomes("tick", [Idle EXCEPT !.step = "run", !.pend = pend])
        BY <2>1, <2>2 DEF Begin
    <2>5. pend \in Pends /\ Decision(pend, plan.phase) /\ NextOf(pend) = "cancel" /\ pend.next = "waiting"
        BY <2>3, DecisionNew
    <2> HIDE DEF pend
    <2> QED
        BY <1>1, <1>3, <2>3, <2>4, <2>5, DecisionBegins
<1>5. CASE ~(RideOver(plan.phase) \/ PositionGone(plan.phase))
    <2> DEFINE pend == [acts |-> Breakout(plan.phase), done |-> 0, next |-> "riding"]
    <2>1. Begin(Breakout(plan.phase), "riding")
        BY <1>5 DEF Decide
    <2>2. \E i \in DOMAIN Breakout(plan.phase) : Breakout(plan.phase)[i] \in {"ladder", "market"}
        BY <1>2, ActsShape DEF Breakout, Ladder3, Armed4, Waiting3, Riding2
    <2>4. /\ plan' = [plan EXCEPT !.seq = plan.seq + 1, !.pend = pend] /\ plan.seq + 1 \in Seqs
          /\ Becomes("tick", [Idle EXCEPT !.step = "run", !.pend = pend])
        BY <2>1, <2>2 DEF Begin
    <2>5. /\ pend \in Pends /\ Decision(pend, plan.phase) /\ pend.next = "riding"
          /\ NextOf(pend) = IF plan.phase = "waiting" THEN "market" ELSE "cancel"
        BY <1>2, DecisionNew
    <2> HIDE DEF pend
    <2> QED
        BY <1>1, <1>3, <2>4, <2>5, DecisionBegins
<1> QED
    BY <1>4, <1>5

----------------------------------------------------------------------------
(* Booking what a rung filled *)

(* What is booked for the ride is what was unseen, contract by contract.   *)
LEMMA BookParts ==
    ASSUME Types, RungsOk, NEW x \in Asks, AskOk(x), Misbooked(x, News(x)) = {},
           Book(x, News(x)), Drop(x) \/ Advance(x, News(x)), fill' = fill, parent' = parent
    PROVE  /\ track' \in Tracks /\ ride' \in [st : {"none", "open", "ended"}, qty : Nat] /\ ride'.st = ride.st
           /\ \A r \in Rungs \ {x.rung} : track'[r] = track[r]
           /\ \/ track'[x.rung] = NoRow
              \/ /\ track'[x.rung].on = track[x.rung].on
                 /\ track[x.rung].got <= track'[x.rung].got /\ track'[x.rung].got <= fill[x.rung]
           /\ Ridden' + Unswept' = Ridden + Unswept /\ Ridden' >= Ridden
           /\ ride.st # "open" => ride' = ride /\ Unswept' = Unswept
<1> DEFINE o == x.rung
           n == News(x)
<1>1. o \in Rungs /\ x.on \in {"marker", "ride"} /\ x.was \in Nat
    BY DEF Asks
<1>2. /\ RungOk(o) /\ fill \in [Rungs -> Nat] /\ fill[o] \in Nat /\ track \in Tracks
      /\ track[o].on \in {"none", "marker", "ride"} /\ track[o].got \in Nat /\ track[o].got <= fill[o]
      /\ ride \in [st : {"none", "open", "ended"}, qty : Nat] /\ parent \in Nat
    BY <1>1 DEF RungsOk, RungOk, Types, Tracks
<1>3. n = fill[o] - x.was /\ n \in Nat
    BY <1>1, <1>2 DEF News, AskOk
<1>4. NoRow \in [on : {"none", "marker", "ride"}, got : Nat] /\ NoRow.on = "none" /\ NoRow.got = 0
    BY DEF NoRow
<1>5. n # 0 => track[o] = [on |-> x.on, got |-> x.was] /\ (x.on = "ride" => ride.st = "open")
    <2> HIDE DEF n
    <2>1. Misbooked(x, n) = {}
        BY DEF n
    <2> QED
        BY <2>1 DEF Misbooked, Way
<1>6. n = 0 /\ Tracked(o) => track[o].got = fill[o]
    BY <1>1, <1>2, <1>3 DEF AskOk
<1>7. /\ track' \in Tracks
      /\ \A r \in Rungs \ {o} : track'[r] = track[r]
      /\ \/ track'[o] = NoRow
         \/ ~Tracked(o) /\ track'[o] = track[o]
         \/ Tracked(o) /\ track'[o].on = track[o].on /\ track'[o].got = fill[o]
    <2>1. CASE Drop(x)
        BY <1>1, <1>2, <1>4, <2>1 DEF Drop, Tracks
    <2>2. CASE Advance(x, n) /\ Tracked(o)
        <3>1. track' = [track EXCEPT ![o].got = x.was + n] /\ x.was + n = fill[o]
            BY <1>1, <1>2, <1>3, <2>2 DEF Advance
        <3> QED
            BY <1>1, <1>2, <2>2, <3>1 DEF Tracks
    <2>3. CASE Advance(x, n) /\ ~Tracked(o)
        BY <1>2, <2>3 DEF Advance
    <2> QED
        BY <2>1, <2>2, <2>3
<1> HIDE DEF n, o
<1>8. /\ Unseen(track', fill, o) = 0 /\ Unseen(track, fill, o) = (IF x.on = "ride" THEN n ELSE 0)
      /\ ride' = (IF x.on = "ride" /\ n # 0 THEN [ride EXCEPT !.qty = @ + n] ELSE ride)
    <2>1. Unseen(track', fill, o) = 0
        BY <1>2, <1>4, <1>7 DEF Unseen, Tracked
    <2>2. CASE n = 0
        <3>1. Unseen(track, fill, o) = 0
            BY <1>2, <1>6, <2>2 DEF Unseen, Tracked
        <3>2. ride' = ride
            BY <1>2, <2>2 DEF Book, n
        <3> QED
            BY <2>1, <2>2, <3>1, <3>2
    <2>3. CASE n # 0
        <3>1. track[o].on = x.on /\ track[o].got = x.was
            BY <1>5, <2>3
        <3>2. Unseen(track, fill, o) = IF x.on = "ride" THEN n ELSE 0
            BY <1>1, <1>3, <3>1 DEF Unseen
        <3>3. ride' = (IF x.on = "ride" /\ n # 0 THEN [ride EXCEPT !.qty = @ + n] ELSE ride)
            BY <2>3 DEF Book, n
        <3> QED
            BY <2>1, <3>2, <3>3
    <2> QED
        BY <2>2, <2>3
<1>9. /\ ride' \in [st : {"none", "open", "ended"}, qty : Nat] /\ ride'.st = ride.st
      /\ ride'.qty = ride.qty + (IF x.on = "ride" THEN n ELSE 0)
      /\ ride.st # "open" => ride' = ride
    BY <1>2, <1>3, <1>5, <1>8
<1>10. Unswept' = Unswept - (IF x.on = "ride" THEN n ELSE 0) /\ Unswept \in Int
    <2>1. Sum(UnsweptOf(track', fill)) = Sum(UnsweptOf(track, fill)) + Unseen(track', fill, o) - Unseen(track, fill, o)
        BY <1>1, <1>2, <1>7, UnsweptChange DEF o
    <2>2. Sum(UnsweptOf(track, fill)) \in Int
        BY <1>2, SumTypes DEF Types
    <2> QED
        BY <1>3, <1>8, <2>1, <2>2, SumsAre
<1>11. Ridden' = Ridden + (IF ride.st = "open" /\ x.on = "ride" THEN n ELSE 0)
    BY <1>2, <1>3, <1>9 DEF Ridden
<1>12. ride.st # "open" /\ x.on = "ride" => n = 0
    BY <1>5
<1>13. Ridden' + Unswept' = Ridden + Unswept /\ Ridden' >= Ridden
    BY <1>2, <1>3, <1>10, <1>11, <1>12 DEF Ridden
<1>14. ride.st # "open" => Unswept' = Unswept
    BY <1>3, <1>10, <1>12
<1>15. \/ track'[o] = NoRow
       \/ /\ track'[o].on = track[o].on
          /\ track[o].got <= track'[o].got /\ track'[o].got <= fill[o]
    BY <1>2, <1>7
<1> QED
    BY <1>7, <1>9, <1>13, <1>14, <1>15 DEF o

(* A fill is booked, and its row dropped once its order has ended.         *)
LEMMA Booked ==
    ASSUME Inv, NEW x \in Asks, AskOk(x), Misbooked(x, News(x)) = {},
           Book(x, News(x)), Drop(x) \/ Advance(x, News(x)),
           UNCHANGED <<plan, slip, fill, bought, parent, guard, net, base>>,
           ord' \in {ord, [ord EXCEPT ![x.rung] = IF @ = "working" THEN "cancelled" ELSE @]},
           track'[x.rung] = NoRow => ord'[x.rung] # "working",
           ord'[x.rung] # ord[x.rung] => track'[x.rung] = NoRow,
           proc' \in [Procs -> Parties],
           \A p \in Procs : /\ proc'[p].todo \subseteq proc[p].todo /\ proc'[p].step = proc[p].step
                            /\ proc'[p].n = proc[p].n /\ proc'[p].pend = proc[p].pend,
           sweep' \in {NoAsk, sweep}, faults' \in 0..MaxFaults
    PROVE  Inv'
<1>1. x.rung \in Rungs
    BY DEF Asks
<1>2. /\ track' \in Tracks /\ ride' \in [st : {"none", "open", "ended"}, qty : Nat] /\ ride'.st = ride.st
      /\ \A r \in Rungs \ {x.rung} : track'[r] = track[r]
      /\ \/ track'[x.rung] = NoRow
         \/ /\ track'[x.rung].on = track[x.rung].on
            /\ track[x.rung].got <= track'[x.rung].got /\ track'[x.rung].got <= fill[x.rung]
      /\ Ridden' + Unswept' = Ridden + Unswept /\ Ridden' >= Ridden
      /\ ride.st # "open" => ride' = ride /\ Unswept' = Unswept
    BY BookParts DEF Inv
<1>3. NoRow.on = "none" /\ NoRow.got = 0
    BY DEF NoRow
<1>4. /\ ord' \in [Rungs -> {"none", "working", "filled", "cancelled"}]
      /\ \A r \in Rungs : ord'[r] = ord[r] \/ (r = x.rung /\ ord[r] = "working" /\ ord'[r] = "cancelled")
    <2>1. ord \in [Rungs -> {"none", "working", "filled", "cancelled"}]
        BY DEF Inv, Types
    <2> QED
        BY <1>1, <2>1
<1>5. Types'
    BY <1>2, <1>4 DEF Inv, Types
<1>6. PlanOk' /\ RideOk' /\ EntryOk'
    BY <1>2, PlanFrame DEF Inv
<1>7. ProcOk' /\ OpenOk'
    <2>1. ProcOk'
        BY DEF Inv, ProcOk, Stopped, Pending, At, Procs
    <2>2. OpenOk'
        BY OpenFrame DEF Inv, Procs
    <2> QED
        BY <2>1, <2>2
<1>8. HandOverOk'
    <2>1. Own' = Own
        BY SumsAre
    <2> QED
        BY <1>2, <2>1 DEF Inv, HandOverOk, Procs
<1>9. RungsOk'
    <2> SUFFICES ASSUME NEW r \in Rungs PROVE RungOk(r)'
        BY DEF RungsOk
    <2>1. RungOk(r) /\ fill[r] \in Nat /\ Size[r[2]] \in Nat \ {0}
        BY Ranges DEF Inv, RungsOk, Types
    <2>2. Owned' = Owned /\ At("ladder")' = At("ladder")
        BY <1>2 DEF Owned, At, Pending
    <2>3. CASE r # x.rung
        <3>1. track'[r] = track[r] /\ ord'[r] = ord[r]
            BY <1>2, <1>4, <2>3
        <3> QED
            BY <2>1, <2>2, <3>1 DEF RungOk, Tracked
    <2>4. CASE r = x.rung /\ track'[r] = NoRow
        <3>1. slip[r] # "none" /\ ord'[r] # "working" /\ (ord'[r] = ord[r] \/ (ord[r] = "working" /\ ord'[r] = "cancelled"))
            BY <1>4, <2>4 DEF AskOk
        <3>2. ord[r] \in {"none", "working", "filled", "cancelled"} /\ track[r].on \in {"none", "marker", "ride"}
            BY DEF Inv, Types, Tracks
        <3> QED
            BY <1>3, <2>1, <2>2, <2>4, <3>1, <3>2 DEF RungOk, Tracked
    <2>5. CASE r = x.rung /\ track'[r] # NoRow
        <3>1. ord'[r] = ord[r] /\ track'[r].on = track[r].on /\ track'[r].got <= fill[r]
            BY <1>2, <2>5
        <3> QED
            BY <2>1, <2>2, <3>1 DEF RungOk, Tracked
    <2> QED
        BY <2>3, <2>4, <2>5
<1>10. LadderOk'
    <2> SUFFICES ASSUME proc["tick"].step = "ladder", NEW i \in Ladder, i < proc["tick"].n,
                        slip[<<plan.seq, i>>] = "none"
                 PROVE  ord'[<<plan.seq, i>>] = "none"
        BY DEF LadderOk, Procs
    <2>1. plan.seq \in Seqs
        BY RunMem, TickMem, StageNow DEF Inv, PlanOk, ProcOk, At
    <2>2. ord[<<plan.seq, i>>] = "none" /\ <<plan.seq, i>> \in Rungs
        BY <2>1, Ranges DEF Inv, LadderOk
    <2> QED
        BY <1>4, <2>2
<1>11. AsksOk'
    <2>1. ASSUME NEW y \in Asks, AskOk(y)
          PROVE  AskOk(y)'
        <3>1. y.rung \in Rungs /\ y.was \in Nat
            BY DEF Asks
        <3>2. Tracked(y.rung)' => Tracked(y.rung) /\ track[y.rung].got <= track'[y.rung].got
            <4>1. track[y.rung].got \in Nat /\ track'[y.rung].got \in Nat
                BY <1>2, <3>1 DEF Inv, Types, Tracks
            <4> QED
                BY <1>2, <1>3, <3>1, <4>1 DEF Tracked
        <3>3. track[y.rung].got \in Nat /\ track'[y.rung].got \in Nat
            BY <1>2, <3>1 DEF Inv, Types, Tracks
        <3> QED
            BY <2>1, <3>1, <3>2, <3>3 DEF AskOk
    <2>2. \A p \in Procs : proc[p].todo \subseteq Asks
        BY DEF Inv, Types, Parties
    <2> QED
        BY <2>1, <2>2 DEF Inv, Types, AsksOk
<1>12. LedgerOk'
    <2>1. Due' = Due
        BY <1>2, SumsAre DEF Due, Owned, EntryHeld, Stopped, ToDo
    <2>2. Free' = Free
        <3>1. Ridden \in Nat /\ Unswept \in Int /\ Ridden' \in Int /\ Unswept' \in Int /\ net \in Nat /\ base \in Nat
            <4>1. Sum(UnsweptOf(track', fill)) \in Int
                BY <1>2, SumTypes DEF Inv, Types
            <4> QED
                BY <1>2, <4>1, SumsNat, SumsAre DEF Inv, Types, Ridden
        <3>2. PICK n, e \in Nat : n = net /\ e = base
            BY <3>1
        <3>3. PICK a, b \in Int : a = Ridden /\ b = Unswept
            BY <3>1
        <3>4. PICK c, d \in Int : c = Ridden' /\ d = Unswept'
            BY <3>1
        <3>5. c + d = a + b
            BY <1>2, <3>3, <3>4
        <3>6. Free = n - a - b - e /\ Free' = n - c - d - e
            BY <1>2, <3>2, <3>3, <3>4 DEF Free
        <3>7. n \in Int /\ e \in Int /\ a \in Int /\ b \in Int /\ c \in Int /\ d \in Int
            BY <3>2, <3>3, <3>4
        <3>8. n - a - b - e = n - c - d - e
            BY <3>5, <3>7
        <3> QED
            BY <3>6, <3>8
    <2> QED
        BY <1>2, <2>1, <2>2 DEF Inv, LedgerOk, Stopped
<1>13. GuardOk'
    <2>1. Ridden \in Nat /\ Ridden' \in Nat /\ net \in Nat /\ base \in Nat /\ guard.qty \in Nat
        BY <1>2, SumsNat DEF Inv, Types, Ridden
    <2> QED
        BY <1>2, <2>1 DEF Inv, GuardOk, Guarded
<1> QED
    BY <1>5, <1>6, <1>7, <1>8, <1>9, <1>10, <1>11, <1>12, <1>13 DEF Inv

(* A rung that works and is on record is tracked.                          *)
LEMMA WorkingTracked ==
    ASSUME Types, RungsOk, NEW r \in Rungs, ord[r] = "working", slip[r] # "none"
    PROVE  Tracked(r) /\ slip[r] = "open"
<1>1. RungOk(r) /\ slip[r] \in {"none", "open", "filled", "cancelled"}
    BY DEF RungsOk, Types, Slips
<1> QED
    BY <1>1 DEF RungOk

LEMMA AdvanceTracked ==
    ASSUME Types, NEW x \in Asks, Tracked(x.rung), NEW n, Advance(x, n)
    PROVE  track'[x.rung] # NoRow
<1>1. x.rung \in Rungs /\ track \in Tracks /\ NoRow.on = "none"
    BY DEF Asks, Types, NoRow
<1>2. track'[x.rung].on = track[x.rung].on
    BY <1>1 DEF Advance, Tracks
<1> QED
    BY <1>1, <1>2 DEF Tracked

LEMMA SweepBooksStep == ASSUME Inv, SweepBooks, ways' = {} PROVE Inv'
<1>1. sweep \in Asks /\ AskOk(sweep) /\ sweep.rung \in Rungs
    BY DEF SweepBooks, Inv, Types, AsksOk, Asks
<1>2. Misbooked(sweep, News(sweep)) = {}
    BY DEF SweepBooks
<1>3. Book(sweep, News(sweep)) /\ (Drop(sweep) \/ Advance(sweep, News(sweep)))
    BY DEF SweepBooks
<1>4. track'[sweep.rung] = NoRow => ord[sweep.rung] # "working"
    <2> SUFFICES ASSUME ord[sweep.rung] = "working" PROVE track'[sweep.rung] # NoRow
        OBVIOUS
    <2>1. Tracked(sweep.rung)
        BY <1>1, WorkingTracked DEF AskOk, Inv
    <2>2. Advance(sweep, News(sweep))
        BY DEF SweepBooks
    <2> QED
        BY <1>1, <2>1, <2>2, AdvanceTracked DEF Inv
<1> QED
    BY <1>1, <1>2, <1>3, <1>4, Booked DEF SweepBooks, Inv, Types

\* A party is through with a rung.
Through(p, x) == [proc[p] EXCEPT !.todo = @ \ {x}]

LEMMA CancelParts ==
    ASSUME Inv, NEW p \in Procs, NEW x \in proc[p].todo, Becomes(p, Through(p, x))
    PROVE  /\ x \in Asks /\ AskOk(x) /\ x.rung \in Rungs
           /\ proc' \in [Procs -> Parties]
           /\ \A q \in Procs : /\ proc'[q].todo \subseteq proc[q].todo /\ proc'[q].step = proc[q].step
                               /\ proc'[q].n = proc[q].n /\ proc'[q].pend = proc[q].pend
<1>1. proc[p] \in Parties
    BY DEF Inv, Types
<1>2. x \in Asks /\ AskOk(x) /\ x.rung \in Rungs
    BY <1>1 DEF Parties, Asks, Inv, AsksOk
<1>3. /\ Through(p, x) \in Parties /\ Through(p, x).todo \subseteq proc[p].todo /\ Through(p, x).step = proc[p].step
      /\ Through(p, x).n = proc[p].n /\ Through(p, x).pend = proc[p].pend
    BY <1>1 DEF Through, Parties
<1>4. /\ proc' \in [Procs -> Parties] /\ proc'[p] = Through(p, x)
      /\ \A q \in Procs : q # p => proc'[q] = proc[q]
    BY <1>3, PartyStep DEF Inv, Types
<1> QED
    BY <1>2, <1>3, <1>4

LEMMA CancelRungStep ==
    ASSUME Inv, NEW p \in Procs, NEW x, CancelRung(p, x), ways' = {} PROVE Inv'
<1>1. x \in proc[p].todo /\ Becomes(p, Through(p, x))
    BY DEF CancelRung, Through
<1>2. /\ x \in Asks /\ AskOk(x) /\ x.rung \in Rungs
      /\ proc' \in [Procs -> Parties]
      /\ \A q \in Procs : /\ proc'[q].todo \subseteq proc[q].todo /\ proc'[q].step = proc[q].step
                          /\ proc'[q].n = proc[q].n /\ proc'[q].pend = proc[q].pend
    BY <1>1, CancelParts
<1>3. /\ Misbooked(x, News(x)) = {} /\ Book(x, News(x)) /\ Drop(x)
      /\ ord' = [ord EXCEPT ![x.rung] = IF @ = "working" THEN "cancelled" ELSE @]
      /\ UNCHANGED <<plan, slip, fill, bought, parent, guard, net, base, sweep, faults>>
    BY DEF CancelRung
<1>4. ord'[x.rung] # "working" /\ track'[x.rung] = NoRow
    BY <1>2, <1>3 DEF Drop, Inv, Types, Tracks
<1> QED
    BY <1>2, <1>3, <1>4, Booked DEF Inv, Types

LEMMA CancelUnreadStep ==
    ASSUME Inv, NEW p \in Procs, NEW x, CancelUnread(p, x), ways' = {} PROVE Inv'
<1>1. x \in proc[p].todo /\ Becomes(p, Through(p, x))
    BY DEF CancelUnread, Through
<1>2. /\ x \in Asks /\ AskOk(x) /\ x.rung \in Rungs
      /\ proc' \in [Procs -> Parties]
      /\ \A q \in Procs : /\ proc'[q].todo \subseteq proc[q].todo /\ proc'[q].step = proc[q].step
                          /\ proc'[q].n = proc[q].n /\ proc'[q].pend = proc[q].pend
    BY <1>1, CancelParts
<1>3. /\ Drop(x) /\ ord[x.rung] = "working" /\ ord' = [ord EXCEPT ![x.rung] = "cancelled"]
      /\ UNCHANGED <<plan, slip, fill, bought, ride, parent, guard, net, base, sweep>>
      /\ ~(News(x) > 0)
    BY DEF CancelUnread, Way, venue
<1>4. News(x) = 0
    <2>1. fill[x.rung] \in Nat /\ x.was \in Nat
        BY <1>2 DEF Inv, Types, Asks
    <2> QED
        BY <1>2, <1>3, <2>1 DEF News, AskOk
<1>5. Misbooked(x, News(x)) = {} /\ Book(x, News(x))
    <2>1. Misbooked(x, 0) = {}
        BY DEF Misbooked
    <2>2. [ride EXCEPT !.qty = @ + 0] = ride
        BY DEF Inv, Types
    <2> QED
        BY <1>3, <1>4, <2>1, <2>2 DEF Book
<1>6. ord' = [ord EXCEPT ![x.rung] = IF @ = "working" THEN "cancelled" ELSE @]
    BY <1>3
<1>7. ord'[x.rung] # "working" /\ track'[x.rung] = NoRow
    BY <1>2, <1>3 DEF Drop, Inv, Types, Tracks
<1> QED
    BY <1>2, <1>3, <1>5, <1>6, <1>7, Booked, FaultType DEF CancelUnread, Inv, Types

LEMMA CancelFailsStep ==
    ASSUME Inv, NEW p \in Procs, NEW x, CancelFails(p, x), ways' = {} PROVE Inv'
<1>1. x \in proc[p].todo /\ Becomes(p, Through(p, x))
    BY DEF CancelFails, Through
<1>2. /\ x \in Asks /\ AskOk(x) /\ x.rung \in Rungs
      /\ proc' \in [Procs -> Parties]
      /\ \A q \in Procs : /\ proc'[q].todo \subseteq proc[q].todo /\ proc'[q].step = proc[q].step
                          /\ proc'[q].n = proc[q].n /\ proc'[q].pend = proc[q].pend
    BY <1>1, CancelParts
<1>3. UNCHANGED <<plan, slip, ord, fill, bought, parent, guard, net, base, sweep>> /\ faults' \in 0..MaxFaults
    BY FaultType DEF CancelFails, Inv
<1>4. CASE /\ ord[x.rung] = "working" /\ Book(x, News(x)) /\ Advance(x, News(x))
           /\ ways' = ways \cup Misbooked(x, News(x))
    <2>1. Tracked(x.rung)
        BY <1>2, <1>4, WorkingTracked DEF AskOk, Inv
    <2>2. track'[x.rung] # NoRow /\ Misbooked(x, News(x)) = {}
        BY <1>2, <1>4, <2>1, AdvanceTracked DEF Inv
    <2> QED
        BY <1>2, <1>3, <1>4, <2>2, Booked
<1>5. CASE UNCHANGED <<ride, track, ways>>
    <2>1. UNCHANGED <<plan, rungs, venue>>
        BY <1>3, <1>5 DEF rungs, venue
    <2>2. ProcOk'
        BY <1>2, <1>3 DEF Inv, ProcOk, Stopped, Pending, At, Procs
    <2>3. Own' = Own
        BY <1>3, <1>5, SumsAre
    <2>4. HandOverOk' /\ LadderOk'
        BY <1>2, <1>3, <1>5, <2>3 DEF Inv, HandOverOk, LadderOk, Procs
    <2>5. AsksOk'
        BY <1>2, <1>3, <1>5, AsksFrame DEF Inv
    <2> QED
        BY <1>2, <1>3, <2>1, <2>2, <2>4, <2>5, PartiesAlone DEF Inv, Types, Procs
<1> QED
    BY <1>4, <1>5 DEF CancelFails

----------------------------------------------------------------------------
(* Rungs at the venue *)

(* While a ladder is placed, the plan rides by its row and no other way.   *)
LEMMA AtLadder ==
    ASSUME Inv, At("ladder")
    PROVE  /\ Pending /\ NextOf(plan.pend) = "ladder" /\ Decision(plan.pend, plan.phase) /\ ~Stopped
           /\ plan.seq \in Seqs /\ ~ToDo("handover") /\ EntryHeld = 0
           /\ Owned <=> plan.ride
           /\ ~Owned => ~plan.ended
           /\ plan.settle = "none" /\ guard.st = "none"
<1>1. Pending /\ NextOf(plan.pend) = "ladder" /\ Decision(plan.pend, plan.phase) /\ ~Stopped
    BY DEF At, Inv, PlanOk
<1>2. /\ plan.pend.next \in {"ladder", "armed", "riding"} /\ ~ToDo("handover")
      /\ plan.pend.next \in {"ladder", "armed"} => plan.phase = plan.pend.next
    BY <1>1, StageNow DEF Inv
<1>3. plan.seq \in Seqs
    BY <1>1, <1>2 DEF Inv, PlanOk
<1>4. plan.settle = "none" /\ guard.st = "none"
    BY <1>1 DEF Inv, PlanOk, GuardOk, Types, Rows, Stopped
<1>5. EntryHeld = 0
    BY <1>1, <1>2 DEF EntryHeld
<1>6. ride.st = "open" => plan.ride
    BY <1>1 DEF Inv, RideOk, At
<1>7. plan.pend.next = "riding" => plan.ride
    BY <1>1 DEF Inv, PlanOk, HandedTo
<1>8. plan.pend.next \in {"ladder", "armed"} => ~plan.ended
    BY <1>1, <1>2 DEF Inv, PlanOk
<1> QED
    BY <1>1, <1>2, <1>3, <1>4, <1>5, <1>6, <1>7, <1>8 DEF Owned

LEMMA RungLostStep == ASSUME Inv, RungLost PROVE Inv'
<1> DEFINE o == Rung
<1>1. At("ladder") /\ proc["tick"].step = "ladder" /\ ord[o] = "none" /\ o = <<plan.seq, proc["tick"].n>>
    BY DEF RungLost, Inv, ProcOk, Rung
<1>2. plan.seq \in Seqs /\ ~Stopped /\ guard.st = "none" /\ plan.settle = "none"
    BY <1>1, AtLadder
<1>3. o \in Rungs /\ o[1] = plan.seq
    BY <1>1, <1>2, Ranges DEF RungLost, Rung
<1>4. /\ UNCHANGED <<plan, slip, track, fill, bought, ride, parent, guard, net, base, sweep>>
      /\ ord' = [ord EXCEPT ![o] = "working"] /\ Ends("tick") /\ faults' \in 0..MaxFaults
    BY FaultType DEF RungLost, venue, Inv
<1> HIDE DEF o
<1>5. /\ proc' \in [Procs -> Parties] /\ proc'["tick"] = Idle
      /\ proc'["stop"] = proc["stop"] /\ proc'["floor"] = proc["floor"]
    BY <1>4, IdleType, PartyStep DEF Ends, Inv, Types, Procs
<1>6. Types'
    BY <1>3, <1>4, <1>5 DEF Inv, Types
<1>7. PlanOk' /\ RideOk' /\ EntryOk'
    BY <1>4, PlanFrame DEF Inv
<1>8. ProcOk'
    BY <1>2, <1>4, <1>5, IdleType DEF Inv, ProcOk, Stopped
<1>9. HandOverOk' /\ LadderOk'
    BY <1>5, IdleType DEF HandOverOk, LadderOk
<1>10. RungsOk'
    <2> SUFFICES ASSUME NEW r \in Rungs PROVE RungOk(r)'
        BY DEF RungsOk
    <2>1. RungOk(r) /\ fill[r] \in Nat /\ Size[r[2]] \in Nat \ {0} /\ slip[r] \in {"none", "open", "filled", "cancelled"}
        BY Ranges DEF Inv, RungsOk, Types, Slips
    <2>2. Owned' = Owned /\ At("ladder")' /\ Tracked(r)' = Tracked(r)
        BY <1>1, <1>4 DEF Owned, At, Pending, Tracked
    <2>3. CASE r = o
        <3>1. ord'[r] = "working"
            BY <1>3, <1>4, <2>3 DEF Inv, Types
        <3>2. fill[r] = 0 /\ slip[r] = "none" /\ ~Tracked(r)
            BY <1>1, <2>1, <2>3 DEF RungOk
        <3> QED
            BY <1>2, <1>3, <1>4, <2>1, <2>2, <2>3, <3>1, <3>2, Ranges DEF RungOk, Tracked
    <2>4. CASE r # o
        <3>1. ord'[r] = ord[r]
            BY <1>4, <2>4 DEF Inv, Types
        <3> QED
            BY <1>1, <1>4, <2>1, <2>2, <3>1 DEF RungOk, Tracked
    <2> QED
        BY <2>3, <2>4
<1>11. OpenOk'
    BY <1>4, <1>5, IdleType, OpenFrame DEF Inv
<1>12. AsksOk'
    BY <1>4, <1>5, IdleType DEF Inv, AsksOk, AskOk, Tracked, Procs
<1>13. LedgerOk' /\ GuardOk'
    BY <1>4, LedgerFrame, GuardFrame DEF Inv
<1> QED
    BY <1>6, <1>7, <1>8, <1>9, <1>10, <1>11, <1>12, <1>13 DEF Inv

LEMMA RungFillsStep == ASSUME Inv, NEW o \in Rungs, RungFills(o), ways' = {} PROVE Inv'
<1>1. /\ ord[o] = "working" /\ fill' = [fill EXCEPT ![o] = @ + 1]
      /\ ord' = [ord EXCEPT ![o] = IF fill'[o] = Size[o[2]] THEN "filled" ELSE @]
      /\ net' = net + 1
      /\ UNCHANGED <<plan, slip, track, bought, ride, parent, guard, base, proc, sweep, faults>>
      /\ (track[o].on = "ride" => ride.st = "open")
    BY DEF RungFills, Way
<1>2. /\ RungOk(o) /\ fill[o] \in Nat /\ Size[o[2]] \in Nat \ {0} /\ slip[o] \in {"none", "open", "filled", "cancelled"}
      /\ track[o].on \in {"none", "marker", "ride"} /\ track[o].got \in Nat
    BY Ranges DEF Inv, RungsOk, Types, Slips, Tracks
<1>3. /\ fill' \in [Rungs -> Nat] /\ fill'[o] = fill[o] + 1 /\ \A r \in Rungs \ {o} : fill'[r] = fill[r]
      /\ ord' \in [Rungs -> {"none", "working", "filled", "cancelled"}]
      /\ ord'[o] = (IF fill[o] + 1 = Size[o[2]] THEN "filled" ELSE "working") /\ \A r \in Rungs \ {o} : ord'[r] = ord[r]
    BY <1>1, <1>2 DEF Inv, Types
<1>4. \/ slip[o] = "none" /\ ~Tracked(o) /\ At("ladder") /\ o[1] = plan.seq
      \/ slip[o] = "open" /\ Tracked(o)
    BY <1>1, <1>2 DEF RungOk
<1>5. guard.st = "none"
    <2>1. CASE slip[o] = "none"
        BY <1>4, <2>1, AtLadder
    <2>2. CASE slip[o] = "open"
        BY <2>2 DEF Inv, OpenOk, Cleared, Types
    <2> QED
        BY <1>4, <2>1, <2>2
<1>6. ~At("handover")
    <2>1. CASE slip[o] = "none"
        BY <1>4, <2>1 DEF At
    <2>2. CASE slip[o] = "open"
        BY <2>2 DEF Inv, OpenOk, Cleared
    <2> QED
        BY <1>4, <2>1, <2>2
<1>7. proc["tick"].step # "protect" /\ plan.settle # "done"
    <2>1. CASE slip[o] = "none"
        BY <1>4, <2>1, AtLadder DEF Inv, ProcOk
    <2>2. CASE slip[o] = "open"
        BY <2>2 DEF Inv, OpenOk, Cleared, PlanOk
    <2> QED
        BY <1>4, <2>1, <2>2
<1>8. Types'
    BY <1>1, <1>3 DEF Inv, Types
<1>9. PlanOk' /\ RideOk' /\ EntryOk'
    BY <1>1, PlanFrame DEF Inv
<1>10. ProcOk'
    BY <1>1 DEF Inv, ProcOk, Stopped, Pending, At
<1>11. HandOverOk'
    BY <1>1, <1>6 DEF Inv, ProcOk, HandOverOk
<1>12. RungsOk'
    <2> SUFFICES ASSUME NEW r \in Rungs PROVE RungOk(r)'
        BY DEF RungsOk
    <2>1. RungOk(r) /\ Owned' = Owned /\ At("ladder")' = At("ladder") /\ Tracked(r)' = Tracked(r)
        BY <1>1 DEF Inv, RungsOk, Owned, At, Pending, Tracked
    <2>2. CASE r = o
        BY <1>1, <1>2, <1>3, <1>4, <2>1, <2>2 DEF RungOk, Tracked
    <2>3. CASE r # o
        <3>1. fill'[r] = fill[r] /\ ord'[r] = ord[r]
            BY <1>3, <2>3
        <3> QED
            BY <1>1, <2>1, <3>1 DEF RungOk, Tracked
    <2> QED
        BY <2>2, <2>3
<1>13. OpenOk'
    BY <1>1, <1>7 DEF Inv, OpenOk, Cleared, At, Pending
<1>14. LadderOk'
    <2> SUFFICES ASSUME proc["tick"].step = "ladder", NEW i \in Ladder, i < proc["tick"].n,
                        slip[<<plan.seq, i>>] = "none"
                 PROVE  ord'[<<plan.seq, i>>] = "none"
        BY <1>1 DEF LadderOk
    <2>1. ord[<<plan.seq, i>>] = "none"
        BY DEF Inv, LadderOk
    <2>2. <<plan.seq, i>> \in Rungs
        BY AtLadder, Ranges DEF Inv, ProcOk
    <2> QED
        BY <1>1, <1>3, <2>1, <2>2
<1>15. AsksOk'
    <2>1. ASSUME NEW y \in Asks, AskOk(y)
          PROVE  AskOk(y)'
        <3>1. y.rung \in Rungs /\ y.was \in Nat /\ fill[y.rung] \in Nat /\ fill'[y.rung] \in Nat
            BY <1>3 DEF Asks, Inv, Types
        <3>2. fill'[y.rung] >= fill[y.rung]
            BY <1>2, <1>3, <3>1
        <3> QED
            BY <1>1, <2>1, <3>1, <3>2 DEF AskOk, Tracked
    <2>2. \A p \in Procs : proc[p].todo \subseteq Asks
        BY DEF Inv, Types, Parties
    <2> QED
        BY <1>1, <2>1, <2>2 DEF Inv, Types, AsksOk
<1>16. LedgerOk'
    <2>1. /\ Unswept' = Unswept + (IF track[o].on = "ride" THEN 1 ELSE 0)
          /\ Lost' = Lost + (IF slip[o] = "none" THEN 1 ELSE 0)
          /\ Sum(fill') = Sum(fill) + 1
        <3>1. Unseen(track, fill', o) - Unseen(track, fill, o) = IF track[o].on = "ride" THEN 1 ELSE 0
            BY <1>2, <1>3 DEF Unseen
        <3>2. Rowless(slip, fill', o) - Rowless(slip, fill, o) = IF slip[o] = "none" THEN 1 ELSE 0
            BY <1>2, <1>3 DEF Rowless
        <3>3. Sum(UnsweptOf(track, fill')) = Sum(UnsweptOf(track, fill)) + Unseen(track, fill', o) - Unseen(track, fill, o)
            BY <1>3, UnsweptChange DEF Inv, Types
        <3>4. Sum(LostOf(slip, fill')) = Sum(LostOf(slip, fill)) + Rowless(slip, fill', o) - Rowless(slip, fill, o)
            BY <1>3, LostChange DEF Inv, Types
        <3>5. Sum(fill') = Sum(fill) + fill'[o] - fill[o]
            BY <1>3, FillChange DEF Inv, Types
        <3>6. Sum(fill) \in Nat /\ Unswept \in Int /\ Lost \in Nat
            BY SumsNat DEF Inv
        <3>7. Unseen(track, fill', o) \in Int /\ Unseen(track, fill, o) \in Int /\ Rowless(slip, fill', o) \in Int /\ Rowless(slip, fill, o) \in Int
            BY <1>2, <1>3 DEF Unseen, Rowless
        <3> QED
            BY <1>1, <1>2, <1>3, <3>1, <3>2, <3>3, <3>4, <3>5, <3>6, <3>7, SumsAre
    <2>2. Ridden' = Ridden /\ Owned' = Owned /\ EntryHeld' = EntryHeld /\ Stopped' = Stopped
        BY <1>1 DEF Ridden, Owned, EntryHeld, Stopped, ToDo
    <2>3. Ridden \in Nat /\ Unswept \in Int /\ Lost \in Nat /\ Sum(fill) \in Nat /\ EntryHeld \in {0, 1} /\ net \in Nat /\ base \in Nat
        BY SumsNat DEF Inv, Types, EntryHeld, Rows
    <2>4. \/ track[o].on = "ride" /\ slip[o] = "open" /\ Owned
          \/ track[o].on # "ride" /\ slip[o] = "none" /\ (~Owned => ~plan.ended)
          \/ track[o].on # "ride" /\ slip[o] = "open" /\ ~Owned /\ ~plan.ended
        <3>1. CASE slip[o] = "none"
            BY <1>4, <3>1, AtLadder DEF Tracked
        <3>2. CASE slip[o] = "open"
            BY <1>2, <1>4, <3>2 DEF RungOk, Tracked, Owned
        <3> QED
            BY <1>4, <3>1, <3>2
    <2>5. Free' - Free = (IF track[o].on = "ride" THEN 0 ELSE 1) /\ Free \in Int /\ Free' \in Int
        BY <1>1, <2>1, <2>2, <2>3 DEF Free
    <2>6. Due' - Due = (IF track[o].on = "ride" THEN 0 ELSE 1) /\ Due \in Int /\ Due' \in Int
        <3>1. plan.ended \in BOOLEAN /\ plan'.ended = plan.ended
            BY <1>1 DEF Inv, Types, Rows
        <3>2. CASE Owned
            BY <2>1, <2>2, <2>3, <2>4, <3>2 DEF Due
        <3>3. CASE ~Owned
            BY <2>1, <2>2, <2>3, <2>4, <3>1, <3>3 DEF Due
        <3> QED
            BY <3>2, <3>3
    <2>7. ride.st # "open" => Unswept' = 0
        BY <1>1, <2>1, <2>3 DEF Inv, LedgerOk
    <2>8. Free' - Free = Due' - Due /\ Free \in Int /\ Free' \in Int /\ Due \in Int /\ Due' \in Int
        <3>1. CASE track[o].on = "ride"
            BY <2>5, <2>6, <3>1
        <3>2. CASE track[o].on # "ride"
            BY <2>5, <2>6, <3>2
        <3> QED
            BY <3>1, <3>2
    <2> QED
        <3>1. Free <= Due /\ (Stopped \/ Free = Due \/ (base = 0 /\ parent = 0 /\ ride.st # "open"))
            BY DEF Inv, LedgerOk
        <3>2. Free' <= Due' /\ (Free = Due => Free' = Due')
            BY <2>8, <3>1
        <3>3. Stopped' \/ Free' = Due' \/ (base' = 0 /\ parent' = 0 /\ ride'.st # "open")
            BY <1>1, <2>2, <3>1, <3>2
        <3>4. ride'.st # "open" => Unswept' = 0
            BY <1>1, <2>7
        <3> QED
            BY <3>2, <3>3, <3>4 DEF LedgerOk
<1>17. GuardOk'
    <2>1. plan.stop = "none"
        BY <1>7 DEF Inv, PlanOk, Types, Rows
    <2> QED
        BY <1>1, <1>5, <1>7, <2>1 DEF GuardOk
<1> QED
    BY <1>8, <1>9, <1>10, <1>11, <1>12, <1>13, <1>14, <1>15, <1>16, <1>17 DEF Inv

(* A rung is placed, or found at the venue, and its answer booked.         *)
LEMMA PlaceRungStep == ASSUME Inv, NEW k, PlaceRung(k), ways' = {} PROVE Inv'
<1> DEFINE o == Rung
           filled == ord'[o] = "filled"
           new == ~filled /\ ~Tracked(o)
           r == [proc["tick"] EXCEPT !.n = @ + 1]
<1>1. At("ladder") /\ proc["tick"].step = "ladder" /\ o = <<plan.seq, proc["tick"].n>>
    BY DEF PlaceRung, Inv, ProcOk, Rung
<1>2. /\ Pending /\ NextOf(plan.pend) = "ladder" /\ ~Stopped /\ plan.seq \in Seqs /\ EntryHeld = 0
      /\ (Owned <=> plan.ride) /\ (~Owned => ~plan.ended) /\ plan.settle = "none" /\ guard.st = "none"
    BY <1>1, AtLadder
<1>3. o \in Rungs /\ o[1] = plan.seq /\ o[2] = proc["tick"].n
    BY <1>1, <1>2, Ranges DEF PlaceRung, Rung
<1>4. /\ RungOk(o) /\ fill[o] \in Nat /\ Size[o[2]] \in Nat \ {0} /\ slip[o] \in {"none", "open", "filled", "cancelled"}
      /\ track[o].on \in {"none", "marker", "ride"} /\ track[o].got \in Nat
      /\ ord[o] \in {"none", "working", "filled", "cancelled"} /\ plan.ride \in BOOLEAN
    BY <1>3, Ranges DEF Inv, RungsOk, Types, Slips, Tracks, Rows
<1>5. /\ Reply(k)
      /\ slip' = [slip EXCEPT ![o] = IF filled THEN "filled" ELSE "open"]
      /\ track' = IF new THEN [track EXCEPT ![o] = [on |-> RungOn, got |-> k]] ELSE track
      /\ ride' = IF filled /\ plan.ride THEN [ride EXCEPT !.qty = @ + k] ELSE ride
      /\ UNCHANGED <<plan, bought, parent, guard, base, sweep, faults>>
      /\ Becomes("tick", r)
    BY DEF PlaceRung, NextRung
<1>6. /\ filled /\ plan.ride => slip[o] = "none" /\ ride.st = "open"
      /\ new /\ plan.ride => ~(k > 0)
      /\ ord[o] = "cancelled" => ~(fill[o] > 0)
    BY DEF PlaceRung, Way
<1> HIDE DEF o
<1>7. r \in Parties /\ r.step = "ladder" /\ r.n = proc["tick"].n + 1 /\ r.todo = proc["tick"].todo /\ r.pend = Mem
    BY <1>1, TickTypes DEF Parties, Inv, Mem
<1>8. proc["tick"].n \in Nat /\ proc["tick"].n >= 1
    BY <1>1, TickTypes DEF Inv, Parties, ProcOk
<1> HIDE DEF r
\* The reply: what the order filled, and what of it is new to the position.
<1>9. /\ k \in Nat /\ k <= Size[o[2]]
      /\ fill' \in [Rungs -> Nat] /\ fill'[o] = k /\ \A q \in Rungs \ {o} : fill'[q] = fill[q]
      /\ ord' \in [Rungs -> {"none", "working", "filled", "cancelled"}] /\ \A q \in Rungs \ {o} : ord'[q] = ord[q]
      /\ ord'[o] \in {"working", "filled"} /\ (ord'[o] = "filled" <=> k = Size[o[2]])
      /\ net' = net + k - fill[o] /\ net' \in Nat /\ k >= fill[o]
      /\ Tracked(o) => k = fill[o] /\ ord'[o] = ord[o]
    <2>1. CASE ord[o] \in {"none", "cancelled"}
        <3>1. /\ k \in 0..Size[o[2]]
              /\ ord' = [ord EXCEPT ![o] = IF k = Size[o[2]] THEN "filled" ELSE "working"]
              /\ fill' = [fill EXCEPT ![o] = k]
              /\ net' = net + k
            BY <1>5, <2>1 DEF Reply, o
        <3>2. fill[o] = 0 /\ ~Tracked(o)
            BY <1>4, <1>6, <2>1 DEF RungOk
        <3> QED
            BY <1>3, <1>4, <3>1, <3>2 DEF Inv, Types
    <2>2. CASE ord[o] \notin {"none", "cancelled"}
        <3>1. k = fill[o] /\ UNCHANGED <<ord, fill, net>>
            BY <1>5, <2>2 DEF Reply, o
        <3> QED
            BY <1>3, <1>4, <2>2, <3>1 DEF Inv, Types, RungOk
    <2> QED
        BY <2>1, <2>2
<1>10. /\ slip' \in Slips /\ slip'[o] = (IF filled THEN "filled" ELSE "open") /\ \A q \in Rungs \ {o} : slip'[q] = slip[q]
    BY <1>3, <1>5 DEF Inv, Types, Slips
<1>11. /\ track' \in Tracks /\ \A q \in Rungs \ {o} : track'[q] = track[q]
       /\ new => track'[o].on = (IF plan.ride THEN "ride" ELSE "marker") /\ track'[o].got = k
       /\ ~new => track'[o] = track[o]
    <2>1. RungOn \in {"none", "marker", "ride"} /\ RungOn = (IF plan.ride THEN "ride" ELSE "marker")
        BY <1>4 DEF RungOn
    <2> HIDE DEF new
    <2> QED
        BY <1>3, <1>5, <1>9, <2>1 DEF Inv, Types, Tracks
<1>12. /\ ride' \in [st : {"none", "open", "ended"}, qty : Nat] /\ ride'.st = ride.st
       /\ ride'.qty = ride.qty + (IF filled /\ plan.ride THEN k ELSE 0)
       /\ ride \in [st : {"none", "open", "ended"}, qty : Nat]
    BY <1>5, <1>9 DEF Inv, Types
<1>13. /\ proc' \in [Procs -> Parties] /\ proc'["tick"] = r
       /\ proc'["stop"] = proc["stop"] /\ proc'["floor"] = proc["floor"]
    BY <1>5, <1>7, PartyStep DEF Inv, Types, Procs
\* How the rung stands after it.
<1>14. \/ /\ ord'[o] = "filled" /\ slip'[o] = "filled" /\ track'[o] = track[o] /\ track[o].on # "ride"
          /\ plan.ride => slip[o] = "none" /\ ride.st = "open" /\ ~Tracked(o)
       \/ /\ ord'[o] = "working" /\ slip'[o] = "open" /\ ~Tracked(o)
          /\ track'[o].on = (IF plan.ride THEN "ride" ELSE "marker") /\ track'[o].got = k
          /\ plan.ride => k = 0
       \/ /\ ord'[o] = "working" /\ slip'[o] = "open" /\ Tracked(o) /\ slip[o] = "open"
          /\ track'[o] = track[o] /\ k = fill[o]
    <2>1. CASE filled
        <3>1. track[o].on = "ride" => plan.ride /\ slip[o] = "open"
            BY <1>4 DEF RungOk
        <3>2. slip[o] = "none" => ~Tracked(o)
            BY <1>4 DEF RungOk
        <3> QED
            BY <1>6, <1>10, <1>11, <2>1, <3>1, <3>2
    <2>2. CASE new
        BY <1>6, <1>9, <1>10, <1>11, <2>2
    <2>3. CASE ~filled /\ Tracked(o)
        <3>1. slip[o] = "open"
            BY <1>4, <1>9, <2>3 DEF RungOk
        <3> QED
            BY <1>9, <1>10, <1>11, <2>3, <3>1
    <2> QED
        BY <2>1, <2>2, <2>3
<1> HIDE DEF new
<1>15. Types'
    BY <1>5, <1>9, <1>10, <1>11, <1>12, <1>13 DEF Inv, Types
<1>16. PlanOk' /\ RideOk' /\ EntryOk'
    BY <1>5, <1>12, PlanFrame DEF Inv
<1>17. ProcOk'
    BY <1>1, <1>2, <1>5, <1>7, <1>8, <1>13 DEF Inv, ProcOk, Stopped, Pending, At, Mem
<1>18. HandOverOk'
    BY <1>7, <1>13 DEF HandOverOk
<1>19. RungsOk'
    <2> SUFFICES ASSUME NEW q \in Rungs PROVE RungOk(q)'
        BY DEF RungsOk
    <2>1. RungOk(q) /\ Owned' = Owned /\ At("ladder")' /\ plan.seq \in Nat
        BY <1>1, <1>2, <1>5, <1>12, Ranges DEF Inv, RungsOk, Owned, At, Pending
    <2>2. CASE q = o
        <3>1. ord'[q] # "none" /\ (ord'[q] = "filled" <=> fill'[q] = Size[q[2]]) /\ fill'[q] <= Size[q[2]] /\ q[1] = plan'.seq
              /\ fill'[q] = k /\ k \in Nat /\ Size[q[2]] > 0 /\ fill[q] \in Nat /\ track[q].got \in Nat
            BY <1>3, <1>4, <1>5, <1>9, <2>2
        <3>2. CASE ord'[q] = "filled"
            <4>1. slip'[q] = "filled" /\ track'[q] = track[q] /\ track[q].on # "ride"
                BY <1>14, <2>2, <3>2
            <4>2. track'[q].got <= fill'[q]
                BY <1>9, <2>1, <2>2, <3>1, <4>1 DEF RungOk
            <4>3. ~(q[1] > plan'.seq) /\ fill'[q] > 0 /\ slip'[q] \notin {"none", "open", "cancelled"}
                BY <1>5, <2>1, <3>1, <3>2, <4>1
            <4>4. track'[q].on # "ride" /\ ord'[q] \in {"working", "filled"} /\ slip'[q] \in {"open", "filled"}
                BY <3>2, <4>1
            <4> QED
                BY <3>1, <3>2, <4>1, <4>2, <4>3, <4>4 DEF RungOk, Tracked
        <3>3. CASE ord'[q] = "working"
            <4>1. slip'[q] = "open"
                BY <1>14, <2>2, <3>3
            <4>2. CASE ~Tracked(q)
                <5>1. track'[q].on = (IF plan.ride THEN "ride" ELSE "marker") /\ track'[q].got = k
                    BY <1>14, <2>2, <3>3, <4>2
                <5> QED
                    BY <1>2, <1>4, <1>5, <2>1, <3>1, <3>3, <4>1, <5>1 DEF RungOk, Tracked
            <4>3. CASE Tracked(q)
                <5>1. slip[q] = "open" /\ track'[q] = track[q] /\ k = fill[q]
                    BY <1>14, <2>2, <3>3, <4>3
                <5> QED
                    BY <1>5, <2>1, <3>1, <3>3, <4>1, <4>3, <5>1 DEF RungOk, Tracked
            <4> QED
                BY <4>2, <4>3
        <3> QED
            BY <1>9, <2>2, <3>2, <3>3
    <2>3. CASE q # o
        <3>1. slip'[q] = slip[q] /\ track'[q] = track[q] /\ ord'[q] = ord[q] /\ fill'[q] = fill[q]
            BY <1>9, <1>10, <1>11, <2>3
        <3> QED
            BY <1>1, <1>5, <2>1, <3>1 DEF RungOk, Tracked
    <2> QED
        BY <2>2, <2>3
<1>20. OpenOk'
    <2>1. ~Cleared' /\ ~Stopped'
        BY <1>2, <1>5, <1>7, <1>13 DEF Cleared, At, Pending, Stopped
    <2> QED
        BY <1>7, <1>13, <2>1 DEF OpenOk, Stopped
<1>21. LadderOk'
    <2> SUFFICES ASSUME NEW i \in Ladder, i < proc["tick"].n + 1, slip'[<<plan.seq, i>>] = "none"
                 PROVE  ord'[<<plan.seq, i>>] = "none"
        BY <1>5, <1>7, <1>13 DEF LadderOk
    <2>1. <<plan.seq, i>> \in Rungs /\ i \in Nat /\ <<plan.seq, i>>[2] = i
        BY <1>2, Ranges
    <2>2. <<plan.seq, i>> # o
        BY <1>10
    <2>3. i < proc["tick"].n
        BY <1>1, <1>8, <2>1, <2>2
    <2>4. ord[<<plan.seq, i>>] = "none"
        BY <1>1, <1>10, <2>1, <2>2, <2>3 DEF Inv, LadderOk
    <2> QED
        BY <1>9, <2>1, <2>2, <2>4
<1>22. AsksOk'
    <2>1. ASSUME NEW y \in Asks, AskOk(y)
          PROVE  AskOk(y)'
        <3>1. y.rung \in Rungs /\ y.was \in Nat
            BY DEF Asks
        <3>2. CASE y.rung = o
            <4>1. y.was <= k
                BY <1>4, <1>9, <2>1, <3>1, <3>2 DEF AskOk
            <4>2. track'[o].on # "none" => y.was <= track'[o].got
                <5>1. track[o].on # "none" => y.was <= track[o].got
                    BY <2>1, <3>2 DEF AskOk, Tracked
                <5> QED
                    BY <1>14, <4>1, <5>1 DEF Tracked
            <4>3. fill'[o] = k /\ slip'[o] # "none"
                BY <1>9, <1>10
            <4> QED
                BY <3>2, <4>1, <4>2, <4>3 DEF AskOk, Tracked
        <3>3. CASE y.rung # o
            BY <1>9, <1>10, <1>11, <2>1, <3>1, <3>3 DEF AskOk, Tracked
        <3> QED
            BY <3>2, <3>3
    <2>2. \A p \in Procs : proc[p].todo \subseteq Asks
        BY DEF Inv, Types, Parties
    <2>3. \A p \in Procs : proc'[p].todo \subseteq proc[p].todo
        BY <1>7, <1>13 DEF Procs
    <2> QED
        BY <1>5, <2>1, <2>2, <2>3 DEF Inv, Types, AsksOk
<1>23. LedgerOk'
    <2>1. Unswept \in Int /\ Lost \in Nat /\ Sum(fill) \in Nat /\ Ridden \in Nat /\ net \in Nat /\ base \in Nat
        BY SumsNat DEF Inv, Types
    <2>2. /\ Unswept' = Unswept + Unseen(track', fill', o) - Unseen(track, fill, o)
          /\ Lost' = Lost + Rowless(slip', fill', o) - Rowless(slip, fill, o)
          /\ Sum(fill') = Sum(fill) + k - fill[o]
        <3>1. Sum(UnsweptOf(track', fill')) = Sum(UnsweptOf(track, fill)) + Unseen(track', fill', o) - Unseen(track, fill, o)
            BY <1>3, <1>9, <1>11, UnsweptChange DEF Inv, Types
        <3>2. Sum(LostOf(slip', fill')) = Sum(LostOf(slip, fill)) + Rowless(slip', fill', o) - Rowless(slip, fill, o)
            BY <1>3, <1>9, <1>10, LostChange DEF Inv, Types
        <3>3. Sum(fill') = Sum(fill) + fill'[o] - fill[o]
            BY <1>3, <1>9, FillChange DEF Inv, Types
        <3> QED
            BY <1>9, <3>1, <3>2, <3>3, SumsAre
    <2>3. Unseen(track', fill', o) = Unseen(track, fill, o) /\ Unseen(track, fill, o) \in Int
        <3>1. Unseen(track, fill, o) \in Int
            BY <1>4 DEF Unseen
        <3>2. CASE Tracked(o)
            BY <1>9, <1>14, <3>1, <3>2 DEF Unseen
        <3>3. CASE ~Tracked(o)
            <4>1. Unseen(track, fill, o) = 0
                BY <3>3 DEF Unseen, Tracked
            <4>2. Unseen(track', fill', o) = 0
                BY <1>9, <1>14, <3>3 DEF Unseen, Tracked
            <4> QED
                BY <4>1, <4>2
        <3> QED
            BY <3>2, <3>3
    <2>4. Owned' = Owned /\ EntryHeld' = 0 /\ ~Stopped' /\ plan'.ended = plan.ended /\ base' = base /\ parent' = parent
        BY <1>2, <1>5, <1>12 DEF Owned, EntryHeld, Stopped, ToDo
    <2>5. Rowless(slip', fill', o) = 0
        BY <1>14 DEF Rowless
    <2>6. CASE plan.ride
        <3>1. Due = Lost /\ Due' = Lost'
            BY <1>2, <2>4, <2>6 DEF Due
        <3>2. CASE ord'[o] = "filled"
            <4>1. slip[o] = "none" /\ ride.st = "open" /\ Rowless(slip, fill, o) = fill[o]
                BY <1>14, <2>6, <3>2 DEF Rowless
            <4>2. Ridden' = Ridden + k
                BY <1>5, <1>9, <1>12, <2>6, <3>2, <4>1 DEF Ridden, Inv, Types
            <4>3. Free' = Free - fill[o] /\ Due' = Due - fill[o] /\ Free \in Int /\ Due \in Int
                BY <1>4, <1>9, <2>1, <2>2, <2>3, <2>4, <2>5, <3>1, <4>1, <4>2 DEF Free
            <4> QED
                BY <1>2, <1>4, <1>12, <2>4, <4>1, <4>3 DEF Inv, LedgerOk
        <3>3. CASE ord'[o] = "working"
            <4>1. k = fill[o] /\ (slip[o] = "none" => fill[o] = 0)
                BY <1>4, <1>9, <1>14, <2>6, <3>3
            <4>2. Rowless(slip, fill, o) = 0
                BY <4>1 DEF Rowless
            <4>3. Ridden' = Ridden
                BY <1>5, <3>3 DEF Ridden
            <4>4. Free' = Free /\ Due' = Due /\ Unswept' = Unswept
                BY <1>4, <1>9, <2>1, <2>2, <2>3, <2>4, <2>5, <3>1, <4>1, <4>2, <4>3 DEF Free
            <4> QED
                BY <1>2, <1>12, <2>4, <4>4 DEF Inv, LedgerOk
        <3> QED
            BY <1>9, <3>2, <3>3
    <2>7. CASE ~plan.ride
        <3>1. Due = Sum(fill) /\ Due' = Sum(fill')
            BY <1>2, <2>1, <2>2, <2>4, <2>7, <1>4, <1>9 DEF Due
        <3>2. Ridden' = Ridden
            BY <1>5, <2>7 DEF Ridden
        <3>3. Free' - Free = k - fill[o] /\ Due' - Due = k - fill[o] /\ Unswept' = Unswept
              /\ Free \in Int /\ Due \in Int /\ Free' \in Int /\ Due' \in Int
            BY <1>4, <1>9, <2>1, <2>2, <2>3, <2>4, <3>1, <3>2 DEF Free
        <3> QED
            BY <1>2, <1>4, <1>9, <1>12, <2>4, <3>3 DEF Inv, LedgerOk
    <2> QED
        BY <1>4, <2>6, <2>7
<1>24. GuardOk'
    <2>1. plan.stop = "none"
        BY <1>2 DEF Inv, PlanOk, Types, Rows
    <2> QED
        BY <1>2, <1>5, <2>1 DEF GuardOk
<1> QED
    BY <1>15, <1>16, <1>17, <1>18, <1>19, <1>20, <1>21, <1>22, <1>23, <1>24 DEF Inv

----------------------------------------------------------------------------
(* Venue and user: positions end *)

LEMMA DueNat ==
    ASSUME Types
    PROVE  Due \in Nat /\ Lost \in Nat /\ Unswept \in Int /\ net \in Nat /\ base \in Nat /\ parent \in Nat
<1>1. Lost \in Nat /\ Sum(fill) \in Nat /\ Unswept \in Int
    BY SumsNat
<1>2. plan.entry \in Nat
    BY DEF Types, Rows
<1>3. EntryHeld \in Nat
    BY <1>2 DEF EntryHeld
<1>4. Due \in Nat
    <2>1. (IF plan.ended THEN 0 ELSE Sum(fill)) \in Nat
        BY <1>1
    <2> QED
        BY <1>1, <1>3, <2>1 DEF Due
<1> QED
    BY <1>1, <1>4 DEF Types

\* Nothing but a position, and who holds it, changes.
LEMMA PositionAlone ==
    ASSUME Inv, UNCHANGED <<plan, rungs, bought, proc, sweep, faults>>,
           ride' \in [st : {"none", "open", "ended"}, qty : Nat], net' \in Nat, base' \in Nat, parent' \in Nat,
           guard' \in [st : {"none", "working", "filled", "cancelled"}, qty : Nat],
           ride'.st = ride.st \/ (plan.ride /\ ride'.st # "open"), guard.st = "none" <=> guard'.st = "none",
           HandOverOk', LedgerOk', GuardOk'
    PROVE  Inv'
<1>1. UNCHANGED <<plan, slip, track, ord, fill, bought, proc, sweep, faults>>
    BY DEF rungs
<1>2. Types'
    BY <1>1 DEF Inv, Types
<1>3. PlanOk' /\ EntryOk' /\ ProcOk'
    BY <1>1 DEF Inv, PlanOk, EntryOk, ProcOk, Stopped, Pending, HandedTo, Bought, At, ToDo
<1>4. RideOk'
    BY <1>1 DEF Inv, RideOk, At, Pending
<1>5. RungsOk'
    <2>1. Owned' = Owned
        BY <1>1 DEF Owned
    <2>2. At("ladder")' = At("ladder")
        BY <1>1 DEF At, Pending
    <2> SUFFICES ASSUME NEW q \in Rungs PROVE RungOk(q)'
        BY DEF RungsOk
    <2>3. RungOk(q)
        BY DEF Inv, RungsOk
    <2> QED
        BY <1>1, <2>1, <2>2, <2>3 DEF RungOk, Tracked
<1>6. OpenOk'
    <2>1. Cleared' = Cleared
        BY <1>1 DEF Cleared, At, Pending
    <2> QED
        BY <1>1, <2>1 DEF Inv, OpenOk
<1>7. LadderOk' /\ AsksOk'
    BY <1>1, LadderFrame, AsksFrame DEF Inv
<1> QED
    BY <1>2, <1>3, <1>4, <1>5, <1>6, <1>7 DEF Inv

(* No hand-over under way, no tick at one.                                 *)
LEMMA NoHandOver ==
    ASSUME Inv, ~ToDo("handover")
    PROVE  proc["tick"].step \notin {"handover", "handed"} /\ ~At("handover")
<1>1. ~At("handover")
    <2> SUFFICES ASSUME At("handover") PROVE FALSE
        OBVIOUS
    <2>1. Decision(plan.pend, plan.phase)
        BY DEF Inv, PlanOk, At
    <2>2. plan.pend.next = "riding"
        BY <2>1, StageNow DEF Inv, At
    <2> QED
        BY <2>1, <2>2, StageNow DEF Inv, At
<1> QED
    BY <1>1 DEF Inv, ProcOk

LEMMA LessLess == \A a, b, c \in Nat : c <= a => c - b <= a - b
OBVIOUS

\* What is left of the position after a reduce-only order.
LEMMA LeftIs ==
    ASSUME net \in Nat, NEW n \in Nat
    PROVE  Left(n) \in Nat /\ Left(n) <= net /\ (Left(n) = net - n \/ (Left(n) = 0 /\ net <= n))
BY DEF Left

(* The ride's stop takes out what it was sized to.                         *)
LEMMA RideEndsStep == ASSUME Inv, RideEnds, ways' = {} PROVE Inv'
<1>1. /\ ride.st = "open" /\ net' = Left(ride.qty) /\ ride' = [st |-> "ended", qty |-> 0]
      /\ UNCHANGED <<plan, rungs, bought, parent, guard, base, proc, sweep, faults>>
      /\ ~(Unswept > 0) /\ ~ToDo("handover")
    BY DEF RideEnds, Way
<1>2. ride.qty \in Nat /\ ride'.st = "ended" /\ ride'.qty = 0
    BY <1>1, TickTypes DEF Inv
<1>3. Due \in Nat /\ Unswept \in Int /\ net \in Nat /\ base \in Nat /\ parent \in Nat
    BY DueNat DEF Inv
<1>4. /\ net' \in Nat
      /\ net' = net - ride.qty \/ (net' = 0 /\ net <= ride.qty)
    BY <1>1, <1>2, <1>3, LeftIs
<1>5. Unswept = 0
    <2>1. Unswept \in Nat
        <3>1. \A r \in Rungs : track[r].got <= fill[r]
            BY DEF Inv, RungsOk, RungOk
        <3> QED
            BY <3>1, SumTypes, SumsAre DEF Inv, Types
    <2> QED
        BY <1>1, <2>1
<1>6. plan.ride /\ Owned /\ Owned' /\ ~At("handover")
    BY <1>1, NoHandOver DEF Inv, RideOk, Owned
<1>7. guard.st = "none"
    BY <1>1 DEF Inv, GuardOk
<1>8. Ridden = parent + ride.qty /\ Ridden' = parent
    BY <1>1, <1>2, <1>3 DEF Ridden
<1>9. Unswept' = 0 /\ Due' = Due /\ Due = Lost /\ Stopped' = Stopped
    <2>1. Lost' = Lost /\ Unswept' = Unswept
        BY <1>1, SumsAre DEF rungs
    <2> QED
        BY <1>1, <1>5, <1>6, <2>1 DEF Due, Stopped
<1>10. Free = net - parent - ride.qty - base /\ Free' = net' - parent - base
    BY <1>1, <1>2, <1>3, <1>4, <1>5, <1>8, <1>9 DEF Free
<1>11. LedgerOk'
    <2>1. Free <= Due /\ (Stopped \/ Free = Due)
        BY <1>1 DEF Inv, LedgerOk
    <2>2. CASE net' = net - ride.qty
        <3>1. Free' = Free
            BY <1>2, <1>3, <1>10, <2>2
        <3> QED
            BY <1>2, <1>9, <2>1, <3>1 DEF LedgerOk
    <2>3. CASE net' = 0 /\ net <= ride.qty
        <3>1. Free' <= Due'
            BY <1>2, <1>3, <1>9, <1>10, <2>3
        <3>2. Free = Due => base = 0 /\ parent = 0
            BY <1>2, <1>3, <1>10, <2>3
        <3> QED
            BY <1>1, <1>2, <1>9, <2>1, <3>1, <3>2 DEF LedgerOk
    <2> QED
        BY <1>4, <2>2, <2>3
<1>12. GuardOk'
    <2>1. Guarded = Ridden /\ Guarded' = Ridden'
        BY <1>1, <1>7, <1>8, <1>2, <1>3 DEF Guarded
    <2>2. /\ plan.stop = "orphan" => net <= Ridden
          /\ plan.settle = "done" => net - base <= Guarded
        BY DEF Inv, GuardOk
    <2>3. /\ plan.stop = "orphan" => net' <= Ridden'
          /\ plan.settle = "done" => net' - base <= Guarded'
        <3>1. CASE net' = net - ride.qty
            BY <1>2, <1>3, <1>8, <2>1, <2>2, <3>1
        <3>2. CASE net' = 0
            BY <1>2, <1>3, <1>8, <2>1, <2>2, <3>2
        <3> QED
            BY <1>4, <3>1, <3>2
    <2> QED
        BY <1>1, <1>7, <2>3 DEF GuardOk
<1>13. HandOverOk'
    BY <1>1, NoHandOver DEF HandOverOk
<1> QED
    BY <1>1, <1>2, <1>3, <1>4, <1>6, <1>11, <1>12, <1>13, PositionAlone DEF Inv, Types

(* The other plan's ride ends.                                             *)
LEMMA ParentEndsStep == ASSUME Inv, ParentEnds PROVE Inv'
<1>1. /\ parent > 0 /\ net' = Left(parent) /\ parent' = 0
      /\ UNCHANGED <<plan, rungs, bought, ride, guard, base, proc, sweep, faults>>
    BY DEF ParentEnds
<1> DEFINE rode == IF ride.st = "open" THEN ride.qty ELSE 0
<1>2. rode \in Nat
    BY TickTypes DEF Inv
<1>3. Due \in Nat /\ net \in Nat /\ base \in Nat /\ parent \in Nat
    BY DueNat DEF Inv
<1>4. /\ net' \in Nat
      /\ net' = net - parent \/ (net' = 0 /\ net <= parent)
    BY <1>1, <1>3, LeftIs
<1>5. Unswept \in Nat
    <2>1. \A r \in Rungs : track[r].got <= fill[r]
        BY DEF Inv, RungsOk, RungOk
    <2> QED
        BY <2>1, SumTypes, SumsAre DEF Inv, Types
<1>6. guard.st = "none"
    BY <1>1, <1>3 DEF Inv, GuardOk
<1>7. Ridden = parent + rode /\ Ridden' = 0 + rode
    BY <1>1 DEF Ridden
<1>8. Unswept' = Unswept /\ Due' = Due /\ Stopped' = Stopped /\ Own' = Own
    <2>1. Lost' = Lost /\ Unswept' = Unswept /\ Own' = Own
        BY <1>1, SumsAre DEF rungs
    <2>2. UNCHANGED <<plan, fill, bought, ride>>
        BY <1>1 DEF rungs
    <2> QED
        BY <2>1, <2>2 DEF Due, Stopped, Owned, EntryHeld, ToDo
<1> HIDE DEF rode
<1>9. Free = net - (parent + rode) - Unswept - base /\ Free' = net' - rode - Unswept - base
    BY <1>1, <1>2, <1>7, <1>8 DEF Free
<1>10. LedgerOk'
    <2>1. Free <= Due /\ (Stopped \/ Free = Due) /\ (ride.st # "open" => Unswept = 0)
        BY <1>1, <1>3 DEF Inv, LedgerOk
    <2>2. CASE net' = net - parent
        <3>1. Free' = Free
            BY <1>2, <1>3, <1>5, <1>9, <2>2
        <3> QED
            BY <1>1, <1>8, <2>1, <3>1 DEF LedgerOk
    <2>3. CASE net' = 0 /\ net <= parent
        <3>1. Free' <= Due'
            BY <1>2, <1>3, <1>5, <1>8, <1>9, <2>3
        <3>2. Free = Due => Free' = Due'
            BY <1>2, <1>3, <1>5, <1>8, <1>9, <2>3
        <3> QED
            BY <1>1, <1>8, <2>1, <3>1, <3>2 DEF LedgerOk
    <2> QED
        BY <1>4, <2>2, <2>3
<1>11. GuardOk'
    <2>1. Guarded = Ridden /\ Guarded' = Ridden'
        BY <1>1, <1>2, <1>3, <1>6, <1>7 DEF Guarded
    <2>2. /\ plan.stop = "orphan" => net <= Ridden
          /\ plan.settle = "done" => net - base <= Guarded
        BY DEF Inv, GuardOk
    <2>3. /\ plan.stop = "orphan" => net' <= Ridden'
          /\ plan.settle = "done" => net' - base <= Guarded'
        <3>1. CASE net' = net - parent
            BY <1>2, <1>3, <1>7, <2>1, <2>2, <3>1
        <3>2. CASE net' = 0
            BY <1>2, <1>3, <1>7, <2>1, <2>2, <3>2
        <3> QED
            BY <1>4, <3>1, <3>2
    <2> QED
        BY <1>1, <1>6, <2>3 DEF GuardOk
<1>12. HandOverOk'
    <2>1. proc["tick"].step = "handover" => proc["tick"].n = Own
        BY <1>1, <1>3 DEF Inv, HandOverOk
    <2>2. proc' = proc /\ ride' = ride
        BY <1>1
    <2> QED
        BY <1>8, <2>1, <2>2 DEF Inv, HandOverOk
<1> QED
    BY <1>1, <1>3, <1>4, <1>10, <1>11, <1>12, PositionAlone DEF Inv, Types

(* The stop for the fills the floor left takes them out.                   *)
LEMMA StopFillsStep == ASSUME Inv, StopFills PROVE Inv'
<1>1. /\ guard.st = "working" /\ net > 0 /\ net' = Left(guard.qty)
      /\ guard' = [guard EXCEPT !.st = "filled"]
      /\ UNCHANGED <<plan, rungs, bought, ride, parent, base, proc, sweep, faults>>
    BY DEF StopFills
<1>2. guard' \in [st : {"none", "working", "filled", "cancelled"}, qty : Nat] /\ guard'.st = "filled" /\ guard.qty \in Nat
    BY <1>1 DEF Inv, Types
<1>3. Due \in Nat /\ Unswept \in Int /\ net \in Nat /\ base \in Nat /\ parent \in Nat
    BY DueNat DEF Inv
<1>4. /\ net' \in Nat /\ net' <= net
      /\ net' = net - guard.qty \/ (net' = 0 /\ net <= guard.qty)
    BY <1>1, <1>2, <1>3, LeftIs
<1>5. plan.settle # "none" /\ parent = 0 /\ ride.st # "open" /\ Stopped /\ ~Pending /\ Unswept = 0
    BY <1>1 DEF Inv, GuardOk, PlanOk, Stopped, LedgerOk
<1>6. Ridden = 0 /\ Ridden' = 0
    BY <1>1, <1>5 DEF Ridden
<1>7. Unswept' = 0 /\ Due' = Due /\ Stopped'
    <2>1. Lost' = Lost /\ Unswept' = Unswept
        BY <1>1, SumsAre DEF rungs
    <2>2. UNCHANGED <<plan, fill, bought, ride>>
        BY <1>1 DEF rungs
    <2> QED
        BY <1>5, <2>1, <2>2 DEF Due, Stopped, Owned, EntryHeld, ToDo
<1>8. LedgerOk'
    <2>1. Free = net - base /\ Free' = net' - base /\ Free \in Int /\ Free' \in Int
        BY <1>1, <1>3, <1>4, <1>5, <1>6, <1>7 DEF Free
    <2>2. Free <= Due
        BY DEF Inv, LedgerOk
    <2>3. Free' <= Free
        <3>1. net' - base <= net - base
            <4>1. net' \in Nat /\ net' <= net
                BY <1>4
            <4> QED
                BY <1>3, <4>1, LessLess
        <3> QED
            BY <2>1, <3>1
    <2>4. Free' <= Due'
        BY <1>3, <1>7, <2>1, <2>2, <2>3
    <2> QED
        BY <1>7, <2>4 DEF LedgerOk
<1>9. GuardOk'
    <2>1. net - base <= guard.qty
        BY <1>1 DEF Inv, GuardOk
    <2>2. net' - base <= 0
        <3>1. CASE net' = net - guard.qty
            BY <1>2, <1>3, <2>1, <3>1
        <3>2. CASE net' = 0
            BY <1>3, <3>2
        <3> QED
            BY <1>4, <3>1, <3>2
    <2>3. Guarded' = 0
        BY <1>2, <1>6 DEF Guarded
    <2>4. plan.stop = "orphan" => net' <= Ridden'
        BY <1>1, <1>3, <1>4, <1>6 DEF Inv, GuardOk
    <2> QED
        BY <1>1, <1>2, <1>5, <2>2, <2>3, <2>4 DEF GuardOk
<1>10. HandOverOk'
    BY <1>1, <1>5, NothingToGo, NoHandOver DEF HandOverOk
<1> QED
    BY <1>1, <1>2, <1>3, <1>4, <1>8, <1>9, <1>10, PositionAlone DEF Inv, Types

(* The user closes what nobody rides.                                      *)
LEMMA UserClosesStep == ASSUME Inv, UserCloses, ways' = {} PROVE Inv'
<1>1. /\ parent = 0 /\ ride.st # "open" /\ net' = 0 /\ base' = 0 /\ ~ToDo("handover")
      /\ UNCHANGED <<plan, rungs, bought, ride, parent, guard, proc, sweep, faults>>
    BY DEF UserCloses, Way
<1>2. Due \in Nat /\ Unswept = 0
    BY <1>1, DueNat DEF Inv, LedgerOk
<1>3. Unswept' = 0 /\ Due' = Due /\ Ridden' = 0
    <2>1. Lost' = Lost /\ Unswept' = Unswept
        BY <1>1, SumsAre DEF rungs
    <2>2. UNCHANGED <<plan, fill, bought, ride, parent>>
        BY <1>1 DEF rungs
    <2> QED
        BY <1>1, <1>2, <2>1, <2>2 DEF Due, Stopped, Owned, EntryHeld, ToDo, Ridden
<1>4. LedgerOk'
    <2>1. Free' = 0
        BY <1>1, <1>3 DEF Free
    <2> QED
        BY <1>1, <1>2, <1>3, <2>1 DEF LedgerOk
<1>5. GuardOk'
    <2>1. guard.qty \in Nat /\ Guarded' \in Nat
        BY <1>1, <1>3 DEF Inv, Types, Guarded
    <2>2. net' - base' = 0
        BY <1>1
    <2> QED
        BY <1>1, <1>3, <2>1, <2>2 DEF Inv, GuardOk
<1>6. HandOverOk'
    BY <1>1, NoHandOver DEF HandOverOk
<1> QED
    BY <1>1, <1>4, <1>5, <1>6, PositionAlone DEF Inv, Types

----------------------------------------------------------------------------
(* What the floor stopped is looked after *)

(* When the fills are protected every rung is answered: what the plan      *)
(* bought is what its rungs filled, and is beyond the rides if it had none. *)
LEMMA ProtectFinds ==
    ASSUME Inv, proc["tick"].step = "protect"
    PROVE  /\ plan.settle = "pending" /\ plan.phase = "stopped" /\ Stopped /\ ~Pending /\ plan.stop = "none"
           /\ \A p \in Procs : p # "tick" => proc[p].step = "idle"
           /\ \A r \in Rungs : slip[r] # "open" /\ (slip[r] = "filled" \/ fill[r] = 0)
           /\ Own \in Nat /\ Ridden \in Nat /\ Ridden >= parent /\ Unswept = 0
           /\ Loose \in Int
           /\ Loose <= 0 => net - base <= Ridden
           /\ Loose > 0 => ride.st # "open" /\ Ridden = parent /\ net - base <= parent + Loose
<1>1. /\ plan.settle = "pending" /\ plan.phase = "stopped" /\ Stopped /\ ~Pending /\ plan.stop = "none"
      /\ proc["stop"].step = "idle" /\ proc["floor"].step = "idle"
    BY DEF Inv, ProcOk, PlanOk, Stopped, Types, Rows
<1>2. \A r \in Rungs : slip[r] # "open" /\ (slip[r] = "filled" \/ fill[r] = 0)
    <2> SUFFICES ASSUME NEW r \in Rungs PROVE slip[r] # "open" /\ (slip[r] = "filled" \/ fill[r] = 0)
        OBVIOUS
    <2>1. slip[r] # "open" /\ (slip[r] = "cancelled" => fill[r] = 0)
        BY DEF Inv, OpenOk, Cleared
    <2>2. slip[r] = "none" => fill[r] = 0
        BY <1>1 DEF Inv, RungsOk, RungOk, At
    <2>3. slip[r] \in {"none", "open", "filled", "cancelled"}
        BY DEF Inv, Types, Slips
    <2> QED
        BY <2>1, <2>2, <2>3
<1>3. Own = plan.entry + (IF plan.ended THEN 0 ELSE Sum(fill)) /\ Lost = 0
    BY <1>2, OwnIsAll DEF Inv
<1>4. Own \in Nat /\ Ridden \in Nat /\ Ridden >= parent /\ net \in Nat /\ base \in Nat /\ parent \in Nat
    BY SumsNat DEF Inv, Types
<1>5. Unswept = 0
    <2>1. \A r \in Rungs : track[r].on # "ride"
        BY <1>2 DEF Inv, RungsOk, RungOk
    <2> QED
        BY <2>1, SumTypes, SumsAre DEF Inv, Types
<1>6. ride.st = "open" => plan.ride
    BY <1>1 DEF Inv, RideOk, At
<1>7. net - Ridden - base <= Due
    BY <1>4, <1>5 DEF Inv, LedgerOk, Free
<1>8. CASE plan.ride
    <2>1. Due = 0
        BY <1>3, <1>8 DEF Due, Owned
    <2>2. net - base <= Ridden
        BY <1>4, <1>7, <2>1
    <2>3. Loose \in Int /\ Loose <= 0
        BY <1>4, <1>8 DEF Loose
    <2> QED
        BY <1>1, <1>2, <1>4, <1>5, <2>2, <2>3 DEF Procs
<1>9. CASE ~plan.ride
    <2>1. Due = Own
        BY <1>1, <1>3, <1>6, <1>9 DEF Due, Owned, EntryHeld
    <2>2. ride.st # "open" /\ Ridden = parent
        BY <1>4, <1>6, <1>9 DEF Ridden
    <2>3. /\ Loose \in Int
          /\ Loose = Own \/ Loose = net - Ridden
        BY <1>4, <1>9 DEF Loose
    <2>4. net - base <= Ridden + Loose
        BY <1>4, <1>7, <2>1, <2>3
    <2>5. Loose <= 0 => net - base <= Ridden
        BY <1>4, <2>3, <2>4
    <2> QED
        BY <1>1, <1>2, <1>4, <1>5, <2>2, <2>3, <2>4, <2>5 DEF Procs
<1> QED
    BY <1>8, <1>9

\* Of the plan's row only what is noted of the floor changes.
Noted(settle, stop) ==
    /\ plan' \in Rows /\ plan'.settle = settle /\ plan'.stop = stop
    /\ plan'.phase = plan.phase /\ plan'.seq = plan.seq /\ plan'.pend = plan.pend /\ plan'.ride = plan.ride
    /\ plan'.ended = plan.ended /\ plan'.entry = plan.entry

LEMMA NotedDone ==
    ASSUME Types, NEW stop \in {"none", "set"}, Done(stop)
    PROVE  Noted("done", stop)
BY DEF Types, Rows, Done, Noted

\* The plan is looked after, or its stop is at the venue and not on record.
LEMMA Protected ==
    ASSUME Inv, proc["tick"].step = "protect", Ends("tick"),
           UNCHANGED <<rungs, bought, ride, net, base, sweep>>, faults' \in 0..MaxFaults,
           NEW settle \in {"pending", "done"}, NEW stop \in {"none", "set"},
           Noted(settle, stop), stop # "none" => settle = "done",
           parent' \in Nat, parent' >= parent,
           guard' \in [st : {"none", "working", "filled", "cancelled"}, qty : Nat],
           settle = "done" \/ guard'.st # "none", GuardOk'
    PROVE  Inv'
<1>1. /\ plan.settle = "pending" /\ plan.phase = "stopped" /\ Stopped /\ ~Pending
      /\ \A p \in Procs : p # "tick" => proc[p].step = "idle"
      /\ \A r \in Rungs : slip[r] # "open" /\ (slip[r] = "filled" \/ fill[r] = 0)
      /\ Unswept = 0
    BY ProtectFinds
<1>2. /\ plan' \in Rows /\ plan'.settle = settle /\ plan'.stop = stop
      /\ plan'.phase = plan.phase /\ plan'.seq = plan.seq /\ plan'.pend = plan.pend /\ plan'.ride = plan.ride
      /\ plan'.ended = plan.ended /\ plan'.entry = plan.entry
    BY DEF Noted
<1>3. /\ proc' \in [Procs -> Parties] /\ proc'["tick"] = Idle
      /\ \A p \in Procs : p # "tick" => proc'[p] = proc[p]
    BY PartyStep, IdleType DEF Inv, Types, Ends, Procs
<1>4. UNCHANGED <<slip, track, ord, fill, bought, ride, net, base, sweep>>
    BY DEF rungs
<1>5. Types'
    BY <1>2, <1>3, <1>4 DEF Inv, Types
<1>6. Stopped' /\ ~Pending' /\ (\A act : ~At(act)') /\ ~HandedTo' /\ ~Bought'
    BY <1>1, <1>2 DEF Stopped, Pending, At, HandedTo, Bought
<1>7. PlanOk'
    BY <1>1, <1>2, <1>6 DEF Inv, PlanOk, Stopped
<1>8. RideOk' /\ EntryOk'
    <2>1. RideOk'
        BY <1>1, <1>2, <1>4, <1>6 DEF Inv, RideOk, At
    <2>2. ~ToDo("handover")'
        <3>1. ~ToDo("handover")
            BY <1>1, NothingToGo
        <3> QED
            BY <1>2, <3>1 DEF ToDo
    <2>3. \A s \in bought.venue : s <= plan'.seq
        BY <1>2 DEF Inv, EntryOk
    <2> QED
        BY <1>4, <1>6, <2>1, <2>2, <2>3 DEF Inv, EntryOk
<1>9. ProcOk'
    BY <1>1, <1>3, IdleType DEF ProcOk, Procs
<1>10. HandOverOk' /\ LadderOk'
    BY <1>3, IdleType DEF HandOverOk, LadderOk
<1>11. RungsOk'
    <2> SUFFICES ASSUME NEW q \in Rungs PROVE RungOk(q)'
        BY DEF RungsOk
    <2>1. RungOk(q) /\ Owned' = Owned /\ slip[q] # "open" /\ (slip[q] = "filled" \/ fill[q] = 0)
        BY <1>1, <1>2, <1>4 DEF Inv, RungsOk, Owned
    <2>2. ~At("ladder")
        BY <1>1 DEF At
    <2>3. fill[q] \in Nat
        BY DEF Inv, Types
    <2> QED
        BY <1>2, <1>4, <2>1, <2>2, <2>3 DEF RungOk, Tracked
<1>12. OpenOk'
    BY <1>1, <1>3, <1>4, IdleType DEF OpenOk
<1>13. AsksOk'
    <2>1. \A p \in Procs : proc'[p].todo \subseteq proc[p].todo
        BY <1>3, IdleType
    <2> QED
        BY <1>4, <2>1, AsksFrame DEF Inv
<1>14. LedgerOk'
    <2>1. Due \in Nat /\ net \in Nat /\ base \in Nat /\ parent \in Nat
        BY DueNat DEF Inv
    <2>2. Lost' = Lost /\ Unswept' = Unswept
        BY <1>4, SumsAre
    <2>3. Due' = Due
        BY <1>1, <1>2, <1>4, <1>6, <2>2 DEF Due, Owned, EntryHeld
    <2>4. Ridden \in Int /\ Ridden' \in Int /\ Ridden' >= Ridden
        <3>1. ride.qty \in Nat
            BY TickTypes DEF Inv
        <3>2. CASE ride.st = "open"
            BY <1>4, <2>1, <3>1, <3>2 DEF Ridden
        <3>3. CASE ride.st # "open"
            <4>1. Ridden = parent + 0 /\ Ridden' = parent' + 0
                BY <1>4, <3>3 DEF Ridden
            <4>2. \A a \in Nat : a + 0 = a /\ a \in Int
                OBVIOUS
            <4>3. Ridden = parent /\ Ridden' = parent' /\ parent \in Int /\ parent' \in Int
                BY <2>1, <4>1, <4>2, Zenon
            <4> QED
                BY <4>3, Zenon
        <3> QED
            BY <3>2, <3>3
    <2>5. net - Ridden - base <= Due
        BY <1>1, <2>1, <2>4 DEF Inv, LedgerOk, Free
    <2>6. net - Ridden' - base <= Due
        <3>1. PICK more \in Nat : Ridden' = Ridden + more
            <4>1. \A a, b \in Int : a >= b => a - b \in Nat /\ a = b + (a - b)
                OBVIOUS
            <4> QED
                BY <2>4, <4>1
        <3>2. net - Ridden' - base = net - Ridden - base - more
            BY <2>1, <2>4, <3>1
        <3>3. net - Ridden - base \in Int /\ net - Ridden' - base \in Int
            BY <2>1, <2>4
        <3> QED
            BY <2>1, <2>5, <3>2, <3>3
    <2>7. Free' <= Due'
        BY <1>1, <1>4, <2>1, <2>2, <2>3, <2>4, <2>6 DEF Free
    <2> QED
        BY <1>1, <1>6, <2>2, <2>7 DEF LedgerOk
<1> QED
    BY <1>5, <1>7, <1>8, <1>9, <1>10, <1>11, <1>12, <1>13, <1>14 DEF Inv

(* The fills go to the other plan's ride, or behind a stop.                *)
LEMMA ProtectStep == ASSUME Inv, Protect PROVE Inv'
<1>1. /\ proc["tick"].step = "protect" /\ Ends("tick")
      /\ UNCHANGED <<rungs, bought, ride, net, base, sweep, faults>>
    BY DEF Protect
<1>2. /\ plan.settle = "pending" /\ plan.stop = "none"
      /\ Own \in Nat /\ Ridden \in Nat /\ Ridden >= parent /\ Loose \in Int
      /\ Loose <= 0 => net - base <= Ridden
      /\ Loose > 0 => ride.st # "open" /\ Ridden = parent /\ net - base <= parent + Loose
    BY <1>1, ProtectFinds
<1>3. /\ net \in Nat /\ base \in Nat /\ parent \in Nat /\ faults' \in 0..MaxFaults
      /\ guard \in [st : {"none", "working", "filled", "cancelled"}, qty : Nat]
      /\ guard.st \in {"none", "working", "filled", "cancelled"} /\ guard.qty \in Nat
    BY <1>1 DEF Inv, Types
<1>4. \A stop \in {"none", "set"} : Done(stop) => Noted("done", stop)
    BY NotedDone DEF Inv
<1>5. \A stop \in {"none", "set"} : Done(stop) => plan'.settle = "done" /\ plan'.stop = stop
    BY <1>4 DEF Noted
<1>6. /\ guard.st # "none" => parent = 0 /\ ride.st # "open"
      /\ guard.st = "working" => net - base <= guard.qty
      /\ guard.st = "filled" => net - base <= 0
      /\ guard.st # "cancelled"
    BY <1>2 DEF Inv, GuardOk
<1>7. CASE Loose <= 0 /\ Done(plan.stop) /\ UNCHANGED <<parent, guard>>
    <2>1. plan'.settle = "done" /\ plan'.stop = "none"
        BY <1>2, <1>5, <1>7
    <2>2. Ridden' = Ridden /\ Guarded' = Guarded /\ Guarded >= Ridden /\ Guarded \in Int
        BY <1>1, <1>2, <1>3, <1>7 DEF Ridden, Guarded
    <2>3. net - base <= Guarded
        BY <1>2, <1>3, <1>7, <2>2
    <2>4. GuardOk'
        BY <1>1, <1>6, <1>7, <2>1, <2>2, <2>3 DEF GuardOk
    <2>5. Noted("done", "none")
        BY <1>2, <1>4, <1>7
    <2>6. parent' \in Nat /\ parent' >= parent /\ guard' = guard
        BY <1>3, <1>7
    <2> QED
        BY <1>1, <1>3, <2>4, <2>5, <2>6, Protected
<1>8. CASE Loose > 0 /\ parent > 0 /\ parent' = parent + Loose /\ Done(plan.stop) /\ UNCHANGED guard
    <2>1. plan'.settle = "done" /\ plan'.stop = "none"
        BY <1>2, <1>5, <1>8
    <2>2. guard.st = "none"
        BY <1>3, <1>6, <1>8
    <2>3. parent' \in Nat /\ parent' >= parent /\ ride.st # "open" /\ net - base <= parent'
        BY <1>2, <1>3, <1>8
    <2>4. Guarded' = parent'
        BY <1>1, <1>8, <2>2, <2>3 DEF Ridden, Guarded
    <2>5. GuardOk'
        BY <1>1, <1>8, <2>1, <2>2, <2>3, <2>4 DEF GuardOk
    <2> QED
        <3>1. Noted("done", "none")
            BY <1>2, <1>4, <1>8
        <3> QED
            BY <1>1, <1>3, <1>8, <2>3, <2>5, <3>1, Protected
<1>9. CASE /\ Loose > 0 /\ parent = 0 /\ Done("set") /\ UNCHANGED parent
           /\ guard' = IF guard.st = "none" THEN [st |-> "working", qty |-> Loose] ELSE guard
    <2>1. plan'.settle = "done" /\ plan'.stop = "set"
        BY <1>5, <1>9
    <2>2. ride.st # "open" /\ parent' = 0 /\ net - base <= Loose /\ Ridden' = 0
        BY <1>1, <1>2, <1>3, <1>9 DEF Ridden
    <2>3. /\ guard' \in [st : {"none", "working", "filled", "cancelled"}, qty : Nat]
          /\ guard'.st \in {"working", "filled"} /\ guard'.qty \in Nat
          /\ guard'.st = "working" => net - base <= guard'.qty
          /\ guard'.st = "filled" => net - base <= 0
        <3>1. CASE guard.st = "none"
            BY <1>2, <1>9, <2>2, <3>1
        <3>2. CASE guard.st # "none"
            BY <1>3, <1>6, <1>9, <3>2
        <3> QED
            BY <3>1, <3>2
    <2>4. net - base <= Guarded'
        BY <2>2, <2>3 DEF Guarded
    <2>5. GuardOk'
        BY <1>1, <2>1, <2>2, <2>3, <2>4 DEF GuardOk
    <2> QED
        <3>1. Noted("done", "set")
            BY <1>4, <1>9
        <3>2. parent' \in Nat /\ parent' >= parent
            BY <1>3, <1>9
        <3> QED
            BY <1>1, <1>3, <2>3, <2>5, <3>1, <3>2, Protected
<1> QED
    BY <1>7, <1>8, <1>9 DEF Protect

(* The stop rests, and its answer was lost.                                *)
LEMMA ProtectLostStep == ASSUME Inv, ProtectLost PROVE Inv'
<1>1. /\ proc["tick"].step = "protect" /\ Ends("tick") /\ Loose > 0 /\ parent = 0
      /\ guard' = [st |-> "working", qty |-> Loose]
      /\ UNCHANGED <<plan, rungs, bought, ride, parent, net, base, sweep>>
    BY DEF ProtectLost
<1>2. /\ plan.settle = "pending" /\ plan.stop = "none" /\ Loose \in Int
      /\ ride.st # "open" /\ Ridden = parent /\ net - base <= parent + Loose
    BY <1>1, ProtectFinds
<1>3. /\ net \in Nat /\ base \in Nat /\ parent \in Nat /\ faults' \in 0..MaxFaults
      /\ Noted("pending", "none")
    BY <1>1, <1>2, FaultType DEF Inv, Types, Noted, ProtectLost
<1>4. guard' \in [st : {"none", "working", "filled", "cancelled"}, qty : Nat] /\ guard'.st = "working" /\ guard'.qty = Loose
    BY <1>1, <1>2
<1>5. net - base <= Loose
    BY <1>1, <1>2, <1>3
<1>6. GuardOk'
    BY <1>1, <1>2, <1>4, <1>5 DEF GuardOk
<1> QED
    BY <1>1, <1>2, <1>3, <1>4, <1>6, Protected

(* What becomes of the stop is seen: only the plan's note of it changes.   *)
LEMMA StopNoted ==
    ASSUME Inv, plan.settle = "done", NEW stop \in {"none", "set", "orphan"},
           plan' = [plan EXCEPT !.stop = stop],
           UNCHANGED <<rungs, bought, ride, parent, net, base, proc, sweep, faults>>,
           guard' \in [st : {"none", "working", "filled", "cancelled"}, qty : Nat],
           guard.st = "none" <=> guard'.st = "none", GuardOk'
    PROVE  Inv'
<1>1. plan.phase = "stopped" /\ Stopped /\ ~Pending
    BY DEF Inv, PlanOk, Stopped
<1>2. /\ plan' \in Rows /\ plan'.settle = plan.settle /\ plan'.stop = stop
      /\ plan'.phase = plan.phase /\ plan'.seq = plan.seq /\ plan'.pend = plan.pend /\ plan'.ride = plan.ride
      /\ plan'.ended = plan.ended /\ plan'.entry = plan.entry
    BY DEF Inv, Types, Rows
<1>3. UNCHANGED <<slip, track, ord, fill, bought, ride, parent, net, base, proc, sweep, faults>>
    BY DEF rungs
<1>4. Types'
    BY <1>2, <1>3 DEF Inv, Types
<1>5. Stopped' /\ ~Pending' /\ (\A act : At(act)' = At(act)) /\ ~HandedTo' /\ ~Bought' /\ ToDo("handover")' = ToDo("handover")
    BY <1>1, <1>2 DEF Stopped, Pending, At, HandedTo, Bought, ToDo
<1>6. PlanOk'
    BY <1>1, <1>2, <1>5 DEF Inv, PlanOk, Stopped
<1>7. RideOk' /\ EntryOk'
    <2>1. RideOk'
        BY <1>1, <1>2, <1>3, <1>5 DEF Inv, RideOk
    <2>2. ~ToDo("handover")
        BY <1>1, NothingToGo
    <2> QED
        BY <1>2, <1>3, <1>5, <2>1, <2>2 DEF Inv, EntryOk
<1>8. ProcOk' /\ HandOverOk' /\ LadderOk' /\ AsksOk'
    <2>1. ProcOk'
        BY <1>1, <1>2, <1>3, <1>5 DEF Inv, ProcOk, Stopped
    <2>2. Own' = Own
        BY <1>2, <1>3, SumsAre
    <2> QED
        BY <1>2, <1>3, <2>1, <2>2, AsksFrame DEF Inv, HandOverOk, LadderOk
<1>9. RungsOk'
    <2> SUFFICES ASSUME NEW q \in Rungs PROVE RungOk(q)'
        BY DEF RungsOk
    <2>1. RungOk(q) /\ Owned' = Owned
        BY <1>2, <1>3 DEF Inv, RungsOk, Owned
    <2> QED
        BY <1>2, <1>3, <1>5, <2>1 DEF RungOk, Tracked
<1>10. OpenOk'
    <2>1. Cleared
        BY <1>1 DEF Cleared
    <2> QED
        BY <1>2, <1>3, <2>1 DEF Inv, OpenOk
<1>11. LedgerOk'
    <2>1. Lost' = Lost /\ Unswept' = Unswept
        BY <1>3, SumsAre
    <2>2. Due' = Due
        BY <1>1, <1>2, <1>3, <1>5, <2>1 DEF Due, Owned, EntryHeld
    <2>3. Free' = Free
        BY <1>3, <2>1 DEF Free, Ridden
    <2> QED
        BY <1>3, <1>5, <2>1, <2>2, <2>3 DEF Inv, LedgerOk
<1> QED
    BY <1>4, <1>6, <1>7, <1>8, <1>9, <1>10, <1>11 DEF Inv

(* A stop that ended is forgotten, one with nothing left to guard is to be withdrawn. *)
LEMMA WatchStopStep == ASSUME Inv, WatchStop PROVE Inv'
<1>1. UNCHANGED <<rungs, venue, proc, sweep, faults>> /\ plan.stop = "set"
    BY DEF WatchStop
<1>2. UNCHANGED <<rungs, bought, ride, parent, guard, net, base, proc, sweep, faults>> /\ plan.settle = "done"
    BY <1>1 DEF venue, Inv, PlanOk
<1>3. PICK stop \in {"none", "orphan"} : plan' = [plan EXCEPT !.stop = stop] /\ (stop = "orphan" => net <= Ridden)
    BY DEF WatchStop
<1>4. plan'.settle = plan.settle /\ plan'.stop = stop /\ Ridden' = Ridden /\ Guarded' = Guarded
    BY <1>2, <1>3 DEF Inv, Types, Rows, Ridden, Guarded
<1>5. GuardOk'
    BY <1>2, <1>3, <1>4 DEF Inv, GuardOk
<1> QED
    BY <1>2, <1>3, <1>5, StopNoted DEF Inv, Types

(* The stop that had nothing left to guard is withdrawn.                   *)
LEMMA SweepOrphanStep == ASSUME Inv, SweepOrphan PROVE Inv'
<1>1. /\ plan.stop = "orphan" /\ plan' = [plan EXCEPT !.stop = "none"]
      /\ guard' = [guard EXCEPT !.st = IF @ = "working" THEN "cancelled" ELSE @]
      /\ UNCHANGED <<rungs, bought, ride, parent, net, base, proc, sweep, faults>>
    BY DEF SweepOrphan
<1>2. plan.settle = "done"
    BY <1>1 DEF Inv, PlanOk
<1>3. /\ guard' \in [st : {"none", "working", "filled", "cancelled"}, qty : Nat]
      /\ guard'.st = (IF guard.st = "working" THEN "cancelled" ELSE guard.st) /\ guard'.qty = guard.qty
      /\ net \in Nat /\ base \in Nat
    BY <1>1 DEF Inv, Types
<1>4. plan'.settle = "done" /\ plan'.stop = "none" /\ Ridden' = Ridden
    BY <1>1, <1>2 DEF Inv, Types, Rows, Ridden
<1>5. Ridden \in Nat /\ net <= Ridden /\ Guarded' = Ridden + 0
    <2>1. Ridden \in Nat
        BY SumsNat DEF Inv
    <2> QED
        BY <1>1, <1>3, <1>4, <2>1 DEF Inv, GuardOk, Guarded
<1>6. net - base <= Guarded'
    BY <1>3, <1>5
<1>7. GuardOk'
    BY <1>1, <1>2, <1>3, <1>4, <1>6 DEF Inv, GuardOk
<1> QED
    BY <1>1, <1>2, <1>3, <1>7, StopNoted

----------------------------------------------------------------------------
(* Every behaviour *)

\* Ways that happened are not forgotten.
LEMMA WaysGrow == [Next]_vars => ways \subseteq ways'
<1> SUFFICES ASSUME [Next]_vars PROVE ways \subseteq ways'
    OBVIOUS
<1>1. ASSUME NEW p \in Procs, Cancels(p) PROVE ways \subseteq ways'
    <2> PICK x \in proc[p].todo : CancelRung(p, x) \/ CancelUnread(p, x) \/ CancelFails(p, x)
        BY <1>1 DEF Cancels
    <2>1. CASE CancelRung(p, x)
        BY <2>1 DEF CancelRung
    <2>2. CASE CancelUnread(p, x)
        BY <2>2 DEF CancelUnread
    <2>3. CASE CancelFails(p, x)
        BY <2>3 DEF CancelFails
    <2> QED
        BY <2>1, <2>2, <2>3
<1>2. CASE TickStep
    <2>1. CASE TickStarts \/ Resume \/ Decide \/ NothingToDo \/ CancelRungs
        BY <2>1 DEF TickStarts, Resume, Decide, NothingToDo, CancelRungs
    <2>2. CASE Cancels("tick")
        BY <1>1, <2>2 DEF Procs
    <2>3. CASE RungsCancelled \/ MarketEntry \/ MarketSettled \/ HandOver
        BY <2>3 DEF RungsCancelled, MarketEntry, MarketSettled, HandOver
    <2>8. CASE EntryOnRecord \/ EntryUnfilled \/ EntryRejected
        BY <2>8 DEF EntryOnRecord, EntryUnfilled, EntryRejected
    <2>4. CASE HandedOver \/ RideRecorded \/ PlaceLadder
        BY <2>4 DEF HandedOver, RideRecorded, PlaceLadder
    <2>5. CASE \E k \in 0..Max({Size[i] : i \in Ladder}) : PlaceRung(k)
        BY <2>5 DEF PlaceRung
    <2>6. CASE LadderPlaced \/ Commit \/ SettleStarts \/ RungsSettled
        BY <2>6 DEF LadderPlaced, Commit, SettleStarts, RungsSettled
    <2>7. CASE Protect \/ WatchStop \/ SweepOrphan
        BY <2>7 DEF Protect, WatchStop, SweepOrphan
    <2> QED
        BY <1>2, <2>1, <2>2, <2>3, <2>4, <2>5, <2>6, <2>7, <2>8 DEF TickStep
<1>3. CASE TickTrouble
    <2>1. CASE TickFails \/ MarketEntryLost \/ RungRejected
        BY <2>1 DEF TickFails, MarketEntryLost, RungRejected
    <2>2. CASE RungLost \/ ProtectLost \/ ProtectRefused
        BY <2>2 DEF RungLost, ProtectLost, ProtectRefused
    <2> QED
        BY <1>3, <2>1, <2>2 DEF TickTrouble
<1>4. CASE Sweeps
    BY <1>4 DEF Sweeps, SweepBooks, SweepAsks
<1>5. CASE StopStarts \/ StopEnds \/ FloorFires \/ FloorStops
    BY <1>5 DEF StopStarts, StopEnds, FloorFires, FloorStops
<1>6. CASE (\E r \in Rungs : RungFills(r)) \/ RideEnds \/ \E s \in Seqs : EntryResolved(s)
    BY <1>6 DEF RungFills, RideEnds, EntryResolved
<1>7. CASE ParentEnds \/ StopFills \/ UserCloses \/ Crash
    BY <1>7 DEF ParentEnds, StopFills, UserCloses, Crash
<1>8. CASE UNCHANGED vars
    BY <1>8 DEF vars
<1>9. CASE Cancels("stop") \/ Cancels("floor")
    BY <1>1, <1>9 DEF Procs
<1> QED
    BY <1>2, <1>3, <1>4, <1>5, <1>6, <1>7, <1>8, <1>9 DEF Next

(* A plan as it is created.                                                *)
LEMMA InitOk == Init => Inv
<1> SUFFICES ASSUME Init PROVE Inv
    OBVIOUS
<1>1. PICK s \in Starts :
        /\ plan = [phase |-> s.phase, seq |-> IF s.phase = "waiting" THEN 0 ELSE 1,
                   pend |-> IF s.phase = "waiting" THEN NoPend
                            ELSE [acts |-> <<"ladder">>, done |-> 0, next |-> s.phase],
                   ride |-> FALSE, ended |-> FALSE, entry |-> 0, settle |-> "none", stop |-> "none"]
        /\ parent = s.parent /\ base = s.base /\ net = s.base + s.parent
    BY DEF Init
<1>2. /\ slip = [r \in Rungs |-> "none"] /\ track = [r \in Rungs |-> NoRow]
      /\ ord = [r \in Rungs |-> "none"] /\ fill = [r \in Rungs |-> 0]
      /\ bought = [venue |-> {}, row |-> {}, refused |-> {}] /\ ride = [st |-> "none", qty |-> 0]
      /\ guard = NoStop /\ proc = [p \in Procs |-> Idle] /\ sweep = NoAsk /\ faults = 0
    BY DEF Init
<1>3. s.phase \in {"ladder", "armed", "waiting"} /\ s.base \in Nat /\ s.parent \in Nat /\ MaxFaults \in Nat /\ 1 \in Seqs
    BY AccumulateRideAssumption
<1>4. /\ plan.phase = s.phase /\ plan.seq \in Seqs \cup {0} /\ plan.ride = FALSE /\ plan.ended = FALSE /\ plan.entry = 0
      /\ plan.settle = "none" /\ plan.stop = "none" /\ plan.pend \in Pends /\ plan \in Rows
      /\ s.phase = "waiting" => plan.pend = NoPend
      /\ s.phase # "waiting" => plan.seq \in Seqs /\ Decision(plan.pend, s.phase) /\ plan.pend.next = s.phase
                                /\ plan.pend.acts = <<"ladder">>
    <2>1. CASE s.phase = "waiting"
        <3>1. plan = [phase |-> "waiting", seq |-> 0, pend |-> NoPend, ride |-> FALSE, ended |-> FALSE, entry |-> 0,
                      settle |-> "none", stop |-> "none"]
            BY <1>1, <2>1
        <3> QED
            BY <2>1, <3>1, NoPendType DEF Rows, Phases
    <2>2. CASE s.phase # "waiting"
        <3> DEFINE first == [acts |-> <<"ladder">>, done |-> 0, next |-> s.phase]
        <3>1. plan = [phase |-> s.phase, seq |-> 1, pend |-> first, ride |-> FALSE, ended |-> FALSE, entry |-> 0,
                      settle |-> "none", stop |-> "none"]
            BY <1>1, <2>2
        <3>2. first \in Pends /\ Decision(first, s.phase)
            BY <1>3, <2>2, DecisionNew
        <3>3. first.next = s.phase /\ first.acts = <<"ladder">>
            OBVIOUS
        <3> HIDE DEF first
        <3>4. s.phase \in Phases
            BY <1>3 DEF Phases
        <3>5. plan \in Rows
            BY <1>3, <3>1, <3>2, <3>4 DEF Rows
        <3> QED
            BY <1>3, <2>2, <3>1, <3>2, <3>3, <3>5
    <2> QED
        BY <2>1, <2>2
<1>5. /\ ~Stopped /\ ~ToDo("handover") /\ ~HandedTo /\ ~Bought /\ ~At("handover") /\ ~Owned
      /\ Pending => s.phase # "waiting"
    <2>1. ~Stopped /\ ~Owned /\ (Pending => s.phase # "waiting")
        BY <1>2, <1>3, <1>4 DEF Stopped, Owned, Pending
    <2>2. CASE s.phase = "waiting"
        <3>1. ~Pending
            BY <2>1, <2>2
        <3> QED
            BY <2>1, <2>2, <3>1, NothingToGo DEF HandedTo, Bought, At
    <2>3. CASE s.phase # "waiting"
        <3>1. plan.pend \in Pends /\ Decision(plan.pend, plan.phase) /\ plan.pend.next \in {"ladder", "armed"}
            BY <1>3, <1>4, <2>3
        <3>2. plan.phase \in Phases
            BY <1>3, <1>4 DEF Phases
        <3>3. NextOf(plan.pend) \in {"ladder", "commit"} /\ ~ToGo(plan.pend, "handover")
            BY <3>1, <3>2, DecisionStage
        <3> QED
            BY <2>1, <2>3, <3>1, <3>3 DEF HandedTo, Bought, At, ToDo, ToGo
    <2> QED
        BY <2>2, <2>3
<1>6. proc \in [Procs -> Parties] /\ \A p \in Procs : proc[p] = Idle
    BY <1>2, IdleType
<1>7. slip \in Slips /\ track \in Tracks /\ fill \in [Rungs -> Nat]
    BY <1>2 DEF Slips, Tracks, NoRow
<1>8. Types
    BY <1>1, <1>2, <1>3, <1>4, <1>6, <1>7 DEF Types, NoStop
<1>9. PlanOk
    BY <1>3, <1>4, <1>5 DEF PlanOk, Stopped
<1>10. RideOk /\ EntryOk
    BY <1>2, <1>4, <1>5 DEF RideOk, EntryOk
<1>11. ProcOk /\ HandOverOk /\ LadderOk
    BY <1>6, IdleType DEF ProcOk, HandOverOk, LadderOk, Procs
<1>12. \A r \in Rungs : slip[r] = "none" /\ track[r].on = "none" /\ track[r].got = 0 /\ ord[r] = "none" /\ fill[r] = 0
    BY <1>2 DEF NoRow
<1>13. RungsOk
    <2> SUFFICES ASSUME NEW r \in Rungs PROVE RungOk(r)
        BY DEF RungsOk
    <2>1. Size[r[2]] \in Nat \ {0}
        BY Ranges
    <2> QED
        BY <1>12, <2>1 DEF RungOk, Tracked
<1>14. OpenOk /\ AsksOk
    <2>1. \A p \in Procs : proc[p].todo = {} /\ proc[p].step = "idle"
        BY <1>6, IdleType
    <2> QED
        BY <1>2, <1>12, <2>1 DEF OpenOk, AsksOk, Procs
<1>15. LedgerOk
    <2>1. Unswept = 0
        BY <1>7, <1>12, SumTypes, SumsAre
    <2>2. Sum(fill) = 0
        BY <1>2, <1>12, SumZero
    <2>3. Due = 0
        <3>1. EntryHeld = 0
            BY <1>5 DEF EntryHeld
        <3> QED
            BY <1>4, <1>5, <2>2, <3>1 DEF Due
    <2>4. Ridden = parent + 0
        BY <1>2 DEF Ridden
    <2>5. Free = 0
        BY <1>1, <1>3, <2>1, <2>4 DEF Free
    <2> QED
        BY <2>1, <2>3, <2>5 DEF LedgerOk
<1>16. GuardOk
    BY <1>2, <1>4 DEF GuardOk, NoStop
<1> QED
    BY <1>8, <1>9, <1>10, <1>11, <1>13, <1>14, <1>15, <1>16 DEF Inv

(* Whatever is done, and whatever fails, as long as nothing came apart.    *)
LEMMA FloorInit == Init => FloorOk
BY DEF Init, FloorOk, Idle, Procs

LEMMA InvStep == Inv /\ FloorOk /\ [Next]_vars /\ ways' = {} => Inv'
<1> SUFFICES ASSUME Inv, FloorOk, [Next]_vars, ways' = {} PROVE Inv'
    OBVIOUS
<1>1. ASSUME NEW p \in Procs, Cancels(p) PROVE Inv'
    <2> PICK x \in proc[p].todo : CancelRung(p, x) \/ CancelUnread(p, x) \/ CancelFails(p, x)
        BY <1>1 DEF Cancels
    <2> QED
        BY CancelRungStep, CancelUnreadStep, CancelFailsStep
<1>2. CASE TickStep
    <2>1. CASE TickStarts \/ Resume \/ Decide \/ NothingToDo \/ CancelRungs
        BY <2>1, TickStartsStep, ResumeStep, DecideStep, NothingToDoStep, CancelRungsStep
    <2>2. CASE Cancels("tick")
        BY <1>1, <2>2 DEF Procs
    <2>3. CASE RungsCancelled \/ MarketEntry \/ MarketSettled \/ HandOver
        BY <2>3, RungsCancelledStep, MarketEntryStep, MarketSettledStep, HandOverStep
    <2>8. CASE EntryOnRecord \/ EntryUnfilled \/ EntryRejected
        BY <2>8, EntryOnRecordStep, EntryUnfilledStep, EntryRejectedStep
    <2>4. CASE HandedOver \/ RideRecorded \/ PlaceLadder
        BY <2>4, HandedOverStep, RideRecordedStep, PlaceLadderStep
    <2>5. CASE \E k \in 0..Max({Size[i] : i \in Ladder}) : PlaceRung(k)
        BY <2>5, PlaceRungStep
    <2>6. CASE LadderPlaced \/ Commit \/ SettleStarts \/ RungsSettled
        BY <2>6, LadderPlacedStep, CommitStep, SettleStartsStep, RungsSettledStep
    <2>7. CASE Protect \/ WatchStop \/ SweepOrphan
        BY <2>7, ProtectStep, WatchStopStep, SweepOrphanStep
    <2> QED
        BY <1>2, <2>1, <2>2, <2>3, <2>4, <2>5, <2>6, <2>7, <2>8 DEF TickStep
<1>3. CASE TickTrouble
    <2>1. CASE TickFails \/ MarketEntryLost \/ RungRejected
        BY <2>1, TickFailsStep, MarketEntryLostStep, RungRejectedStep
    <2>2. CASE RungLost \/ ProtectLost
        BY <2>2, RungLostStep, ProtectLostStep
    <2>3. CASE ProtectRefused
        BY <2>3 DEF ProtectRefused
    <2> QED
        BY <1>3, <2>1, <2>2, <2>3 DEF TickTrouble
<1>4. CASE Sweeps
    <2>1. CASE SweepBooks
        BY <2>1, SweepBooksStep
    <2>2. CASE \E r \in Rungs : SweepAsks(r)
        BY <2>2, SweepAsksStep
    <2> QED
        BY <1>4, <2>1, <2>2 DEF Sweeps
<1>5. CASE StopStarts \/ StopEnds \/ FloorFires \/ FloorStops
    BY <1>5, StopStartsStep, StopEndsStep, FloorFiresStep, FloorStopsStep
<1>6. CASE (\E r \in Rungs : RungFills(r)) \/ \E s \in Seqs : EntryResolved(s)
    BY <1>6, RungFillsStep, EntryResolvedStep
<1>7. CASE RideEnds \/ ParentEnds \/ StopFills \/ UserCloses \/ Crash
    BY <1>7, RideEndsStep, ParentEndsStep, StopFillsStep, UserClosesStep, CrashStep
<1>8. CASE UNCHANGED vars
    <2>1. UNCHANGED <<plan, rungs, venue, proc, sweep, faults>>
        BY <1>8 DEF vars
    <2>2. ProcOk' /\ HandOverOk' /\ LadderOk' /\ AsksOk'
        <3>1. UNCHANGED <<plan, slip, track, ord, fill, bought, ride, parent, guard, net, base, proc, sweep, faults>>
            BY <2>1 DEF rungs, venue
        <3>2. Own' = Own
            BY <3>1, SumsAre
        <3>3. ProcOk'
            BY <3>1 DEF Inv, ProcOk, Stopped, Pending, At
        <3>4. HandOverOk'
            BY <3>1, <3>2 DEF Inv, HandOverOk
        <3> QED
            BY <3>1, <3>3, <3>4, LadderFrame, AsksFrame DEF Inv
    <2> QED
        BY <2>1, <2>2, PartiesAlone DEF Inv, Types
<1>9. CASE Cancels("stop") \/ Cancels("floor")
    BY <1>1, <1>9 DEF Procs
<1> QED
    BY <1>2, <1>3, <1>4, <1>5, <1>6, <1>7, <1>8, <1>9 DEF Next

(* A row is not undone, and the floor takes up rungs that are open.        *)
LEMMA FloorKept == ASSUME Types, FloorOk, [Next]_vars PROVE FloorOk'
<1>1. ASSUME NEW o, proc'["floor"].open \subseteq o, \A r \in o : slip[r] # "none",
             \A r \in Rungs : slip'[r] = "none" => slip[r] = "none", o \subseteq Rungs
      PROVE  FloorOk'
    BY <1>1 DEF FloorOk
<1>2. proc["floor"] \in Parties /\ proc["floor"].open \subseteq Rungs
    BY TickTypes DEF Parties
<1>3. ASSUME proc'["floor"].open \subseteq proc["floor"].open,
             slip' = slip \/ \A r \in Rungs : slip'[r] = "none" => slip[r] = "none"
      PROVE  FloorOk'
    BY <1>2, <1>3 DEF FloorOk
<1>4. ASSUME NEW p \in Procs, NEW r, Becomes(p, r), r.open \subseteq proc["floor"].open \/ p # "floor"
      PROVE  proc'["floor"].open \subseteq proc["floor"].open
    BY <1>4 DEF Becomes, Types, Procs
<1>5. Idle.open = {}
    BY DEF Idle
<1>6. ASSUME NEW rs, Settled(rs) PROVE \A r \in Rungs : slip'[r] = "none" => slip[r] = "none"
    BY <1>6 DEF Settled
<1>7. ASSUME NEW p \in Procs, Cancels(p) PROVE FloorOk'
    <2> PICK x \in proc[p].todo : CancelRung(p, x) \/ CancelUnread(p, x) \/ CancelFails(p, x)
        BY <1>7 DEF Cancels
    <2> DEFINE r == [proc[p] EXCEPT !.todo = @ \ {x}]
    <2>1. Becomes(p, r) /\ slip' = slip
        BY DEF CancelRung, CancelUnread, CancelFails
    <2>2. r.open = proc[p].open
        BY DEF Types, Parties
    <2> HIDE DEF r
    <2> QED
        BY <1>3, <1>4, <2>1, <2>2
<1>8. ASSUME NEW r, Becomes("tick", r) PROVE proc'["floor"].open \subseteq proc["floor"].open
    BY <1>4, <1>8 DEF Procs
<1>9. CASE TickStep
    <2>1. CASE TickStarts
        BY <1>3, <1>6, <1>8, <2>1 DEF TickStarts
    <2>2. CASE Cancels("tick")
        BY <1>7, <2>2 DEF Procs
    <2>3. CASE RungsCancelled
        BY <1>3, <1>6, <1>8, <2>3 DEF RungsCancelled, Confirm, ActionDone, Ends
    <2>4. CASE Resume \/ NothingToDo \/ CancelRungs \/ PlaceLadder
        BY <1>3, <1>8, <2>4 DEF Resume, NothingToDo, CancelRungs, PlaceLadder, Ends, rungs
    <2>5. CASE Decide
        BY <1>3, <1>8, <2>5 DEF Decide, Begin, rungs
    <2>6. CASE EntryOnRecord \/ MarketEntry \/ EntryUnfilled \/ EntryRejected \/ MarketSettled
        BY <1>3, <1>8, <2>6 DEF EntryOnRecord, MarketEntry, EntryUnfilled, EntryRejected, MarketSettled,
               ActionDone, Ends, rungs
    <2>7. CASE HandOver \/ HandedOver \/ RideRecorded
        BY <1>3, <1>8, <2>7 DEF HandOver, HandedOver, RideRecorded, ActionDone, Ends, rungs
    <2>8. CASE \E k \in 0..Max({Size[i] : i \in Ladder}) : PlaceRung(k)
        <3>1. \A r \in Rungs : slip'[r] = "none" => slip[r] = "none"
            BY <2>8 DEF PlaceRung, Types, Slips
        <3> QED
            BY <1>3, <1>8, <2>8, <3>1 DEF PlaceRung, NextRung
    <2>9. CASE LadderPlaced \/ Commit \/ SettleStarts
        BY <1>3, <1>8, <2>9 DEF LadderPlaced, Commit, SettleStarts, ActionDone, Ends, rungs
    <2>10. CASE RungsSettled
        BY <1>3, <1>6, <1>8, <2>10 DEF RungsSettled
    <2>11. CASE Protect \/ WatchStop \/ SweepOrphan
        BY <1>3, <1>8, <2>11 DEF Protect, WatchStop, SweepOrphan, Ends, rungs
    <2> QED
        BY <1>9, <2>1, <2>2, <2>3, <2>4, <2>5, <2>6, <2>7, <2>8, <2>9, <2>10, <2>11 DEF TickStep
<1>10. CASE TickTrouble
    BY <1>3, <1>8, <1>10 DEF TickTrouble, TickFails, MarketEntryLost, RungRejected, RungLost, ProtectLost,
           ProtectRefused, NextRung, Ends, rungs
<1>11. CASE Sweeps
    BY <1>3, <1>11 DEF Sweeps, SweepBooks, SweepAsks, rungs
<1>12. CASE StopStarts
    BY <1>3, <1>4, <1>12 DEF StopStarts, rungs, Procs
<1>13. CASE StopEnds
    BY <1>3, <1>4, <1>6, <1>13 DEF StopEnds, Confirm, Ends, Procs
<1>14. CASE FloorFires
    <2> DEFINE rs == {r \in Rungs : Tracked(r) /\ (track[r].on = "marker" \/ slip[r] = "open")}
               t == {Ask(r) : r \in rs}
               os == {r \in rs : slip[r] = "open"}
    <2>1. Becomes("floor", [Idle EXCEPT !.step = "cancel", !.todo = t, !.open = os]) /\ slip' = slip
        BY <1>14 DEF FloorFires, rungs
    <2>2. \A r \in os : r \in Rungs /\ slip[r] = "open"
        OBVIOUS
    <2> HIDE DEF rs, t, os
    <2>3. proc'["floor"].open = os
        BY <2>1 DEF Becomes, Idle, Types, Procs
    <2> QED
        BY <2>1, <2>2, <2>3 DEF FloorOk
<1>15. CASE FloorStops
    <2>1. proc'["floor"].open = {}
        BY <1>5, <1>15 DEF FloorStops, Ends, Becomes, Types, Procs
    <2> QED
        BY <2>1 DEF FloorOk
<1>16. CASE (\E r \in Rungs : RungFills(r)) \/ (\E s \in Seqs : EntryResolved(s))
    BY <1>3, <1>16 DEF RungFills, EntryResolved, rungs
<1>17. CASE RideEnds \/ ParentEnds \/ StopFills \/ UserCloses
    BY <1>3, <1>17 DEF RideEnds, ParentEnds, StopFills, UserCloses, rungs
<1>18. CASE Crash
    <2>1. proc'["floor"].open = {}
        BY <1>5, <1>18 DEF Crash, Procs
    <2> QED
        BY <2>1 DEF FloorOk
<1>19. CASE UNCHANGED vars
    BY <1>3, <1>19 DEF vars, rungs
<1>20. CASE Cancels("stop") \/ Cancels("floor")
    BY <1>7, <1>20 DEF Procs
<1> QED
    BY <1>9, <1>10, <1>11, <1>12, <1>13, <1>14, <1>15, <1>16, <1>17, <1>18, <1>19, <1>20 DEF Next

LEMMA IInvStep == IInv /\ [Next]_vars => IInv'
<1> SUFFICES ASSUME IInv, [Next]_vars, ways' = {} PROVE Inv' /\ FloorOk'
    BY DEF IInv
<1>1. ways = {}
    BY WaysGrow
<1> QED
    BY <1>1, InvStep, FloorKept DEF IInv, Inv

(* Types and bounds of the run's invariant.                                *)
LEMMA InvTypes == ASSUME Inv, ways = {} PROVE TypeOK
<1>1. plan \in Rows
    BY DEF Inv, Types
<1>2. /\ plan.phase \in {"ladder", "armed", "waiting", "riding", "stopped", "closed"}
      /\ plan.seq \in Seqs \cup {0} /\ plan.ride \in BOOLEAN /\ plan.ended \in BOOLEAN /\ plan.entry \in {0, 1}
      /\ plan.settle \in {"none", "pending", "done"} /\ plan.stop \in {"none", "set", "orphan"}
    BY <1>1 DEF Rows, Phases
<1>3. plan.pend.done <= Len(plan.pend.acts)
    <2>1. CASE Pending
        BY <2>1 DEF Inv, PlanOk, Decision, LenOf
    <2>2. CASE ~Pending
        BY <2>2 DEF Pending, NoPend
    <2> QED
        BY <2>1, <2>2
<1>4. \A r \in Rungs : /\ track[r].on \in {"none", "marker", "ride"} /\ track[r].got \in 0..Size[r[2]]
                       /\ fill[r] \in 0..Size[r[2]] /\ (ord[r] = "filled" <=> fill[r] = Size[r[2]])
    <2> SUFFICES ASSUME NEW r \in Rungs
                 PROVE  /\ track[r].on \in {"none", "marker", "ride"} /\ track[r].got \in 0..Size[r[2]]
                        /\ fill[r] \in 0..Size[r[2]] /\ (ord[r] = "filled" <=> fill[r] = Size[r[2]])
        OBVIOUS
    <2>1. /\ track[r].on \in {"none", "marker", "ride"} /\ track[r].got \in Nat /\ fill[r] \in Nat
          /\ Size[r[2]] \in Nat
        BY Ranges DEF Inv, Types, Tracks
    <2>2. /\ ord[r] = "filled" <=> fill[r] = Size[r[2]]
          /\ fill[r] <= Size[r[2]] /\ track[r].got <= fill[r]
        BY DEF Inv, RungsOk, RungOk
    <2> QED
        BY <2>1, <2>2
<1>5. slip \in [Rungs -> {"none", "open", "filled", "cancelled"}] /\ ord \in [Rungs -> {"none", "working", "filled", "cancelled"}]
    BY DEF Inv, Types, Slips
<1>6. /\ bought.venue \cup bought.row \subseteq Seqs
      /\ bought.refused \subseteq Seqs \ (bought.venue \cup bought.row)
    BY DEF Inv, Types, EntryOk
<1>7. /\ ride.st \in {"none", "open", "ended"} /\ ride.qty \in Nat
      /\ guard.st \in {"none", "working", "filled", "cancelled"}
      /\ {parent, net, base} \subseteq Nat /\ faults \in 0..MaxFaults
    BY DEF Inv, Types
<1>8. \A p \in Procs : proc[p].step \in {"idle", "look", "run", "cancel", "market", "refused",
                                         "handover", "handed", "ladder", "settle", "protect"}
    BY DEF Inv, Types, Parties, Steps
<1> QED
    BY <1>2, <1>3, <1>4, <1>5, <1>6, <1>7, <1>8 DEF TypeOK

(* At rest, no rung is left and every contract is held.                    *)
LEMMA InvCounts == ASSUME Inv, Quiet PROVE NothingLeftBehind /\ EveryContractIsHeld
<1>1. ~Pending /\ plan.settle # "pending" /\ \A act : ~At(act)
    BY DEF Quiet, AtRest, At
<1>2. \A r \in Rungs : slip[r] = "none" => ord[r] = "none" /\ fill[r] = 0
    BY <1>1 DEF Inv, RungsOk, RungOk
<1>3. \A r \in Rungs : slip[r] = "cancelled" => fill[r] = 0
    <2> SUFFICES ASSUME NEW r \in Rungs, slip[r] = "cancelled" PROVE fill[r] = 0
        OBVIOUS
    <2>1. RungOk(r) /\ fill[r] \in Nat
        BY DEF Inv, RungsOk, Types
    <2> QED
        BY <1>1, <2>1 DEF RungOk
<1>4. plan.phase \in {"waiting", "stopped", "closed"} => \A r \in Rungs : slip[r] # "open"
    BY <1>1 DEF Inv, OpenOk, Cleared
<1>5. NothingLeftBehind
    <2> SUFFICES ASSUME NEW r \in Rungs, ord[r] = "working"
                 PROVE  plan.phase \notin {"waiting", "stopped", "closed"} /\ Tracked(r)
        BY DEF NothingLeftBehind
    <2>1. Tracked(r) /\ slip[r] = "open"
        BY <1>2, WorkingTracked DEF Inv
    <2> QED
        BY <1>4, <2>1
<1>6. Own \in Nat /\ Ridden \in Nat /\ Unswept \in Int /\ net \in Nat /\ base \in Nat
    BY SumsNat DEF Inv, Types
<1>7. plan.phase = "riding" /\ ride.st = "open" => net = Ridden + Unswept + base
    <2> SUFFICES ASSUME plan.phase = "riding", ride.st = "open" PROVE net = Ridden + Unswept + base
        OBVIOUS
    <2>1. Lost = 0
        BY <1>2, SumTypes, SumsAre DEF Inv, Types
    <2>2. Free = Due /\ Due = 0
        BY <2>1 DEF Inv, LedgerOk, Stopped, Due, Owned
    <2> QED
        BY <1>6, <2>2 DEF Free
<1>8. plan.phase = "waiting" => net <= Ridden + Own + base
    <2> SUFFICES ASSUME plan.phase = "waiting" PROVE net <= Ridden + Own + base
        OBVIOUS
    <2>1. \A r \in Rungs : slip[r] = "filled" \/ fill[r] = 0
        <3> SUFFICES ASSUME NEW r \in Rungs PROVE slip[r] = "filled" \/ fill[r] = 0
            OBVIOUS
        <3>1. slip[r] \in {"none", "open", "filled", "cancelled"} /\ slip[r] # "open"
            BY <1>4 DEF Inv, Types, Slips
        <3> QED
            BY <1>2, <1>3, <3>1
    <2>2. Own = plan.entry + (IF plan.ended THEN 0 ELSE Sum(fill))
        BY <2>1, OwnIsAll DEF Inv
    <2>3. ~plan.ride /\ ride.st # "open" /\ ~Stopped
        BY <1>1 DEF Inv, PlanOk, RideOk, Stopped, HandedTo
    <2>4. Unswept = 0 /\ Free <= Due
        BY <2>3 DEF Inv, LedgerOk
    <2>5. Due <= Own /\ Due \in Nat
        <3>1. EntryHeld = 0
            BY <1>1, <2>3, NothingToGo DEF EntryHeld
        <3>2. Due = 0 + (IF plan.ended THEN 0 ELSE Sum(fill))
            BY <2>3, <3>1 DEF Due, Owned
        <3>3. plan.entry \in Nat /\ (IF plan.ended THEN 0 ELSE Sum(fill)) \in Nat
            BY SumsNat DEF Inv, Types, Rows
        <3>4. \A a, b \in Nat : 0 + b <= a + b /\ 0 + b \in Nat
            OBVIOUS
        <3> QED
            BY <2>2, <3>2, <3>3, <3>4
    <2> QED
        BY <1>6, <2>4, <2>5 DEF Free
<1>9. plan.settle = "done" => net - base <= Guarded
    BY DEF Inv, GuardOk
<1> QED
    BY <1>5, <1>7, <1>8, <1>9 DEF EveryContractIsHeld

(* As long as nothing came apart, every row, order and number is of its    *)
(* kind: a decision is not run past its end, no more of a rung is booked   *)
(* than its order has, and an entry on record as rejected did not fill.    *)
THEOREM TypeCorrect == Spec => [](Unspoilt => TypeOK)
<1>1. Init => IInv
    BY InitOk, FloorInit DEF IInv
<1>2. IInv => (Unspoilt => TypeOK)
    BY InvTypes DEF IInv, Unspoilt
<1> QED
    BY <1>1, <1>2, IInvStep, PTL DEF Spec

(* Whenever a plan is at rest, whatever failed, filled, fired or was       *)
(* stopped on the way, no rung is left at the venue that no row knows, and *)
(* each contract is somebody's. What makes it so is the ledger (LedgerOk): *)
(* what the venue holds beyond the rides and the user is what the plan     *)
(* bought and has on record, action by action of a decision.               *)
THEOREM PlanCounts == Spec => []PlanKeepsCount
<1>1. Init => IInv
    BY InitOk, FloorInit DEF IInv
<1>2. IInv => PlanKeepsCount
    BY InvCounts DEF IInv, PlanKeepsCount
<1> QED
    BY <1>1, <1>2, IInvStep, PTL DEF Spec
=============================================================================
