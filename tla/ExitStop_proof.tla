--------------------------- MODULE ExitStop_proof ---------------------------
(***************************************************************************)
(* Proofs about the protective stop, for every set of order ids, every     *)
(* sequence of levels and every bound of faults.                           *)
(***************************************************************************)
EXTENDS ExitStop, FiniteSetTheorems, TLAPS

Ids == Orders \cup {None}

OrdType == [st : OrderState, lvl : Levels]
RowType == [active : BOOLEAN, seq : {0} \cup Seqs, cur : Levels, engine : Levels, slot : Slot]
Acts    == {"none", "update", "sweep"}
Answers == {"", "acked", "gone", "error", "threw"}
OpType  == [act : Acts, step : Steps, u : {0} \cup Seqs, old : Ids, new : Ids,
            ans : Answers, retired : BOOLEAN, todo : SUBSET Orders]

TypeInv ==
    /\ cfg \in Configs
    /\ ord \in [Orders -> OrdType] /\ unread \subseteq Orders /\ net \in Int
    /\ open \in BOOLEAN /\ row \in RowType /\ brk \in Ids /\ rec \in Ids
    /\ settled \in BOOLEAN /\ told \in Nat
    /\ op \in OpType /\ faults \in 0..MaxFaults /\ loose \subseteq Ways

----------------------------------------------------------------------------
(* Types.                                                                  *)
LEMMA LevelsType == Levels \subseteq Nat /\ 0 \in Levels /\ \A u \in Seqs : Level[u] \in Levels
BY ExitStopAssumption DEF Levels

LEMMA CfgType == TypeInv => Plain \in BOOLEAN /\ PlaceFirst \in BOOLEAN /\ Verify \in BOOLEAN
                            /\ (PlaceFirst => Plain) /\ (Verify => Plain) /\ (Plain => PlaceFirst \/ Verify)
BY ExitStopAssumption DEF TypeInv, Plain, PlaceFirst, Verify

(* An order id is no marker, nor is no order one.                          *)
LEMMA SlotType ==
    /\ \A o \in Ids : ~IsMarker(o)
    /\ \A m : IsMarker(m) => m \in Slot /\ m \notin Ids /\ m.lvl \in Levels /\ m.keep \in Ids
    /\ \A l \in Levels, k \in Ids : IsMarker([lvl |-> l, keep |-> k])
    /\ Ids \subseteq Slot
    /\ \A s \in Slot : s \in Ids \/ IsMarker(s)
<1>1. Markers \subseteq [lvl : Nat, keep : Orders \cup {None}]
    BY LevelsType DEF Markers
<1>2. \A o \in Ids : o \notin Markers
    BY <1>1, ExitStopAssumption DEF Ids
<1>3. \A m \in Markers : m.lvl \in Levels /\ m.keep \in Ids
    BY DEF Markers, Ids
<1>4. \A l \in Levels, k \in Ids : [lvl |-> l, keep |-> k] \in Markers
    BY DEF Markers, Ids
<1> QED
    BY <1>2, <1>3, <1>4 DEF IsMarker, Slot, Ids

LEMMA RowFields ==
    TypeInv => /\ row.active \in BOOLEAN /\ row.seq \in {0} \cup Seqs /\ row.cur \in Levels /\ row.engine \in Levels
               /\ row.slot \in Slot
BY DEF TypeInv, RowType

LEMMA OpFields ==
    TypeInv => /\ op.act \in Acts /\ op.step \in Steps /\ op.u \in {0} \cup Seqs /\ op.old \in Ids /\ op.new \in Ids
               /\ op.ans \in Answers /\ op.retired \in BOOLEAN /\ op.todo \subseteq Orders
BY DEF TypeInv, OpType

LEMMA OrdFields == TypeInv => \A o \in Orders : ord[o] \in OrdType /\ ord[o].st \in OrderState /\ ord[o].lvl \in Levels
BY DEF TypeInv, OrdType

LEMMA FaultType == TypeInv /\ (Fault \/ NoFault) => faults' \in 0..MaxFaults
BY ExitStopAssumption DEF TypeInv, Fault, NoFault


LEMMA IdleType == Idle \in OpType
BY DEF Idle, OpType, Acts, Steps, Ids, Answers
(* What the helpers do to the holder of the lock.                          *)
Carried == op'.act = op.act /\ op'.u = op.u /\ op'.old = op.old /\ op'.todo = op.todo

LEMMA GotoDoes ==
    ASSUME TypeInv, NEW s \in Steps, Goto(s)
    PROVE op' \in OpType /\ Carried /\ op'.step = s /\ op'.new = op.new /\ op'.ans = op.ans /\ op'.retired = op.retired
BY DEF TypeInv, Goto, OpType, Carried

LEMMA PlacedDoes ==
    ASSUME TypeInv, NEW o \in Orders, Placed(o)
    PROVE /\ op' \in OpType /\ Carried /\ op'.new = o /\ op'.ans = op.ans /\ op'.retired = op.retired
          /\ op'.step = IF PlaceFirst /\ op.old # None THEN "cancel" ELSE "commit"
<1>1. PICK s \in Steps : s = IF PlaceFirst /\ op.old # None THEN "cancel" ELSE "commit"
    BY DEF Steps
<1>2. op' = [op EXCEPT !.new = o, !.step = s]
    BY <1>1 DEF Placed
<1> QED
    BY <1>1, <1>2 DEF TypeInv, OpType, Carried, Ids

LEMMA AfterRetireDoes ==
    ASSUME TypeInv, NEW out, AfterRetire(out)
    PROVE /\ op' \in OpType
          /\ \/ /\ out \in {"cancelled", "gone"}
                /\ Carried /\ op'.new = op.new /\ op'.ans = op.ans /\ op'.retired
                /\ op'.step = IF PlaceFirst THEN "commit" ELSE "place"
             \/ /\ out \notin {"cancelled", "gone"} /\ PlaceFirst
                /\ Carried /\ op'.new = op.new /\ op'.ans = op.ans /\ op'.retired = op.retired
                /\ op'.step = "withdraw"
             \/ /\ out = "failed" /\ ~Plain
                /\ Carried /\ op'.new = op.new /\ op'.ans = op.ans /\ op'.retired = op.retired
                /\ op'.step = "place"
             \/ out \notin {"cancelled", "gone"} /\ ~PlaceFirst /\ op' = Idle
<1>1. CASE out \in {"cancelled", "gone"}
    <2>1. PICK s \in Steps : s = IF PlaceFirst THEN "commit" ELSE "place"
        BY DEF Steps
    <2>2. op' = [op EXCEPT !.retired = TRUE, !.step = s]
        BY <1>1, <2>1 DEF AfterRetire
    <2> QED
        BY <1>1, <2>1, <2>2 DEF TypeInv, OpType, Carried
<1>2. CASE out \notin {"cancelled", "gone"} /\ PlaceFirst
    <2>1. Goto("withdraw")
        BY <1>2 DEF AfterRetire
    <2> QED
        BY <1>2, <2>1, GotoDoes DEF Steps
<1>3. CASE out \notin {"cancelled", "gone"} /\ ~PlaceFirst /\ out = "failed" /\ ~Plain
    <2>1. Goto("place")
        BY <1>3 DEF AfterRetire
    <2> QED
        BY <1>3, <2>1, GotoDoes DEF Steps
<1>4. CASE out \notin {"cancelled", "gone"} /\ ~PlaceFirst /\ (out # "failed" \/ Plain)
    <2>1. op' = Idle
        BY <1>4 DEF AfterRetire, Release
    <2> QED
        BY <1>4, <2>1, IdleType
<1> QED
    BY <1>1, <1>2, <1>3, <1>4

LEMMA GoPollDoes ==
    ASSUME TypeInv, NEW r, NEW b, GoPoll(r, b)
    PROVE /\ op' \in OpType /\ op'.step = "poll" /\ op'.old = None /\ op'.todo = Candidates(r, b)
          /\ op'.act = op.act /\ op'.new = op.new /\ op'.u = op.u /\ op'.ans = op.ans /\ op'.retired = op.retired
<1>1. PICK todo \in SUBSET Orders : todo = Candidates(r, b)
    BY DEF Candidates
<1>2. op' = [op EXCEPT !.step = "poll", !.old = None, !.todo = todo]
    BY <1>1 DEF GoPoll
<1>3. "poll" \in Steps /\ None \in Ids
    BY DEF Steps, Ids
<1> QED
    BY <1>1, <1>2, <1>3 DEF TypeInv, OpType

LEMMA DoneDoes ==
    ASSUME TypeInv, NEW o \in Orders, Done(o)
    PROVE /\ op' \in OpType
          /\ \/ op' = Idle
             \/ /\ op'.step = "poll" /\ op'.old = None /\ op'.todo = op.todo \ {o}
                /\ op'.act = op.act /\ op'.new = op.new /\ op'.u = op.u /\ op'.ans = op.ans /\ op'.retired = op.retired
<1>1. CASE op.todo \subseteq {o}
    BY <1>1, IdleType DEF Done
<1>2. CASE ~(op.todo \subseteq {o})
    <2>1. op' = [op EXCEPT !.step = "poll", !.old = None, !.todo = @ \ {o}]
        BY <1>2 DEF Done
    <2>2. "poll" \in Steps /\ None \in Ids
        BY DEF Steps, Ids
    <2> QED
        BY <2>1, <2>2 DEF TypeInv, OpType
<1> QED
    BY <1>1, <1>2
----------------------------------------------------------------------------
(* The invariant.                                                          *)
Retiring    == {"cancel", "status", "read1", "read2"}
UpdateSteps == {"live", "place", "find", "withdraw", "commit"} \cup Retiring
SweepSteps  == {"pending", "unpend", "heal", "poll", "read1", "read2"}

Live(o) == ord[o].st \in {"inflight", "working", "firing"}
Dead(o) == ord[o].st \in {"cancelled", "dropped"}
Parking == row.active /\ IsMarker(row.slot)

(* An update works on the recorded stop. The new one is there before the   *)
(* old is retired exactly if it is placed first, and a plain stop that is  *)
(* not placed first is placed only where no old one is left.               *)
UpdateInv ==
    op.act = "update" =>
        /\ op.step \in UpdateSteps /\ op.u \in Seqs /\ op.todo = {}
        /\ open /\ row.active /\ Level[op.u] > row.cur
        /\ op.step = "live" => op.old = None
        /\ op.step # "live" => op.old = rec /\ ~IsMarker(row.slot)
        /\ op.step \in Retiring => op.old # None /\ (PlaceFirst <=> op.new # None)
        /\ op.step \in {"live", "place", "find"} => op.new = None
        /\ op.step \in {"withdraw", "commit"} => op.new # None
        /\ op.step = "withdraw" => PlaceFirst /\ op.old # None
        /\ op.step = "find" => Verify
        /\ op.step \in {"live", "withdraw"} \cup Retiring => ~op.retired
        /\ op.step \in {"place", "find"} /\ PlaceFirst => ~op.retired
        /\ op.step \in {"place", "find"} /\ Plain /\ ~PlaceFirst => op.retired \/ op.old = None
        /\ op.step = "commit" => op.retired \/ op.old = None \/ ~Plain
        /\ op.new # None => op.new \notin {rec, brk} /\ ord[op.new].lvl = Level[op.u]
        /\ op.step \in {"read1", "read2"} => ord[op.old].st # "working"
        /\ op.step = "status" /\ op.ans = "acked" => ord[op.old].st \in {"cancelled", "filled"} /\ op.old \notin unread
        /\ op.retired => op.old # None /\ (Dead(op.old) \/ (ord[op.old].st = "filled" /\ "unread" \in loose))

(* What the sweep still has to look at is what a new look would find.      *)
SweepInv ==
    /\ op.act = "none" => op = Idle
    /\ op.act = "sweep" =>
        /\ op.step \in SweepSteps /\ op.new = None
        /\ op.step \in {"pending", "unpend"} => Parking /\ op.todo = {}
        /\ op.step = "heal" => op.todo = {}
        /\ op.step = "unpend" => /\ op.old \notin {None, brk, rec} /\ ord[op.old].lvl = row.slot.lvl
                                 /\ ~open \/ row.slot.keep # None
        /\ op.step \in {"read1", "read2"} => op.old # None /\ op.old \in op.todo /\ ord[op.old].st # "working"
        /\ open => op.todo \subseteq Candidates(row, brk)

OrderInv ==
    /\ \A o \in Orders : ord[o].st \in {"none", "inflight"} => o \notin {brk, rec, op.old, op.new}
    /\ \A o \in unread : ord[o].st \in {"filled", "dropped"}
    /\ \A o \in Orders : ord[o].st = "filled" => net <= 0
    /\ net <= 1
    /\ ~open => net <= 0
    /\ told > 0 => ~open /\ ~row.active
    /\ told <= 1

(* The server row names the recorded stop, or is parked and keeps it; the  *)
(* stop has the level the row shows, and a parked one a better level.      *)
RowInv ==
    /\ row.slot \in Orders => row.slot = rec
    /\ IsMarker(row.slot) => /\ row.slot.keep = rec
                             /\ IF rec = None THEN row.slot.lvl = row.cur ELSE row.slot.lvl > row.cur
    /\ row.engine = row.cur
    /\ rec # None => ord[rec].lvl = row.cur

(* A plain stop is not in the bracket alone.                               *)
PairInv ==
    /\ PlaceFirst => rec # None /\ brk \in {rec, None} /\ (open /\ brk = None => Dead(rec))
    /\ IsMarker(row.slot) => Verify /\ (rec # None => PlaceFirst)
    /\ Plain /\ brk # None => ~Live(brk) \/ brk = rec

Handled(o) == o \in {rec, op.new}
Awaited(o) ==
    /\ ord[o].st \in {"inflight", "working"}
    /\ \/ op.step = "find" /\ ord[o].lvl = Level[op.u]
       \/ Parking /\ ord[o].lvl = row.slot.lvl

(* Of plain stops there rest the recorded one, the one being placed and at *)
(* most one that is looked for, which has not fired.                       *)
Lost == loose \cap {"orphan", "forgotten", "missed", "thrown"} # {}
NameInv ==
    Plain /\ ~Lost =>
        /\ \A o \in Orders : Live(o) => Handled(o) \/ Awaited(o)
        /\ \A o, p \in Orders : Live(o) /\ Live(p) /\ ~Handled(o) /\ ~Handled(p) => o = p

(* Once the lineage is out no plain stop fires: what rests yet is the      *)
(* other one of a pair, or looked for.                                     *)
Sure == Plain /\ loose \subseteq {"flat", "left"}
SoldInv ==
    /\ ~Plain => net >= 0
    /\ Sure =>
        /\ net >= 0
        /\ \A o, p \in Orders : ord[o].st = "firing" /\ ord[p].st = "firing" => o = p
        /\ net < 1 => \A o \in Orders : ord[o].st # "firing"
        /\ net < 1 => \A o \in Orders : Live(o) => ~Handled(o) \/ (op.new # None /\ op.step # "commit")
        /\ net < 1 /\ op.act = "update" /\ op.step # "live" =>
              \E o \in {op.old, op.new} \ {None} : ord[o].st = "filled"
        /\ open /\ Parking /\ rec = None => net = 1

(* What can take the lineage out is where the sweep looks, and so is what  *)
(* took it out.                                                            *)
Tracked(o) == o = brk \/ o = op.new \/ (row.active /\ o = row.slot)
TrackInv ==
    open /\ loose = {} =>
        /\ \A o \in Orders : Live(o) => Tracked(o) \/ (Plain /\ ~Handled(o)) \/ (o = rec /\ PlaceFirst)
        /\ net < 1 => \E o \in Orders : Tracked(o) /\ ord[o].st = "filled"

(* As many orders as there are can fill, and one more is placed only by an *)
(* update that began while the lineage was in.                             *)
Alive  == {o \in Orders : Live(o)}
Before == op.act = "update" /\ op.new = None /\ op.step \in Retiring \cup {"place"}
CountInv ==
    /\ net - Cardinality(Alive) >= -Cardinality(Orders)
    /\ Before => net - Cardinality(Alive) >= 1 - Cardinality(Orders)

Inv == TypeInv /\ UpdateInv /\ SweepInv /\ OrderInv /\ RowInv /\ PairInv /\ NameInv /\ SoldInv /\ TrackInv /\ CountInv
----------------------------------------------------------------------------
(* Counting.                                                               *)
LEMMA AliveCount ==
    ASSUME NEW S \in SUBSET Orders
    PROVE /\ IsFiniteSet(S) /\ Cardinality(S) \in Nat /\ Cardinality(Orders) \in Nat
          /\ Cardinality(S) <= Cardinality(Orders)
          /\ \A T \in SUBSET S : Cardinality(T) \in Nat /\ Cardinality(T) <= Cardinality(S)
          /\ \A o \in S : Cardinality(S \ {o}) = Cardinality(S) - 1
          /\ \A o \in Orders : Cardinality(S \cup {o}) \in Nat /\ Cardinality(S \cup {o}) <= Cardinality(S) + 1
<1>1. IsFiniteSet(S) /\ Cardinality(S) <= Cardinality(Orders)
    BY FS_Subset, ExitStopAssumption
<1>2. Cardinality(S) \in Nat /\ Cardinality(Orders) \in Nat
    BY <1>1, FS_CardinalityType, ExitStopAssumption
<1>3. ASSUME NEW T \in SUBSET S PROVE Cardinality(T) \in Nat /\ Cardinality(T) <= Cardinality(S)
    BY <1>1, FS_Subset, FS_CardinalityType
<1>4. ASSUME NEW o \in S PROVE Cardinality(S \ {o}) = Cardinality(S) - 1
    BY <1>1, FS_RemoveElement
<1>5. ASSUME NEW o \in Orders PROVE Cardinality(S \cup {o}) \in Nat /\ Cardinality(S \cup {o}) <= Cardinality(S) + 1
    <2>1. PICK T : T = S \cup {o}
        OBVIOUS
    <2>2. Cardinality(T) = IF o \in S THEN Cardinality(S) ELSE Cardinality(S) + 1
        BY <1>1, <2>1, FS_AddElement
    <2> QED
        BY <1>2, <2>1, <2>2
<1> QED
    BY <1>1, <1>2, <1>3, <1>4, <1>5

LEMMA AliveType == Alive \in SUBSET Orders /\ Alive' \in SUBSET Orders
BY DEF Alive

LEMMA CountFewer ==
    ASSUME TypeInv, TypeInv', CountInv, Alive' \subseteq Alive, net' >= net, Before' => Before
    PROVE CountInv'
<1>1. Cardinality(Alive') \in Nat /\ Cardinality(Alive) \in Nat /\ Cardinality(Alive') <= Cardinality(Alive)
      /\ Cardinality(Orders) \in Nat
    BY AliveCount, AliveType
<1>2. net \in Int /\ net' \in Int
    BY DEF TypeInv
<1> QED
    BY <1>1, <1>2 DEF CountInv

LEMMA CountFills ==
    ASSUME TypeInv, TypeInv', CountInv, NEW o \in Alive, Alive' \subseteq Alive \ {o}, net' >= net - 1, Before' => Before
    PROVE CountInv'
<1>1. Alive \ {o} \in SUBSET Alive
    OBVIOUS
<1>2. Cardinality(Alive) \in Nat /\ Cardinality(Alive \ {o}) = Cardinality(Alive) - 1 /\ Cardinality(Orders) \in Nat
    BY AliveCount, AliveType
<1>3. Cardinality(Alive') \in Nat /\ Cardinality(Alive') <= Cardinality(Alive \ {o})
    BY AliveCount, AliveType
<1>4. net \in Int /\ net' \in Int
    BY DEF TypeInv
<1> QED
    BY <1>2, <1>3, <1>4 DEF CountInv

LEMMA CountIn ==
    ASSUME TypeInv', net' = 1 PROVE CountInv'
<1>1. Cardinality(Alive') \in Nat /\ Cardinality(Orders) \in Nat /\ Cardinality(Alive') <= Cardinality(Orders)
    BY AliveCount, AliveType
<1> QED
    BY <1>1 DEF CountInv

LEMMA CountPlaced ==
    ASSUME TypeInv, TypeInv', CountInv, Before, NEW o \in Orders, Alive' \subseteq Alive \cup {o}, net' = net, ~Before'
    PROVE CountInv'
<1>1. Cardinality(Alive) \in Nat /\ Cardinality(Alive \cup {o}) \in Nat
      /\ Cardinality(Alive \cup {o}) <= Cardinality(Alive) + 1 /\ Cardinality(Orders) \in Nat
    BY AliveCount, AliveType
<1>2. Alive \cup {o} \in SUBSET Orders
    BY AliveType
<1>3. Cardinality(Alive') \in Nat /\ Cardinality(Alive') <= Cardinality(Alive \cup {o})
    BY <1>2, AliveCount
<1>4. net \in Int
    BY DEF TypeInv
<1> QED
    BY <1>1, <1>3, <1>4 DEF CountInv

LEMMA CountGives == TypeInv /\ CountInv => net >= -Cardinality(Orders)
<1>1. Cardinality(Alive) \in Nat /\ Cardinality(Orders) \in Nat
    BY AliveCount, AliveType
<1> QED
    BY <1>1 DEF TypeInv, CountInv
----------------------------------------------------------------------------
(* The start.                                                              *)
LEMMA InvInit == Init => Inv
<1> SUFFICES ASSUME Init PROVE Inv
    OBVIOUS
<1>1. PICK o \in Orders :
          /\ ord = [x \in Orders |-> [st |-> IF x = o THEN "working" ELSE "none", lvl |-> 0]]
          /\ row = [active |-> TRUE, seq |-> 0, cur |-> 0, engine |-> 0, slot |-> o]
          /\ brk = o /\ rec = o
    BY DEF Init
<1>2. /\ cfg \in Configs /\ unread = {} /\ net = 1 /\ open = TRUE /\ settled = FALSE /\ told = 0 /\ op = Idle
      /\ faults = 0 /\ loose = {}
    BY DEF Init
<1>3. /\ \A x \in Orders : ord[x].st = (IF x = o THEN "working" ELSE "none") /\ ord[x].lvl = 0
      /\ o # None
    BY <1>1, ExitStopAssumption
<1>4. row.active /\ row.slot = o /\ row.cur = 0 /\ row.engine = 0 /\ ~IsMarker(row.slot)
    BY <1>1, SlotType DEF Ids
<1>5. op.act = "none" /\ op.step = "" /\ op.new = None /\ op.old = None
    BY <1>2 DEF Idle
<1>6. TypeInv
    <2>1. ord \in [Orders -> OrdType]
        BY <1>1, LevelsType DEF OrdType, OrderState
    <2>2. row \in RowType
        BY <1>1, LevelsType DEF RowType, Slot
    <2>3. faults \in 0..MaxFaults
        BY <1>2, ExitStopAssumption
    <2>4. brk \in Ids /\ rec \in Ids
        BY <1>1 DEF Ids
    <2>5. unread \subseteq Orders /\ loose \subseteq Ways /\ op \in OpType
        BY <1>2, IdleType
    <2>6. net \in Int /\ told \in Nat
        BY <1>2
    <2>7. open \in BOOLEAN /\ settled \in BOOLEAN /\ cfg \in Configs
        BY <1>2
    <2> QED
        BY <2>1, <2>2, <2>3, <2>4, <2>5, <2>6, <2>7 DEF TypeInv
<1>7. CountInv
    <2>1. Cardinality(Alive) \in Nat /\ Cardinality(Orders) \in Nat /\ Cardinality(Alive) <= Cardinality(Orders)
        BY AliveCount, AliveType
    <2> QED
        BY <1>2, <2>1 DEF CountInv
<1>8. UpdateInv /\ SweepInv
    BY <1>2, <1>5 DEF UpdateInv, SweepInv
<1>9. OrderInv
    <2>1. \A x \in Orders : ord[x].st \in {"none", "inflight"} => x \notin {brk, rec, op.old, op.new}
        BY <1>1, <1>3, <1>5, ExitStopAssumption
    <2>2. \A x \in Orders : ord[x].st # "filled"
        BY <1>3
    <2> QED
        BY <1>2, <2>1, <2>2 DEF OrderInv
<1>10. RowInv /\ PairInv
    BY <1>1, <1>3, <1>4 DEF RowInv, PairInv
<1>11. NameInv
    BY <1>1, <1>3 DEF NameInv, Live, Handled
<1>12. SoldInv
    <2>1. \A x \in Orders : ord[x].st # "firing"
        BY <1>3
    <2> QED
        BY <1>2, <2>1 DEF SoldInv
<1>13. TrackInv
    BY <1>1, <1>2, <1>3 DEF TrackInv, Tracked, Live
<1> QED
    BY <1>6, <1>7, <1>8, <1>9, <1>10, <1>11, <1>12, <1>13 DEF Inv

----------------------------------------------------------------------------
(* The venue.                                                              *)
LEMMA SetOrdDoes ==
    ASSUME TypeInv, NEW o \in Orders, NEW st \in OrderState, SetOrd(o, st)
    PROVE /\ ord' \in [Orders -> OrdType] /\ ord'[o].st = st
          /\ \A p \in Orders : ord'[p].lvl = ord[p].lvl
          /\ \A p \in Orders : p # o => ord'[p] = ord[p]
<1>1. PICK new \in OrdType : new = [ord[o] EXCEPT !.st = st]
    BY OrdFields DEF OrdType
<1>2. new.st = st /\ new.lvl = ord[o].lvl
    BY <1>1, OrdFields DEF OrdType
<1>3. ord' = [ord EXCEPT ![o] = new]
    BY <1>1 DEF SetOrd, TypeInv
<1> QED
    BY <1>2, <1>3 DEF TypeInv

(* The venue's own steps leave the executor as it is.                      *)
Aside == UNCHANGED <<cfg, book, op, faults>>

LEMMA AsideDoes ==
    ASSUME Aside
    PROVE /\ UNCHANGED <<cfg, open, row, brk, rec, settled, told, op, faults>>
          /\ Plain' = Plain /\ PlaceFirst' = PlaceFirst /\ Verify' = Verify /\ Parking' = Parking
          /\ \A o : Handled(o)' = Handled(o) /\ Tracked(o)' = Tracked(o)
BY DEF Aside, book, Plain, PlaceFirst, Verify, Parking, Handled, Tracked

LEMMA AsideRows ==
    ASSUME TypeInv, Aside, RowInv, PairInv, \A o \in Orders : ord'[o].lvl = ord[o].lvl,
           \A o \in Orders : Live(o)' => Live(o), \A o \in Orders : Dead(o) => Dead(o)'
    PROVE RowInv' /\ PairInv'
<1>1. /\ UNCHANGED <<cfg, open, row, brk, rec, settled, told, op, faults>>
      /\ Plain' = Plain /\ PlaceFirst' = PlaceFirst /\ Verify' = Verify
    BY AsideDoes
<1>2. rec \in Ids /\ brk \in Ids
    BY DEF TypeInv
<1>3. RowInv'
    BY <1>1, <1>2 DEF RowInv, Ids
<1> QED
    BY <1>1, <1>2, <1>3 DEF PairInv, Ids
LEMMA IdleFields == Idle.act = "none" /\ Idle.step = "" /\ Idle.old = None /\ Idle.new = None /\ Idle.todo = {}
BY DEF Idle

LEMMA Updating == TypeInv /\ SweepInv /\ (op.new # None \/ op.step \in UpdateSteps \ {"read1", "read2"}) => op.act = "update"
<1> SUFFICES ASSUME TypeInv, SweepInv, op.new # None \/ op.step \in UpdateSteps \ {"read1", "read2"}, op.act # "update"
             PROVE FALSE
    OBVIOUS
<1>1. op.act \in {"none", "sweep"}
    BY OpFields DEF Acts
<1>2. CASE op.act = "none"
    <2>1. op = Idle
        BY <1>2 DEF SweepInv
    <2> QED
        BY <2>1, IdleFields DEF UpdateSteps, Retiring
<1>3. CASE op.act = "sweep"
    <2>1. op.step \in SweepSteps /\ op.new = None
        BY <1>3 DEF SweepInv
    <2> QED
        BY <2>1 DEF UpdateSteps, Retiring, SweepSteps
<1> QED
    BY <1>1, <1>2, <1>3

(* When a plain stop is recorded, the one before does not rest any more.   *)
LEMMA CommitAlone ==
    ASSUME TypeInv, UpdateInv, SweepInv, Plain, op.step = "commit"
    PROVE /\ op.act = "update" /\ op.new # None /\ op.old = rec
          /\ rec # None => ~Live(rec)
          /\ rec # None => Dead(rec) \/ (ord[rec].st = "filled" /\ "unread" \in loose)
<1>1. op.act = "update"
    BY Updating DEF UpdateSteps
<1>2. op.new # None /\ op.old = rec /\ (op.retired \/ op.old = None)
    BY <1>1 DEF UpdateInv
<1>3. rec # None => Dead(rec) \/ (ord[rec].st = "filled" /\ "unread" \in loose)
    BY <1>1, <1>2 DEF UpdateInv
<1> QED
    BY <1>1, <1>2, <1>3 DEF Dead, Live

(* The order an operation holds is not changed by the venue but as here.   *)
LEMMA AsideOp ==
    ASSUME TypeInv, Aside, UpdateInv, SweepInv, \A o \in Orders : ord'[o].lvl = ord[o].lvl, loose \subseteq loose',
           op.old # None => /\ ord[op.old].st # "working" => ord'[op.old].st # "working"
                            /\ ord[op.old].st \in {"cancelled", "dropped", "filled"} => ord'[op.old].st = ord[op.old].st
                            /\ op.old \in unread' => op.old \in unread \/ ord[op.old].st = "firing"
    PROVE UpdateInv' /\ SweepInv'
<1>1. /\ UNCHANGED <<cfg, open, row, brk, rec, settled, told, op, faults>>
      /\ Plain' = Plain /\ PlaceFirst' = PlaceFirst /\ Verify' = Verify /\ Parking' = Parking
    BY AsideDoes
<1>2. op.old \in Ids /\ op.new \in Ids /\ rec \in Ids /\ op.act \in Acts
    BY OpFields DEF TypeInv
<1>3. UpdateInv'
    <2> SUFFICES ASSUME op.act = "update" PROVE UpdateInv'
        BY <1>1 DEF UpdateInv
    <2>1. op.new # None => ord'[op.new].lvl = Level[op.u]
        BY <1>2 DEF UpdateInv, Ids
    <2>2. op.step \in {"read1", "read2"} => ord'[op.old].st # "working"
        BY DEF UpdateInv, Retiring
    <2>3. op.step = "status" => op.old # None
        BY DEF UpdateInv, Retiring
    <2>4. op.step = "status" /\ op.ans = "acked" => ord[op.old].st \in {"cancelled", "filled"} /\ op.old \notin unread
        BY DEF UpdateInv
    <2>5. op.step = "status" /\ op.ans = "acked" => ord'[op.old].st \in {"cancelled", "filled"} /\ op.old \notin unread'
        BY <2>3, <2>4
    <2>6. op.retired => op.old # None /\ (Dead(op.old) \/ (ord[op.old].st = "filled" /\ "unread" \in loose))
        BY DEF UpdateInv
    <2>7. op.retired => op.old # None /\ (Dead(op.old)' \/ (ord'[op.old].st = "filled" /\ "unread" \in loose'))
        BY <1>1, <2>6 DEF Dead
    <2> QED
        BY <1>1, <2>1, <2>2, <2>5, <2>7 DEF UpdateInv
<1>4. SweepInv'
    <2>1. Candidates(row, brk)' = Candidates(row, brk)
        BY <1>1 DEF Candidates
    <2>2. op.act = "sweep" /\ op.step = "unpend" => ord'[op.old].lvl = row.slot.lvl
        BY <1>2 DEF SweepInv, Ids
    <2>3. op.act = "sweep" /\ op.step \in {"read1", "read2"} => ord'[op.old].st # "working"
        BY DEF SweepInv
    <2> QED
        BY <1>1, <2>1, <2>2, <2>3 DEF SweepInv
<1> QED
    BY <1>3, <1>4

LEMMA ExecuteKeeps == ASSUME Inv, NEW o \in Orders, Execute(o) PROVE Inv'
<1>0. /\ TypeInv /\ UpdateInv /\ SweepInv /\ OrderInv /\ RowInv /\ PairInv /\ NameInv /\ SoldInv /\ TrackInv /\ CountInv
      /\ o \in Ids /\ net \in Int
    BY DEF Inv, Ids, TypeInv
<1>1. Aside /\ ord[o].st = "firing" /\ loose' = loose /\ unread' \subseteq unread \cup {o}
    BY DEF Execute, Aside, book
<1>2. PICK st \in {"filled", "dropped"} :
          /\ SetOrd(o, st) /\ net' = IF st = "filled" THEN net - 1 ELSE net
          /\ st = "filled" => Plain \/ net > 0
    BY DEF Execute
<1>3. /\ ord' \in [Orders -> OrdType] /\ ord'[o].st = st /\ \A p \in Orders : ord'[p].lvl = ord[p].lvl
      /\ \A p \in Orders : p # o => ord'[p] = ord[p]
    BY <1>0, <1>2, SetOrdDoes DEF OrderState
<1>4. /\ UNCHANGED <<cfg, open, row, brk, rec, settled, told, op, faults>>
      /\ Plain' = Plain /\ PlaceFirst' = PlaceFirst /\ Verify' = Verify /\ Parking' = Parking
      /\ \A p : Handled(p)' = Handled(p) /\ Tracked(p)' = Tracked(p)
    BY <1>1, AsideDoes
<1>5. /\ \A p \in Orders : Live(p)' => Live(p) /\ p # o
      /\ \A p \in Orders : Dead(p) => Dead(p)'
      /\ Live(o)
    BY <1>1, <1>3 DEF Live, Dead
<1>6. TypeInv'
    <2>1. net' \in Int /\ unread' \subseteq Orders
        BY <1>0, <1>1, <1>2 DEF TypeInv
    <2> QED
        BY <1>0, <1>1, <1>3, <1>4, <2>1 DEF TypeInv
<1>7. RowInv' /\ PairInv'
    BY <1>0, <1>1, <1>3, <1>5, AsideRows
<1>8. UpdateInv' /\ SweepInv'
    BY <1>0, <1>1, <1>2, <1>3, OpFields, AsideOp DEF Ids
<1>10. OrderInv'
    <2>1. net' <= net /\ net' \in Int
        BY <1>0, <1>2
    <2>2. \A p \in Orders : ord'[p].st = "filled" => net' <= 0
        BY <1>0, <1>2, <1>3, <2>1 DEF OrderInv
    <2>3. \A p \in Orders : ord'[p].st \in {"none", "inflight"} => ord[p].st \in {"none", "inflight"}
        BY <1>2, <1>3
    <2>4. \A p \in unread' : ord'[p].st \in {"filled", "dropped"}
        BY <1>0, <1>1, <1>2, <1>3 DEF OrderInv, TypeInv
    <2>5. net' <= 1 /\ (~open => net' <= 0)
        BY <1>0, <2>1 DEF OrderInv
    <2> QED
        BY <1>0, <1>4, <2>2, <2>3, <2>4, <2>5 DEF OrderInv
<1>11. NameInv'
    BY <1>0, <1>1, <1>3, <1>4, <1>5 DEF NameInv, Lost, Awaited
<1>12. SoldInv'
    <2>1. ~Plain => net' >= 0
        BY <1>0, <1>2 DEF SoldInv
    <2>2. ASSUME Sure PROVE net >= 1 \/ st = "dropped"
        BY <1>0, <1>1, <1>2, <2>2 DEF SoldInv
    <2>3. \A p \in Orders : ord'[p].st = "firing" => p # o /\ ord[p].st = "firing"
        BY <1>2, <1>3
    <2>4. ASSUME Sure, st = "filled"
          PROVE /\ net = 1 /\ net' = 0 /\ \A p \in Orders : ord[p].st = "firing" => p = o
        BY <1>0, <1>1, <1>2, <2>2, <2>4 DEF SoldInv, OrderInv
    <2>5. ASSUME Sure, net' < 1, NEW p \in Orders, Live(p)', Handled(p), ~(op.new # None /\ op.step # "commit") PROVE FALSE
        <3>1. Live(p) /\ p # o
            BY <1>5, <2>5
        <3>2. CASE net < 1
            BY <1>0, <2>5, <3>1, <3>2 DEF SoldInv
        <3>3. CASE net >= 1
            <4>1. st = "filled"
                BY <1>2, <2>5, <3>3
            <4>2. Handled(o)
                BY <1>0, <1>1, <1>5, <2>5 DEF NameInv, Lost, Sure, Awaited
            <4>3. op.new # None /\ op.step = "commit"
                BY <1>0, <2>5, <3>1, <4>2, ExitStopAssumption DEF Handled, Ids
            <4>4. Plain
                BY <2>5 DEF Sure
            <4>5. rec # None => ~Live(rec)
                BY <1>0, <4>3, <4>4, CommitAlone
            <4> QED
                BY <2>5, <3>1, <4>2, <4>3, <4>5, <1>5, ExitStopAssumption DEF Handled
        <3> QED
            BY <1>0, <3>2, <3>3
    <2>6. ASSUME Sure, net' < 1, op.act = "update", op.step # "live"
          PROVE \E p \in {op.old, op.new} \ {None} : ord'[p].st = "filled"
        <3>1. CASE net < 1
            <4>1. PICK p \in {op.old, op.new} \ {None} : ord[p].st = "filled"
                BY <1>0, <2>6, <3>1 DEF SoldInv
            <4>2. p \in Orders /\ p # o
                BY <1>0, <1>1, <4>1, OpFields DEF Ids
            <4> QED
                BY <1>3, <4>1, <4>2
        <3>2. CASE net >= 1
            <4>1. st = "filled"
                BY <1>2, <2>6, <3>2
            <4>2. Handled(o)
                BY <1>0, <1>1, <1>5, <2>6 DEF NameInv, Lost, Sure, Awaited
            <4>3. op.old = rec
                BY <1>0, <2>6 DEF UpdateInv
            <4> QED
                BY <1>3, <4>1, <4>2, <4>3, ExitStopAssumption DEF Handled
        <3> QED
            BY <1>0, <3>1, <3>2
    <2>7. ASSUME Sure, open, Parking, rec = None PROVE net' = 1
        <3>1. net = 1
            BY <1>0, <2>7 DEF SoldInv
        <3>2. st # "filled"
            <4>1. Handled(o)
                BY <1>0, <1>1, <1>5, <2>7 DEF NameInv, Lost, Sure, Awaited
            <4>2. op.new = o
                BY <2>7, <4>1, ExitStopAssumption DEF Handled
            <4>3. op.act = "update"
                BY <1>0, <4>2, Updating, ExitStopAssumption
            <4> QED
                BY <1>0, <2>7, <4>2, <4>3, ExitStopAssumption DEF UpdateInv, Parking
        <3> QED
            BY <1>2, <3>1, <3>2
    <2>8. Sure' = Sure
        BY <1>1, <1>4 DEF Sure
    <2>9. ASSUME Sure PROVE net' >= 0
        BY <1>0, <1>2, <2>2, <2>9 DEF SoldInv
    <2>10. ASSUME Sure PROVE /\ \A p, q \in Orders : ord'[p].st = "firing" /\ ord'[q].st = "firing" => p = q
                             /\ net' < 1 => \A p \in Orders : ord'[p].st # "firing"
        BY <1>0, <1>2, <2>3, <2>4, <2>10 DEF SoldInv
    <2> QED
        BY <1>4, <2>1, <2>5, <2>6, <2>7, <2>8, <2>9, <2>10 DEF SoldInv
<1>13. TrackInv'
    <2> SUFFICES ASSUME open, loose = {} PROVE TrackInv'
        BY <1>1, <1>4 DEF TrackInv
    <2>1. \A p \in Orders : Live(p)' => Tracked(p)' \/ (Plain' /\ ~Handled(p)') \/ (p = rec' /\ PlaceFirst')
        BY <1>0, <1>4, <1>5 DEF TrackInv
    <2>2. ASSUME net' < 1 PROVE \E p \in Orders : Tracked(p) /\ ord'[p].st = "filled"
        <3>1. CASE net < 1
            BY <1>0, <1>1, <1>3, <3>1 DEF TrackInv
        <3>2. CASE net >= 1
            <4>1. st = "filled"
                BY <1>2, <2>2, <3>2
            <4>2. Tracked(o) \/ (Plain /\ ~Handled(o)) \/ (o = rec /\ PlaceFirst)
                BY <1>0, <1>5 DEF TrackInv
            <4>3. Plain => Handled(o)
                BY <1>0, <1>1, <1>5 DEF NameInv, Lost, Awaited
            <4>4. o = rec /\ PlaceFirst => brk = o
                BY <1>0, <1>1 DEF PairInv, Dead
            <4> QED
                BY <1>3, <4>1, <4>2, <4>3, <4>4 DEF Tracked
        <3> QED
            BY <1>0, <3>1, <3>2
    <2> QED
        BY <1>4, <2>1, <2>2 DEF TrackInv
<1>14. CountInv'
    <2>1. Before' => Before
        BY <1>4 DEF Before
    <2>2. o \in Alive /\ Alive' \subseteq Alive \ {o}
        BY <1>5 DEF Alive
    <2>3. net' >= net - 1
        BY <1>0, <1>2
    <2> QED
        BY <1>0, <1>6, <2>1, <2>2, <2>3, CountFills
<1> QED
    BY <1>6, <1>7, <1>8, <1>10, <1>11, <1>12, <1>13, <1>14 DEF Inv

LEMMA ReadableKeeps == ASSUME Inv, NEW o \in Orders, BecomesReadable(o) PROVE Inv'
<1>0. /\ TypeInv /\ UpdateInv /\ SweepInv /\ OrderInv /\ RowInv /\ PairInv /\ NameInv /\ SoldInv /\ TrackInv /\ CountInv
    BY DEF Inv
<1>1. Aside /\ ord' = ord /\ net' = net /\ loose' = loose /\ unread' \subseteq unread
    BY DEF BecomesReadable, Aside, book
<1>2. /\ UNCHANGED <<cfg, open, row, brk, rec, settled, told, op, faults>>
      /\ Plain' = Plain /\ PlaceFirst' = PlaceFirst /\ Verify' = Verify /\ Parking' = Parking
      /\ \A p : Handled(p)' = Handled(p) /\ Tracked(p)' = Tracked(p)
    BY <1>1, AsideDoes
<1>3. TypeInv'
    BY <1>0, <1>1, <1>2 DEF TypeInv
<1>4. UpdateInv' /\ SweepInv'
    BY <1>0, <1>1, AsideOp
<1>5. RowInv' /\ PairInv'
    BY <1>0, <1>1, AsideRows DEF Live, Dead
<1>6. OrderInv'
    BY <1>0, <1>1, <1>2 DEF OrderInv
<1>7. NameInv'
    BY <1>0, <1>1, <1>2 DEF NameInv, Lost, Live, Awaited
<1>8. SoldInv'
    BY <1>0, <1>1, <1>2 DEF SoldInv, Sure, Live
<1>9. TrackInv'
    BY <1>0, <1>1, <1>2 DEF TrackInv, Live
<1>10. CountInv'
    BY <1>0, <1>1, <1>2 DEF CountInv, Alive, Live, Before
<1> QED
    BY <1>3, <1>4, <1>5, <1>6, <1>7, <1>8, <1>9, <1>10 DEF Inv

(* A live stop changes its state and stays live.                           *)
LEMMA StaysLive ==
    ASSUME Inv, Aside, NEW o \in Orders, NEW st \in {"working", "firing"}, SetOrd(o, st), Live(o),
           unread' = unread, net' = net, loose \subseteq loose', loose' \subseteq Ways,
           o = op.old => st = "firing", NameInv', SoldInv'
    PROVE Inv'
<1>0. /\ TypeInv /\ UpdateInv /\ SweepInv /\ OrderInv /\ RowInv /\ PairInv /\ TrackInv /\ CountInv
    BY DEF Inv
<1>1. /\ ord' \in [Orders -> OrdType] /\ ord'[o].st = st /\ \A p \in Orders : ord'[p].lvl = ord[p].lvl
      /\ \A p \in Orders : p # o => ord'[p] = ord[p]
    BY <1>0, SetOrdDoes DEF OrderState
<1>2. /\ UNCHANGED <<cfg, open, row, brk, rec, settled, told, op, faults>>
      /\ Plain' = Plain /\ PlaceFirst' = PlaceFirst /\ Verify' = Verify /\ Parking' = Parking
      /\ \A p : Handled(p)' = Handled(p) /\ Tracked(p)' = Tracked(p)
    BY AsideDoes
<1>3. /\ \A p \in Orders : Live(p)' = Live(p) /\ Dead(p)' = Dead(p)
      /\ \A p \in Orders : (ord'[p].st = "filled") = (ord[p].st = "filled")
    BY <1>1 DEF Live, Dead
<1>4. TypeInv'
    BY <1>0, <1>1, <1>2 DEF TypeInv
<1>5. UpdateInv' /\ SweepInv'
    BY <1>0, <1>1, AsideOp, OpFields DEF Ids, Live
<1>6. RowInv' /\ PairInv'
    BY <1>0, <1>1, <1>3, AsideRows
<1>7. OrderInv'
    <2>1. \A p \in Orders : ord'[p].st \in {"none", "inflight"} => p \notin {brk, rec, op.old, op.new}
        BY <1>0, <1>1 DEF OrderInv
    <2>2. \A p \in unread : ord'[p].st \in {"filled", "dropped"}
        BY <1>0, <1>1 DEF OrderInv, Live, TypeInv
    <2> QED
        BY <1>0, <1>2, <1>3, <2>1, <2>2 DEF OrderInv
<1>8. TrackInv'
    <2> SUFFICES ASSUME open, loose = {} PROVE TrackInv'
        BY <1>2 DEF TrackInv
    <2> QED
        BY <1>0, <1>2, <1>3 DEF TrackInv
<1>9. CountInv'
    <2>1. Before' = Before /\ Alive' = Alive
        BY <1>2, <1>3 DEF Before, Alive
    <2> QED
        BY <1>0, <1>2, <2>1 DEF CountInv
<1> QED
    BY <1>4, <1>5, <1>6, <1>7, <1>8, <1>9 DEF Inv

LEMMA LandsKeeps == ASSUME Inv, NEW o \in Orders, Lands(o) PROVE Inv'
<1>0. /\ TypeInv /\ OrderInv /\ NameInv /\ SoldInv
    BY DEF Inv
<1>1. Aside /\ ord[o].st = "inflight" /\ SetOrd(o, "working") /\ loose' = loose /\ unread' = unread /\ net' = net
    BY DEF Lands, Aside, book
<1>2. /\ ord'[o].st = "working" /\ \A p \in Orders : ord'[p].lvl = ord[p].lvl
      /\ \A p \in Orders : p # o => ord'[p] = ord[p]
    BY <1>0, <1>1, SetOrdDoes DEF OrderState
<1>3. /\ UNCHANGED <<cfg, open, row, brk, rec, settled, told, op, faults>>
      /\ Plain' = Plain /\ PlaceFirst' = PlaceFirst /\ Verify' = Verify /\ Parking' = Parking
      /\ \A p : Handled(p)' = Handled(p) /\ Tracked(p)' = Tracked(p)
    BY <1>1, AsideDoes
<1>4. /\ Live(o) /\ \A p \in Orders : Live(p)' = Live(p) /\ Awaited(p)' = Awaited(p)
      /\ \A p \in Orders : (ord'[p].st = "filled") = (ord[p].st = "filled") /\ (ord'[p].st = "firing") = (ord[p].st = "firing")
    BY <1>1, <1>2, <1>3 DEF Live, Awaited
<1>5. NameInv'
    BY <1>0, <1>1, <1>3, <1>4 DEF NameInv, Lost
<1>6. SoldInv'
    <2>1. op.old \in Ids /\ op.new \in Ids
        BY <1>0, OpFields
    <2>2. \A p \in {op.old, op.new} \ {None} : (ord'[p].st = "filled") = (ord[p].st = "filled")
        BY <1>4, <2>1 DEF Ids
    <2>3. Sure' = Sure
        BY <1>1, <1>3 DEF Sure
    <2> QED
        BY <1>0, <1>1, <1>3, <1>4, <2>2, <2>3 DEF SoldInv
<1>7. o # op.old
    BY <1>0, <1>1 DEF OrderInv
<1> QED
    BY <1>0, <1>1, <1>4, <1>5, <1>6, <1>7, StaysLive DEF TypeInv

(* A plain stop that nothing names and that is looked for counts as parked.*)
LEMMA NotMissed ==
    ASSUME Inv, NEW o \in Orders, Live(o), Plain, ~Handled(o), Awaited(o)
    PROVE Parked(o)
<1>0. TypeInv /\ UpdateInv /\ SweepInv /\ RowInv /\ PairInv
    BY DEF Inv
<1>1. o # rec /\ o # brk
    BY <1>0, ExitStopAssumption DEF Handled, PairInv
<1>2. CASE op.step = "find"
    <2>1. ~IsMarker(row.slot)
        BY <1>0, <1>2, Updating DEF UpdateInv, UpdateSteps
    <2>2. row.slot \in Orders => row.slot = rec
        BY <1>0 DEF RowInv
    <2> QED
        BY <1>1, <1>2, <2>1, <2>2 DEF Parked
<1>3. CASE op.step # "find"
    <2>1. IsMarker(row.slot) /\ row.slot.keep = rec
        BY <1>0, <1>3 DEF Awaited, Parking, RowInv
    <2> QED
        BY <1>1, <2>1 DEF Parked
<1> QED
    BY <1>2, <1>3

LEMMA TriggerKeeps == ASSUME Inv, NEW o \in Orders, Trigger(o) PROVE Inv'
<1>0. /\ TypeInv /\ UpdateInv /\ SweepInv /\ OrderInv /\ PairInv /\ NameInv /\ SoldInv
    BY DEF Inv
<1>1. /\ Aside /\ ord[o].st = "working" /\ SetOrd(o, "firing") /\ unread' = unread /\ net' = net
      /\ loose' = loose \cup Way("gap", InWindow(o)) \cup Way("missed", Parked(o))
    BY DEF Trigger, Aside, book
<1>2. /\ ord'[o].st = "firing" /\ \A p \in Orders : ord'[p].lvl = ord[p].lvl
      /\ \A p \in Orders : p # o => ord'[p] = ord[p]
    BY <1>0, <1>1, SetOrdDoes DEF OrderState
<1>3. /\ UNCHANGED <<cfg, open, row, brk, rec, settled, told, op, faults>>
      /\ Plain' = Plain /\ PlaceFirst' = PlaceFirst /\ Verify' = Verify /\ Parking' = Parking
      /\ \A p : Handled(p)' = Handled(p) /\ Tracked(p)' = Tracked(p)
    BY <1>1, AsideDoes
<1>4. /\ loose \subseteq loose' /\ loose' \subseteq Ways
      /\ (InWindow(o) => "gap" \in loose') /\ (Parked(o) => "missed" \in loose')
    BY <1>0, <1>1 DEF TypeInv, Way, Ways
<1>5. /\ Live(o) /\ \A p \in Orders : Live(p)' = Live(p) /\ (p # o => Awaited(p)' = Awaited(p))
      /\ \A p \in Orders : (ord'[p].st = "filled") = (ord[p].st = "filled")
      /\ \A p \in Orders : ord'[p].st = "firing" => p = o \/ ord[p].st = "firing"
    BY <1>1, <1>2, <1>3 DEF Live, Awaited
<1>6. ASSUME Plain, ~Lost' PROVE Handled(o) /\ ~Lost
    <2>1. ~Lost /\ ~Parked(o)
        BY <1>4, <1>6 DEF Lost
    <2>2. Handled(o) \/ Awaited(o)
        BY <1>0, <1>5, <1>6, <2>1 DEF NameInv
    <2> QED
        BY <1>5, <1>6, <2>1, <2>2, NotMissed
<1>7. NameInv'
    <2> SUFFICES ASSUME Plain, ~Lost' PROVE NameInv'
        BY <1>3 DEF NameInv
    <2>1. Handled(o) /\ ~Lost
        BY <1>6
    <2>2. \A p \in Orders : Live(p) => Handled(p) \/ Awaited(p)
        BY <1>0, <2>1 DEF NameInv
    <2>3. \A p, q \in Orders : Live(p) /\ Live(q) /\ ~Handled(p) /\ ~Handled(q) => p = q
        BY <1>0, <2>1 DEF NameInv
    <2>4. \A p \in Orders : Live(p)' => Handled(p)' \/ Awaited(p)'
        BY <1>3, <1>5, <2>1, <2>2
    <2> QED
        BY <1>3, <1>5, <2>3, <2>4 DEF NameInv
<1>8. ASSUME Sure' PROVE Sure /\ Handled(o) /\ ~InWindow(o) /\ Plain /\ ~Lost
    <2>1. Plain /\ ~Lost' /\ Sure /\ ~InWindow(o)
        BY <1>3, <1>4, <1>8 DEF Sure, Lost
    <2> QED
        BY <1>6, <2>1
<1>9. ASSUME Sure', op.new # None, Live(rec), rec # None PROVE PlaceFirst
    <2>1. op.act = "update"
        BY <1>0, <1>9, Updating
    <2>2. op.step # "commit"
        BY <1>0, <1>8, <1>9, CommitAlone
    <2> QED
        BY <1>0, <1>9, <2>1, <2>2 DEF UpdateInv, UpdateSteps, Retiring
<1>10. SoldInv'
    <2>1. ~Plain => net >= 0
        BY <1>0 DEF SoldInv
    <2>2. ASSUME Sure', NEW q \in Orders, q # o, ord[q].st = "firing" PROVE FALSE
        <3>1. Sure /\ Handled(o) /\ ~InWindow(o) /\ Plain /\ ~Lost
            BY <1>8, <2>2
        <3>2. Live(q) /\ ~Awaited(q)
            BY <2>2 DEF Live, Awaited
        <3>3. Handled(q)
            BY <1>0, <3>1, <3>2 DEF NameInv
        <3>4. op.new # None /\ Live(rec) /\ rec # None
            BY <1>5, <2>2, <3>1, <3>2, <3>3, ExitStopAssumption DEF Handled
        <3>5. PlaceFirst
            BY <1>9, <2>2, <3>4
        <3> QED
            BY <2>2, <3>1, <3>4, <3>5 DEF InWindow
    <2>3. ASSUME Sure', net < 1 PROVE FALSE
        <3>1. Sure /\ Handled(o) /\ ~InWindow(o) /\ Plain /\ ~Lost
            BY <1>8, <2>3
        <3>2. op.new # None /\ op.step # "commit"
            BY <1>0, <1>5, <2>3, <3>1 DEF SoldInv
        <3>3. op.act = "update"
            BY <1>0, <3>2, Updating
        <3>4. PlaceFirst
            BY <1>0, <3>2, <3>3 DEF UpdateInv, UpdateSteps, Retiring
        <3> QED
            BY <2>3, <3>1, <3>2, <3>4 DEF InWindow
    <2>4. ASSUME Sure' PROVE Sure /\ net >= 0 /\ (open /\ Parking /\ rec = None => net = 1)
        BY <1>0, <1>8, <2>4 DEF SoldInv
    <2>5. Sure' => \A p, q \in Orders : ord'[p].st = "firing" /\ ord'[q].st = "firing" => p = q
        BY <1>5, <2>2
    <2> QED
        BY <1>1, <1>3, <2>1, <2>3, <2>4, <2>5 DEF SoldInv
<1> QED
    BY <1>0, <1>1, <1>4, <1>5, <1>7, <1>10, StaysLive

----------------------------------------------------------------------------
(* The lock holder, when nothing but the lock changes.                     *)
LEMMA BookSame ==
    ASSUME UNCHANGED <<cfg, row, brk, rec>>
    PROVE /\ Plain' = Plain /\ PlaceFirst' = PlaceFirst /\ Verify' = Verify /\ Parking' = Parking
          /\ Candidates(row, brk)' = Candidates(row, brk)
          /\ op'.new = op.new => \A o : Handled(o)' = Handled(o) /\ Tracked(o)' = Tracked(o)
BY DEF Plain, PlaceFirst, Verify, Parking, Candidates, Handled, Tracked

(* The lock is given back: what was placed and not recorded is forgotten.  *)
LEMMA ReleaseKeeps ==
    ASSUME Inv, op' = Idle, UNCHANGED <<cfg, venue, open, row, brk, rec, told>>, settled' \in BOOLEAN,
           faults' \in 0..MaxFaults, loose \subseteq loose', loose' \subseteq Ways,
           op.new # None \/ op.step = "find" => "forgotten" \in loose'
    PROVE Inv'
<1>0. /\ TypeInv /\ OrderInv /\ RowInv /\ PairInv /\ NameInv /\ SoldInv /\ TrackInv /\ CountInv
    BY DEF Inv
<1>1. UNCHANGED <<ord, unread, net>>
    BY DEF venue
<1>2. op'.act = "none" /\ op'.step = "" /\ op'.old = None /\ op'.new = None
    BY IdleFields
<1>3. Plain' = Plain /\ PlaceFirst' = PlaceFirst /\ Verify' = Verify /\ Parking' = Parking
    BY BookSame
<1>4. \A o \in Orders : Live(o)' = Live(o) /\ Dead(o)' = Dead(o)
    BY <1>1 DEF Live, Dead
<1>5. \A o \in Orders : (Handled(o)' => Handled(o)) /\ (Handled(o) => Handled(o)' \/ op.new # None)
                        /\ (Tracked(o) => Tracked(o)' \/ op.new # None)
    BY <1>2, ExitStopAssumption DEF Handled, Tracked
<1>6. TypeInv'
    BY <1>0, <1>1, IdleType DEF TypeInv
<1>7. UpdateInv' /\ SweepInv'
    BY <1>2 DEF UpdateInv, SweepInv
<1>8. OrderInv'
    BY <1>0, <1>1, <1>2, ExitStopAssumption DEF OrderInv
<1>9. RowInv' /\ PairInv'
    BY <1>0, <1>1, <1>3 DEF RowInv, PairInv, Live, Dead
<1>10. NameInv'
    <2> SUFFICES ASSUME Plain, ~Lost' PROVE NameInv'
        BY <1>3 DEF NameInv
    <2>1. ~Lost /\ op.new = None /\ op.step # "find"
        BY DEF Lost
    <2>2. \A o \in Orders : Awaited(o)' = Awaited(o)
        BY <1>1, <1>2, <1>3, <2>1 DEF Awaited
    <2> QED
        BY <1>0, <1>4, <1>5, <2>1, <2>2 DEF NameInv
<1>11. SoldInv'
    <2>1. ASSUME Sure' PROVE Sure /\ op.new = None
        BY <1>3, <2>1 DEF Sure
    <2> QED
        BY <1>0, <1>1, <1>2, <1>3, <1>4, <1>5, <2>1 DEF SoldInv
<1>12. TrackInv'
    BY <1>0, <1>1, <1>3, <1>4, <1>5 DEF TrackInv
<1>13. CountInv'
    <2>1. Alive' = Alive /\ ~Before'
        BY <1>2, <1>4 DEF Alive, Before
    <2> QED
        BY <1>0, <1>1, <2>1 DEF CountInv
<1> QED
    BY <1>6, <1>7, <1>8, <1>9, <1>10, <1>11, <1>12, <1>13 DEF Inv

LEMMA CrashKeeps == ASSUME Inv, Crash PROVE Inv'
<1>1. TypeInv
    BY DEF Inv
<1>2. faults' \in 0..MaxFaults
    BY <1>1, FaultType DEF Crash
<1>3. /\ op' = Idle /\ UNCHANGED <<cfg, venue, open, row, brk, rec, told>> /\ settled' \in BOOLEAN
      /\ loose' = loose \cup Way("forgotten", op.new # None \/ op.step = "find")
    BY DEF Crash, Release
<1>4. /\ loose \subseteq loose' /\ loose' \subseteq Ways
      /\ op.new # None \/ op.step = "find" => "forgotten" \in loose'
    BY <1>1, <1>3 DEF TypeInv, Way, Ways
<1> QED
    BY <1>2, <1>3, <1>4, ReleaseKeeps

(* The sweep moves on, or begins, or ends.                                 *)
LEMMA SweepMoves ==
    ASSUME Inv, op.act # "update", op'.act # "update", op' \in OpType, op'.new = None, op'.step # "find",
           UNCHANGED <<cfg, venue, open, row, brk, rec, told, loose>>, settled' \in BOOLEAN,
           faults' \in 0..MaxFaults, op'.old = None \/ ord[op'.old].st \notin {"none", "inflight"}, SweepInv'
    PROVE Inv'
<1>0. /\ TypeInv /\ SweepInv /\ OrderInv /\ RowInv /\ PairInv /\ NameInv /\ SoldInv /\ TrackInv /\ CountInv
    BY DEF Inv
<1>1. UNCHANGED <<ord, unread, net>>
    BY DEF venue
<1>2. op.new = None /\ op.step # "find"
    BY <1>0, Updating DEF UpdateSteps
<1>3. /\ Plain' = Plain /\ PlaceFirst' = PlaceFirst /\ Verify' = Verify /\ Parking' = Parking
      /\ \A o : Handled(o)' = Handled(o) /\ Tracked(o)' = Tracked(o)
    BY <1>2, BookSame
<1>4. \A o \in Orders : Live(o)' = Live(o) /\ Dead(o)' = Dead(o) /\ Awaited(o)' = Awaited(o)
    BY <1>1, <1>2, <1>3 DEF Live, Dead, Awaited
<1>6. TypeInv'
    BY <1>0, <1>1 DEF TypeInv
<1>7. UpdateInv'
    BY DEF UpdateInv
<1>8. OrderInv'
    BY <1>0, <1>1, <1>2, ExitStopAssumption DEF OrderInv
<1>9. RowInv' /\ PairInv'
    BY <1>0, <1>1, <1>3 DEF RowInv, PairInv, Live, Dead
<1>10. NameInv'
    BY <1>0, <1>3, <1>4 DEF NameInv, Lost
<1>11. SoldInv'
    <2>1. Sure' = Sure
        BY <1>3 DEF Sure
    <2> QED
        BY <1>0, <1>1, <1>2, <1>3, <1>4, <2>1 DEF SoldInv
<1>12. TrackInv'
    BY <1>0, <1>1, <1>3, <1>4 DEF TrackInv
<1>13. CountInv'
    <2>1. Alive' = Alive /\ ~Before'
        BY <1>4 DEF Alive, Before
    <2> QED
        BY <1>0, <1>1, <2>1 DEF CountInv
<1> QED
    BY <1>0, <1>6, <1>7, <1>8, <1>9, <1>10, <1>11, <1>12, <1>13 DEF Inv

----------------------------------------------------------------------------
(* An update begins and is planned.                                        *)
LEMMA RetireDoes ==
    ASSUME TypeInv, Retire(row)
    PROVE /\ row' \in RowType /\ row'.active = FALSE /\ row'.seq = row.seq /\ row'.cur = row.cur
          /\ row'.engine = row.engine /\ row'.slot = row.slot
          /\ loose \subseteq loose' /\ loose' \subseteq Ways
          /\ Parking => "forgotten" \in loose'
          /\ row.active /\ row.slot \in Orders /\ row.slot # brk => "flat" \in loose'
<1>1. row' = [row EXCEPT !.active = FALSE] /\ row \in RowType
    BY DEF Retire, TypeInv
<1>2. loose' = loose \cup Way("forgotten", Parking) \cup Way("flat", row.active /\ row.slot \in Orders /\ row.slot # brk)
    BY DEF Retire, Parking, IsOrder
<1>3. loose \subseteq Ways
    BY DEF TypeInv
<1>4. row' \in RowType
    BY <1>1 DEF RowType
<1> QED
    BY <1>1, <1>2, <1>3, <1>4 DEF RowType, Way, Ways

LEMMA RetireKeeps ==
    ASSUME Inv, Retire(row), op' = Idle, op.new = None, op.step # "find",
           UNCHANGED <<cfg, venue, open, brk, rec, settled, told, faults>>
    PROVE Inv'
<1>0. /\ TypeInv /\ OrderInv /\ RowInv /\ PairInv /\ NameInv /\ SoldInv /\ TrackInv /\ CountInv
    BY DEF Inv
<1>1. UNCHANGED <<ord, unread, net>>
    BY DEF venue
<1>2. op'.act = "none" /\ op'.step = "" /\ op'.old = None /\ op'.new = None
    BY IdleFields
<1>3. /\ row' \in RowType /\ row'.active = FALSE /\ row'.seq = row.seq /\ row'.cur = row.cur
      /\ row'.engine = row.engine /\ row'.slot = row.slot
      /\ loose \subseteq loose' /\ loose' \subseteq Ways
      /\ Parking => "forgotten" \in loose'
      /\ row.active /\ row.slot \in Orders /\ row.slot # brk => "flat" \in loose'
    BY <1>0, RetireDoes
<1>4. Plain' = Plain /\ PlaceFirst' = PlaceFirst /\ Verify' = Verify /\ ~Parking'
    BY <1>3 DEF Plain, PlaceFirst, Verify, Parking
<1>5. \A o \in Orders : Live(o)' = Live(o) /\ Dead(o)' = Dead(o) /\ Handled(o)' = Handled(o)
    BY <1>1, <1>2 DEF Live, Dead, Handled
<1>6. TypeInv'
    BY <1>0, <1>1, <1>3, IdleType DEF TypeInv
<1>7. UpdateInv' /\ SweepInv'
    BY <1>2 DEF UpdateInv, SweepInv
<1>8. OrderInv'
    BY <1>0, <1>1, <1>2, <1>3, ExitStopAssumption DEF OrderInv
<1>9. RowInv' /\ PairInv'
    BY <1>0, <1>1, <1>3, <1>4 DEF RowInv, PairInv, Live, Dead
<1>10. NameInv'
    <2> SUFFICES ASSUME Plain, ~Lost' PROVE NameInv'
        BY <1>4 DEF NameInv
    <2>1. ~Lost /\ ~Parking
        BY <1>3 DEF Lost
    <2>2. \A o \in Orders : ~Awaited(o)
        BY <2>1 DEF Awaited
    <2> QED
        BY <1>0, <1>5, <2>1, <2>2 DEF NameInv
<1>11. SoldInv'
    <2>1. ASSUME Sure' PROVE Sure
        BY <1>3, <1>4, <2>1 DEF Sure
    <2> QED
        BY <1>0, <1>1, <1>2, <1>4, <1>5, <2>1 DEF SoldInv
<1>12. TrackInv'
    <2> SUFFICES ASSUME open, loose' = {} PROVE TrackInv'
        BY DEF TrackInv
    <2>1. loose = {} /\ (row.active /\ row.slot \in Orders => row.slot = brk)
        BY <1>3
    <2>2. \A o \in Orders : Tracked(o) => Tracked(o)'
        BY <2>1, ExitStopAssumption DEF Tracked
    <2> QED
        BY <1>0, <1>1, <1>4, <1>5, <2>1, <2>2 DEF TrackInv
<1>13. CountInv'
    <2>1. Alive' = Alive /\ ~Before'
        BY <1>2, <1>5 DEF Alive, Before
    <2> QED
        BY <1>0, <1>1, <2>1 DEF CountInv
<1> QED
    BY <1>6, <1>7, <1>8, <1>9, <1>10, <1>11, <1>12, <1>13 DEF Inv

LEMMA BeginUpdateKeeps == ASSUME Inv, NEW u \in Seqs, BeginUpdate(u) PROVE Inv'
<1>0. /\ TypeInv /\ SweepInv /\ OrderInv /\ RowInv /\ PairInv /\ NameInv /\ SoldInv /\ TrackInv /\ CountInv
    BY DEF Inv
<1>1. op = Idle /\ row.active /\ Level[u] > row.cur
    BY <1>0 DEF BeginUpdate, LockFree, SweepInv, FavourableOnly, RowInv
<1>2. UNCHANGED <<cfg, venue, open, brk, rec, settled, told, faults>>
    BY DEF BeginUpdate
<1>3. ASSUME Retire(row), op' = op PROVE Inv'
    BY <1>1, <1>2, <1>3, IdleFields, RetireKeeps
<1>4. ASSUME open, op' = [Idle EXCEPT !.act = "update", !.step = "live", !.u = u], UNCHANGED <<row, loose>> PROVE Inv'
    <2>1. op' \in OpType /\ op'.act = "update" /\ op'.step = "live" /\ op'.u = u /\ op'.old = None /\ op'.new = None
          /\ op'.todo = {} /\ ~op'.retired
        BY <1>4, IdleType DEF Idle, OpType, Acts, Steps
    <2>2. op.old = None /\ op.new = None /\ op.step = ""
        BY <1>1, IdleFields
    <2>3. UNCHANGED <<ord, unread, net>>
        BY <1>2 DEF venue
    <2>4. /\ Plain' = Plain /\ PlaceFirst' = PlaceFirst /\ Verify' = Verify /\ Parking' = Parking
          /\ \A o : Handled(o)' = Handled(o) /\ Tracked(o)' = Tracked(o)
        BY <1>2, <1>4, <2>1, <2>2, BookSame
    <2>5. \A o \in Orders : Live(o)' = Live(o) /\ Dead(o)' = Dead(o) /\ Awaited(o)' = Awaited(o)
        BY <1>4, <2>1, <2>2, <2>3, <2>4 DEF Live, Dead, Awaited
    <2>6. TypeInv'
        BY <1>0, <1>2, <1>4, <2>1, <2>3 DEF TypeInv
    <2>7. UpdateInv' /\ SweepInv'
        BY <1>1, <1>2, <1>4, <2>1 DEF UpdateInv, SweepInv, UpdateSteps, Retiring
    <2>8. OrderInv'
        BY <1>0, <1>2, <1>4, <2>1, <2>2, <2>3 DEF OrderInv
    <2>9. RowInv' /\ PairInv'
        BY <1>0, <1>2, <1>4, <2>3, <2>4 DEF RowInv, PairInv, Live, Dead
    <2>10. NameInv'
        BY <1>0, <1>4, <2>4, <2>5 DEF NameInv, Lost
    <2>11. SoldInv'
        <3>1. Sure' = Sure
            BY <1>4, <2>4 DEF Sure
        <3> QED
            BY <1>0, <1>2, <2>1, <2>2, <2>3, <2>4, <2>5, <3>1 DEF SoldInv
    <2>12. TrackInv'
        BY <1>0, <1>2, <1>4, <2>3, <2>4, <2>5 DEF TrackInv
    <2>13. CountInv'
        <3>1. Alive' = Alive /\ ~Before'
            BY <2>1, <2>5 DEF Alive, Before, Retiring
        <3> QED
            BY <1>0, <2>3, <3>1 DEF CountInv
    <2> QED
        BY <2>6, <2>7, <2>8, <2>9, <2>10, <2>11, <2>12, <2>13 DEF Inv
<1> QED
    BY <1>3, <1>4 DEF BeginUpdate

LEMMA PlanUpdateKeeps == ASSUME Inv, PlanUpdate PROVE Inv'
<1>0. /\ TypeInv /\ UpdateInv /\ SweepInv /\ OrderInv /\ RowInv /\ PairInv /\ NameInv /\ SoldInv /\ TrackInv /\ CountInv
    BY DEF Inv
<1>1. op.act = "update" /\ op.step = "live"
    BY DEF PlanUpdate
<1>2. op.new = None /\ op.old = None /\ op.u \in Seqs /\ open /\ row.active /\ ~op.retired /\ op.todo = {}
      /\ Level[op.u] > row.cur
    BY <1>0, <1>1 DEF UpdateInv
<1>3. ASSUME Retire(row), EndUpdate, UNCHANGED <<open, brk, rec, settled, told>> PROVE Inv'
    BY <1>1, <1>2, <1>3, RetireKeeps DEF EndUpdate, Release
<1>4. ASSUME Refuse PROVE Inv'
    BY <1>0, <1>1, <1>2, <1>4, ReleaseKeeps DEF Refuse, EndUpdate, Release, book, TypeInv
<1>5. ASSUME net = 1, row' = [row EXCEPT !.seq = op.u], EndUpdate, UNCHANGED <<open, brk, rec, settled, told, loose>>
      PROVE Inv'
    <2>1. row' \in RowType /\ row'.active = row.active /\ row'.cur = row.cur /\ row'.engine = row.engine
          /\ row'.slot = row.slot
        BY <1>0, <1>2, <1>5 DEF TypeInv, RowType
    <2>2. UNCHANGED <<cfg, ord, unread, net, faults>> /\ op' = Idle
        BY <1>5 DEF EndUpdate, Release, venue
    <2>3. op'.act = "none" /\ op'.step = "" /\ op'.old = None /\ op'.new = None
        BY <2>2, IdleFields
    <2>4. /\ Plain' = Plain /\ PlaceFirst' = PlaceFirst /\ Verify' = Verify /\ Parking' = Parking
          /\ \A o : Handled(o)' = Handled(o) /\ Tracked(o)' = Tracked(o)
        BY <1>2, <1>5, <2>1, <2>2, <2>3 DEF Plain, PlaceFirst, Verify, Parking, Handled, Tracked
    <2>5. \A o \in Orders : Live(o)' = Live(o) /\ Dead(o)' = Dead(o) /\ Awaited(o)' = Awaited(o)
        BY <1>1, <2>1, <2>2, <2>3, <2>4 DEF Live, Dead, Awaited
    <2>6. TypeInv'
        BY <1>0, <1>5, <2>1, <2>2, IdleType DEF TypeInv
    <2>7. UpdateInv' /\ SweepInv'
        BY <2>2, <2>3 DEF UpdateInv, SweepInv
    <2>8. OrderInv'
        BY <1>0, <1>2, <1>5, <2>1, <2>2, <2>3 DEF OrderInv
    <2>9. RowInv' /\ PairInv'
        BY <1>0, <1>5, <2>1, <2>2, <2>4 DEF RowInv, PairInv, Live, Dead
    <2>10. NameInv'
        BY <1>0, <1>5, <2>4, <2>5 DEF NameInv, Lost
    <2>11. SoldInv'
        <3>1. Sure' = Sure
            BY <1>5, <2>4 DEF Sure
        <3> QED
            BY <1>0, <1>5, <2>2, <2>4, <3>1 DEF SoldInv
    <2>12. TrackInv'
        BY <1>0, <1>5, <2>2, <2>4, <2>5 DEF TrackInv
    <2>13. CountInv'
        BY <1>5, <2>2, <2>6, CountIn
    <2> QED
        BY <2>6, <2>7, <2>8, <2>9, <2>10, <2>11, <2>12, <2>13 DEF Inv
<1>6. ASSUME net = 1, ~IsMarker(row.slot), UNCHANGED <<cfg, venue, book, faults, loose>>,
             NEW old, old = IF row.slot # None THEN row.slot ELSE rec,
             op' = [op EXCEPT !.old = old, !.step = IF old = None \/ PlaceFirst THEN "place" ELSE "cancel"]
      PROVE Inv'
    <2>1. old = rec /\ rec \in Ids /\ UNCHANGED <<ord, unread, net, open, row, brk, rec, settled, told>>
        <3>1. row.slot \in Ids
            BY <1>0, <1>6, RowFields, SlotType
        <3> QED
            BY <1>0, <1>6, <3>1 DEF RowInv, TypeInv, Ids, venue, book
    <2>2. PICK s \in {"place", "cancel"} : s = IF old = None \/ PlaceFirst THEN "place" ELSE "cancel"
        OBVIOUS
    <2>3. op' = [op EXCEPT !.old = old, !.step = s]
        BY <1>6, <2>2
    <2>4. op' \in OpType /\ op'.act = "update" /\ op'.step = s /\ op'.u = op.u /\ op'.old = rec /\ op'.new = None
          /\ op'.todo = {} /\ op'.retired = op.retired
        BY <1>0, <1>1, <1>2, <2>1, <2>3 DEF TypeInv, OpType, Steps
    <2>5. /\ Plain' = Plain /\ PlaceFirst' = PlaceFirst /\ Verify' = Verify /\ Parking' = Parking
          /\ \A o : Handled(o)' = Handled(o) /\ Tracked(o)' = Tracked(o)
        BY <1>2, <1>6, <2>1, <2>4, BookSame
    <2>6. \A o \in Orders : Live(o)' = Live(o) /\ Dead(o)' = Dead(o) /\ Awaited(o)' = Awaited(o)
        BY <1>1, <2>1, <2>2, <2>4, <2>5 DEF Live, Dead, Awaited
    <2>7. TypeInv'
        BY <1>0, <1>6, <2>1, <2>4 DEF TypeInv
    <2>8. UpdateInv'
        BY <1>0, <1>2, <1>6, <2>1, <2>2, <2>4, <2>5 DEF UpdateInv, UpdateSteps, Retiring, PairInv
    <2>9. SweepInv'
        BY <2>4 DEF SweepInv
    <2>10. OrderInv'
        BY <1>0, <1>2, <2>1, <2>4 DEF OrderInv
    <2>11. RowInv' /\ PairInv'
        BY <1>0, <2>1, <2>5 DEF RowInv, PairInv, Live, Dead
    <2>12. NameInv'
        BY <1>0, <1>6, <2>5, <2>6 DEF NameInv, Lost
    <2>13. SoldInv'
        <3>1. Sure' = Sure
            BY <1>6, <2>5 DEF Sure
        <3> QED
            BY <1>0, <1>6, <2>1, <2>5, <3>1 DEF SoldInv
    <2>14. TrackInv'
        BY <1>0, <1>6, <2>1, <2>5, <2>6 DEF TrackInv
    <2>15. CountInv'
        BY <1>6, <2>1, <2>7, CountIn
    <2> QED
        BY <2>7, <2>8, <2>9, <2>10, <2>11, <2>12, <2>13, <2>14, <2>15 DEF Inv
<1> QED
    BY <1>1, <1>3, <1>4, <1>5, <1>6 DEF PlanUpdate

----------------------------------------------------------------------------
(* The old stop is retired.                                                *)
LEMMA InRetiring ==
    ASSUME Inv, op.act = "update", op.step \in Retiring
    PROVE /\ op.old = rec /\ rec \in Orders /\ rec \in Ids /\ op.new \in Ids /\ op.new # rec /\ open /\ ~Parking /\ ~op.retired
          /\ (PlaceFirst <=> op.new # None) /\ op.step # "find" /\ op.step # "live"
          /\ ord[rec].st \notin {"none", "inflight"}
<1>0. TypeInv /\ UpdateInv /\ OrderInv
    BY DEF Inv
<1>1. op.old = rec /\ rec # None /\ rec \in Ids /\ op.new \in Ids /\ open /\ ~Parking /\ ~op.retired
    BY <1>0, OpFields DEF UpdateInv, Retiring, Parking, TypeInv
<1>2. (PlaceFirst <=> op.new # None) /\ op.step # "find" /\ op.step # "live"
    BY <1>0 DEF UpdateInv, Retiring
<1>3. op.new # rec
    BY <1>0, <1>1 DEF UpdateInv
<1> QED
    BY <1>0, <1>1, <1>2, <1>3 DEF OrderInv, Ids

LEMMA RetiringMoves ==
    ASSUME Inv, op.act = "update", op.step \in Retiring, op' \in OpType,
           (op' = Idle /\ op.new = None)
               \/ (Carried /\ op'.new = op.new /\ op'.step \in Retiring \cup {"withdraw", "commit", "place"}),
           UNCHANGED <<cfg, unread, book>>, faults' \in 0..MaxFaults, loose \subseteq loose', loose' \subseteq Ways,
           UpdateInv', NEW st \in OrderState, SetOrd(op.old, st),
           \/ st = ord[op.old].st /\ net' = net
           \/ ord[op.old].st = "working" /\ st = "cancelled" /\ net' = net
           \/ ord[op.old].st = "working" /\ st = "filled" /\ Verify /\ net' = net - 1
              /\ (InWindow(op.old) => "gap" \in loose')
    PROVE Inv'
<1>0. /\ TypeInv /\ UpdateInv /\ SweepInv /\ OrderInv /\ RowInv /\ PairInv /\ NameInv /\ SoldInv /\ TrackInv /\ CountInv
    BY DEF Inv
<1>1. /\ op.old = rec /\ rec \in Orders /\ rec \in Ids /\ op.new \in Ids /\ op.new # rec /\ open /\ ~Parking /\ ~op.retired
      /\ (PlaceFirst <=> op.new # None) /\ op.step # "find" /\ op.step # "live"
      /\ ord[rec].st \notin {"none", "inflight"}
    BY InRetiring
<1>2. /\ ord' \in [Orders -> OrdType] /\ ord'[rec].st = st /\ \A p \in Orders : ord'[p].lvl = ord[p].lvl
      /\ \A p \in Orders : p # rec => ord'[p] = ord[p]
    BY <1>0, <1>1, SetOrdDoes
<1>3. /\ UNCHANGED <<cfg, unread, open, row, brk, rec, settled, told>>
    BY DEF book
<1>4. /\ op'.new = op.new /\ op'.step # "find" /\ op'.act \in {"none", "update"} /\ op'.old \in {None, rec}
      /\ (op' # Idle => Carried /\ op'.step \in Retiring \cup {"withdraw", "commit", "place"})
    BY <1>1, IdleFields DEF Carried, Retiring
<1>5. /\ Plain' = Plain /\ PlaceFirst' = PlaceFirst /\ Verify' = Verify /\ Parking' = Parking
      /\ \A p : Handled(p)' = Handled(p) /\ Tracked(p)' = Tracked(p)
    BY <1>3, <1>4, BookSame
<1>6. /\ \A p \in Orders : Live(p)' => Live(p)
      /\ \A p \in Orders : Dead(p) => Dead(p)'
      /\ \A p \in Orders : ord[p].st = "filled" => ord'[p].st = "filled"
      /\ \A p \in Orders : ord'[p].st = "firing" => ord[p].st = "firing"
      /\ \A p \in Orders : ~Awaited(p) /\ ~Awaited(p)'
    BY <1>1, <1>2, <1>4, <1>5 DEF Live, Dead, Awaited
<1>7. net \in Int /\ net' \in {net, net - 1} /\ net' \in Int
    BY <1>0 DEF TypeInv
<1>8. CASE st = "filled" /\ net' = net - 1 /\ ord[rec].st = "working" /\ Verify
    <2>1. Plain /\ Live(rec) /\ ~Live(rec)' /\ Handled(rec)
        BY <1>0, <1>2, <1>3, <1>8, CfgType DEF Live, Handled
    <2>2. ASSUME Sure' PROVE Sure /\ ~InWindow(rec)
        BY <1>1, <1>5, <1>8, <2>2 DEF Sure
    <2>3. ASSUME Sure' PROVE net = 1 /\ \A q \in Orders : ord[q].st # "firing"
        <3>1. CASE PlaceFirst
            <4>1. ~(net < 1) /\ \A q \in Orders \ {rec} : ord[q].st # "firing"
                BY <1>1, <2>2, <2>3, <3>1 DEF InWindow
            <4> QED
                BY <1>0, <1>7, <1>8, <4>1 DEF OrderInv
        <3>2. CASE ~PlaceFirst
            <4>1. op.new = None
                BY <1>1, <3>2
            <4>2. ~(net < 1)
                BY <1>0, <1>1, <2>1, <2>2, <2>3, <4>1 DEF SoldInv
            <4>3. ASSUME NEW q \in Orders, ord[q].st = "firing" PROVE FALSE
                <5>1. Live(q) /\ ~Awaited(q) /\ ~Lost
                    BY <2>2, <2>3, <4>3 DEF Live, Awaited, Sure, Lost
                <5>2. Handled(q)
                    BY <1>0, <2>1, <5>1 DEF NameInv
                <5> QED
                    BY <1>8, <4>1, <4>3, <5>2, ExitStopAssumption DEF Handled
            <4> QED
                BY <1>0, <1>7, <4>2, <4>3 DEF OrderInv
        <3> QED
            BY <3>1, <3>2
    <2>4. TypeInv'
        BY <1>0, <1>2, <1>3, <1>7 DEF TypeInv
    <2>5. SweepInv'
        BY <1>4, IdleFields DEF SweepInv, Carried
    <2>6. OrderInv'
        <3>1. net' <= 0
            BY <1>0, <1>7, <1>8 DEF OrderInv
        <3>2. \A p \in Orders : ord'[p].st \in {"none", "inflight"} => p \notin {brk, rec, op'.old, op'.new}
            BY <1>0, <1>2, <1>4, <1>8, ExitStopAssumption DEF OrderInv
        <3>3. \A p \in unread : ord'[p].st \in {"filled", "dropped"}
            BY <1>0, <1>2, <1>8 DEF OrderInv, TypeInv
        <3> QED
            BY <1>0, <1>3, <1>7, <3>1, <3>2, <3>3 DEF OrderInv
    <2>7. RowInv' /\ PairInv'
        <3>1. RowInv'
            BY <1>0, <1>1, <1>2, <1>3 DEF RowInv
        <3>2. PairInv'
            BY <1>0, <1>1, <1>3, <1>5, <1>6 DEF PairInv, Ids, TypeInv
        <3> QED
            BY <3>1, <3>2
    <2>8. NameInv'
        <3> SUFFICES ASSUME ~Lost' PROVE NameInv'
            BY DEF NameInv
        <3>1. ~Lost
            BY DEF Lost
        <3> QED
            BY <1>0, <1>5, <1>6, <2>1, <3>1 DEF NameInv
    <2>9. SoldInv'
        <3>1. ASSUME Sure', NEW p \in Orders, Live(p)', Handled(p) PROVE op'.new # None /\ op'.step # "commit"
            <4>1. p = op.new /\ op.new # None
                BY <1>3, <2>1, <3>1, ExitStopAssumption DEF Handled
            <4>2. op' # Idle /\ op'.act = "update" /\ op'.old = rec
                BY <1>1, <1>4, <4>1, IdleFields DEF Carried
            <4>3. ~Dead(rec)' /\ "unread" \notin loose' /\ Plain'
                BY <1>2, <1>3, <1>8, <3>1 DEF Dead, Sure
            <4> QED
                BY <1>1, <1>2, <1>4, <1>8, <4>1, <4>2, <4>3, ExitStopAssumption DEF UpdateInv, Dead
        <3>2. ASSUME Sure', op'.act = "update" PROVE \E p \in {op'.old, op'.new} \ {None} : ord'[p].st = "filled"
            <4>1. op'.old = rec /\ rec # None
                BY <1>1, <1>4, <3>2, IdleFields, ExitStopAssumption DEF Carried
            <4> QED
                BY <1>2, <1>8, <4>1
        <3>3. ASSUME Sure' PROVE net' = 0 /\ \A q \in Orders : ord'[q].st # "firing"
            BY <1>6, <1>8, <2>3, <3>3
        <3>4. Plain' /\ ~Parking'
            BY <1>1, <1>5, <2>1
        <3> QED
            BY <1>5, <3>1, <3>2, <3>3, <3>4 DEF SoldInv
    <2>10. TrackInv'
        <3> SUFFICES ASSUME loose = {} PROVE TrackInv'
            BY DEF TrackInv
        <3>1. \A p \in Orders : Live(p)' => Tracked(p)' \/ (Plain' /\ ~Handled(p)') \/ (p = rec' /\ PlaceFirst')
            BY <1>0, <1>1, <1>3, <1>5, <1>6 DEF TrackInv
        <3>2. Tracked(rec) \/ PlaceFirst
            BY <1>0, <1>1, <2>1 DEF TrackInv
        <3>3. Tracked(rec)
            BY <1>0, <1>1, <1>8, <3>2 DEF PairInv, Dead, Tracked
        <3> QED
            BY <1>1, <1>2, <1>5, <1>8, <3>1, <3>3 DEF TrackInv
    <2>11. CountInv'
        <3>1. Before' => Before
            BY <1>1, <1>4, IdleFields DEF Before
        <3>2. rec \in Alive /\ Alive' \subseteq Alive \ {rec}
            BY <1>1, <1>3, <1>6, <2>1 DEF Alive
        <3>3. net' >= net - 1
            BY <1>7, <1>8
        <3> QED
            BY <1>0, <2>4, <3>1, <3>2, <3>3, CountFills
    <2> QED
        BY <2>4, <2>5, <2>6, <2>7, <2>8, <2>9, <2>10, <2>11 DEF Inv
<1>9. CASE net' = net /\ (st = ord[rec].st \/ (st = "cancelled" /\ ord[rec].st = "working"))
    <2>2. \A p \in Orders : (ord'[p].st = "filled") = (ord[p].st = "filled")
        BY <1>2, <1>9
    <2>4. TypeInv'
        BY <1>0, <1>2, <1>3, <1>9 DEF TypeInv
    <2>5. SweepInv'
        BY <1>4, IdleFields DEF SweepInv, Carried
    <2>6. OrderInv'
        <3>2. \A p \in Orders : ord'[p].st \in {"none", "inflight"} => p \notin {brk, rec, op'.old, op'.new}
            BY <1>0, <1>1, <1>2, <1>4, <1>9, ExitStopAssumption DEF OrderInv
        <3>3. \A p \in unread : ord'[p].st \in {"filled", "dropped"}
            BY <1>0, <1>1, <1>2, <1>9 DEF OrderInv, TypeInv
        <3> QED
            BY <1>0, <1>3, <1>9, <2>2, <3>2, <3>3 DEF OrderInv
    <2>7. RowInv' /\ PairInv'
        <3>1. RowInv'
            BY <1>0, <1>1, <1>2, <1>3 DEF RowInv
        <3>2. PairInv'
            BY <1>0, <1>1, <1>3, <1>5, <1>6 DEF PairInv, Ids, TypeInv
        <3> QED
            BY <3>1, <3>2
    <2>8. NameInv'
        <3> SUFFICES ASSUME Plain, ~Lost' PROVE NameInv'
            BY <1>5 DEF NameInv
        <3>1. ~Lost
            BY DEF Lost
        <3> QED
            BY <1>0, <1>5, <1>6, <3>1 DEF NameInv
    <2>9. SoldInv'
        <3>1. ~Plain' => net' >= 0
            BY <1>0, <1>5, <1>9 DEF SoldInv
        <3>2. ASSUME Sure' PROVE Sure
            BY <1>5, <3>2 DEF Sure
        <3>3. ASSUME Sure', net' < 1 PROVE \E p \in {op.old, op.new} \ {None} : ord[p].st = "filled"
            BY <1>0, <1>1, <1>9, <3>2, <3>3 DEF SoldInv
        <3>4. ASSUME Sure', net' < 1, NEW p \in Orders, Live(p)', Handled(p) PROVE op'.new # None /\ op'.step # "commit"
            <4>1. op'.new # None
                BY <1>0, <1>4, <1>6, <1>9, <3>2, <3>4 DEF SoldInv
            <4>2. op' # Idle /\ op'.act = "update" /\ op'.old = rec
                BY <1>1, <1>4, <4>1, IdleFields DEF Carried
            <4>3. ASSUME op'.step = "commit" PROVE FALSE
                <5>1. Plain' /\ "unread" \notin loose'
                    BY <3>4 DEF Sure
                <5>2. Dead(rec)'
                    BY <1>1, <4>2, <4>3, <5>1, ExitStopAssumption DEF UpdateInv, Dead
                <5>3. p = op.new
                    BY <1>3, <3>4, <5>2 DEF Handled, Dead, Live
                <5>4. ord[rec].st # "filled"
                    BY <1>1, <1>3, <2>2, <5>2 DEF Dead
                <5>5. ord[op.new].st = "filled"
                    BY <1>1, <3>3, <3>4, <5>4
                <5> QED
                    BY <1>6, <3>4, <5>3, <5>5 DEF Live
            <4> QED
                BY <4>1, <4>3
        <3>5. ASSUME Sure', net' < 1, op'.act = "update" PROVE \E p \in {op'.old, op'.new} \ {None} : ord'[p].st = "filled"
            <4>1. op'.old = rec
                BY <1>1, <1>4, <3>5, IdleFields DEF Carried
            <4>2. PICK p \in {op.old, op.new} \ {None} : ord[p].st = "filled"
                BY <3>3, <3>5
            <4>3. p \in Orders
                BY <1>1, <4>2 DEF Ids
            <4> QED
                BY <1>1, <1>4, <1>6, <4>1, <4>2, <4>3
        <3>6. ASSUME Sure' PROVE /\ net' >= 0
                                 /\ \A p, q \in Orders : ord'[p].st = "firing" /\ ord'[q].st = "firing" => p = q
                                 /\ net' < 1 => \A p \in Orders : ord'[p].st # "firing"
            BY <1>0, <1>6, <1>9, <3>2, <3>6 DEF SoldInv
        <3>7. ~Parking'
            BY <1>1, <1>5
        <3> QED
            BY <1>5, <3>1, <3>4, <3>5, <3>6, <3>7 DEF SoldInv
    <2>10. TrackInv'
        <3> SUFFICES ASSUME loose = {} PROVE TrackInv'
            BY DEF TrackInv
        <3>1. \A p \in Orders : Live(p)' => Tracked(p)' \/ (Plain' /\ ~Handled(p)') \/ (p = rec' /\ PlaceFirst')
            BY <1>0, <1>1, <1>3, <1>5, <1>6 DEF TrackInv
        <3>2. net < 1 => \E p \in Orders : Tracked(p)' /\ ord'[p].st = "filled"
            BY <1>0, <1>1, <1>5, <1>6 DEF TrackInv
        <3> QED
            BY <1>9, <3>1, <3>2 DEF TrackInv
    <2>11. CountInv'
        <3>1. Before' => Before
            BY <1>1, <1>4, IdleFields DEF Before
        <3>2. Alive' \subseteq Alive
            BY <1>6 DEF Alive
        <3>3. net' >= net
            BY <1>7, <1>9
        <3> QED
            BY <1>0, <2>4, <3>1, <3>2, <3>3, CountFewer
    <2> QED
        BY <2>4, <2>5, <2>6, <2>7, <2>8, <2>9, <2>10, <2>11 DEF Inv
<1> QED
    BY <1>1, <1>8, <1>9

LEMMA Settles ==
    ASSUME Inv, op.act = "update", op.step \in Retiring, NEW out, AfterRetire(out), UNCHANGED <<cfg, book>>,
           \A o \in Orders : ord'[o].lvl = ord[o].lvl,
           out \in {"cancelled", "gone"} => Dead(rec)' \/ (ord'[rec].st = "filled" /\ "unread" \in loose')
    PROVE /\ op' \in OpType /\ UpdateInv'
          /\ \/ op' = Idle /\ op.new = None
             \/ Carried /\ op'.new = op.new /\ op'.step \in Retiring \cup {"withdraw", "commit", "place"}
<1>0. TypeInv /\ UpdateInv
    BY DEF Inv
<1>1. /\ op.old = rec /\ rec \in Orders /\ rec \in Ids /\ op.new \in Ids /\ op.new # rec /\ open /\ ~Parking /\ ~op.retired
      /\ (PlaceFirst <=> op.new # None) /\ op.step # "find" /\ op.step # "live"
      /\ ord[rec].st \notin {"none", "inflight"}
    BY InRetiring
<1>2. UNCHANGED <<cfg, open, row, brk, rec, settled, told>>
    BY DEF book
<1>3. Plain' = Plain /\ PlaceFirst' = PlaceFirst /\ Verify' = Verify /\ (PlaceFirst => Plain)
    BY <1>0, <1>2, CfgType DEF Plain, PlaceFirst, Verify
<1>4. /\ op.u \in Seqs /\ op.todo = {} /\ row.active /\ Level[op.u] > row.cur /\ ~IsMarker(row.slot)
      /\ op.new # None => op.new \notin {rec, brk} /\ ord[op.new].lvl = Level[op.u]
    BY <1>0 DEF UpdateInv, Retiring
<1>5. op.new # None => ord'[op.new].lvl = Level[op.u]
    BY <1>1, <1>4 DEF Ids
<1>6. rec # None
    BY <1>1, ExitStopAssumption
<1>7. ASSUME Carried, op'.new = op.new, op'.retired, op' \in OpType,
             out \in {"cancelled", "gone"}, op'.step = IF PlaceFirst THEN "commit" ELSE "place"
      PROVE UpdateInv'
    <2>1. Dead(op.old)' \/ (ord'[op'.old].st = "filled" /\ "unread" \in loose')
        BY <1>1, <1>2, <1>7 DEF Carried, Dead
    <2>2. CASE PlaceFirst
        BY <1>1, <1>2, <1>3, <1>4, <1>5, <1>6, <1>7, <2>1, <2>2 DEF UpdateInv, Carried, UpdateSteps, Retiring
    <2>3. CASE ~PlaceFirst
        BY <1>1, <1>2, <1>3, <1>4, <1>5, <1>6, <1>7, <2>1, <2>3 DEF UpdateInv, Carried, UpdateSteps, Retiring
    <2> QED
        BY <2>2, <2>3
<1>8. ASSUME Carried, op'.new = op.new, op'.retired = op.retired, PlaceFirst, op'.step = "withdraw"
      PROVE UpdateInv'
    BY <1>1, <1>2, <1>3, <1>4, <1>5, <1>6, <1>8 DEF UpdateInv, Carried, UpdateSteps, Retiring
<1>9. ASSUME Carried, op'.new = op.new, op'.retired = op.retired, ~Plain, op'.step = "place"
      PROVE UpdateInv'
    BY <1>1, <1>2, <1>3, <1>4, <1>5, <1>6, <1>9 DEF UpdateInv, Carried, UpdateSteps, Retiring
<1>10. ASSUME op' = Idle PROVE UpdateInv'
    BY <1>10, IdleFields DEF UpdateInv
<1>11. /\ op' \in OpType
       /\ \/ /\ out \in {"cancelled", "gone"}
             /\ Carried /\ op'.new = op.new /\ op'.ans = op.ans /\ op'.retired
             /\ op'.step = IF PlaceFirst THEN "commit" ELSE "place"
          \/ /\ out \notin {"cancelled", "gone"} /\ PlaceFirst
             /\ Carried /\ op'.new = op.new /\ op'.ans = op.ans /\ op'.retired = op.retired
             /\ op'.step = "withdraw"
          \/ /\ out = "failed" /\ ~Plain
             /\ Carried /\ op'.new = op.new /\ op'.ans = op.ans /\ op'.retired = op.retired
             /\ op'.step = "place"
          \/ out \notin {"cancelled", "gone"} /\ ~PlaceFirst /\ op' = Idle
    BY <1>0, AfterRetireDoes
<1>12. UpdateInv'
    BY <1>7, <1>8, <1>9, <1>10, <1>11
<1> QED
    BY <1>1, <1>11, <1>12

LEMMA Looks ==
    ASSUME Inv, op.act = "update", op.step \in Retiring, NEW s \in Retiring, NEW ans \in Answers,
           op' = [op EXCEPT !.ans = ans, !.step = s], UNCHANGED <<cfg, book>>,
           \A o \in Orders : ord'[o].lvl = ord[o].lvl,
           s \in {"read1", "read2"} => ord'[rec].st # "working",
           s = "status" /\ ans = "acked" => ord'[rec].st \in {"cancelled", "filled"} /\ rec \notin unread'
    PROVE op' \in OpType /\ UpdateInv' /\ Carried /\ op'.new = op.new /\ op'.step \in Retiring
<1>0. TypeInv /\ UpdateInv
    BY DEF Inv
<1>1. /\ op.old = rec /\ rec \in Orders /\ rec \in Ids /\ op.new \in Ids /\ op.new # rec /\ open /\ ~Parking /\ ~op.retired
      /\ (PlaceFirst <=> op.new # None)
    BY InRetiring
<1>2. UNCHANGED <<cfg, open, row, brk, rec, settled, told>>
    BY DEF book
<1>3. Plain' = Plain /\ PlaceFirst' = PlaceFirst /\ Verify' = Verify
    BY <1>2 DEF Plain, PlaceFirst, Verify
<1>4. /\ op.u \in Seqs /\ op.todo = {} /\ row.active /\ Level[op.u] > row.cur /\ ~IsMarker(row.slot)
      /\ op.new # None => op.new \notin {rec, brk} /\ ord[op.new].lvl = Level[op.u]
    BY <1>0 DEF UpdateInv, Retiring
<1>5. op.new # None => ord'[op.new].lvl = Level[op.u]
    BY <1>1, <1>4 DEF Ids
<1>6. rec # None
    BY <1>1, ExitStopAssumption
<1>7. op' \in OpType /\ Carried /\ op'.new = op.new /\ op'.step = s /\ op'.ans = ans /\ op'.retired = op.retired
    BY <1>0 DEF TypeInv, OpType, Carried, Retiring, Steps
<1>8. UpdateInv'
    BY <1>1, <1>2, <1>3, <1>4, <1>5, <1>6, <1>7 DEF UpdateInv, Carried, UpdateSteps, Retiring
<1> QED
    BY <1>7, <1>8

LEMMA CancelOldKeeps == ASSUME Inv, CancelOld PROVE Inv'
<1>0. TypeInv /\ OrderInv /\ op.act = "update" /\ op.step \in Retiring
    BY DEF Inv, CancelOld, Retiring
<1>1. op.old = rec /\ rec \in Orders
    BY <1>0, InRetiring
<1>2. PICK st \in OrderState, ans \in {"acked", "gone", "error"} :
        /\ CancelAnswer(op.old, st, ans)
        /\ Hit(op.old, st)
        /\ IF ans = "gone" \/ Verify
             THEN op' = [op EXCEPT !.ans = ans, !.step = "status"]
             ELSE AfterRetire(IF ans = "acked" THEN "cancelled" ELSE "failed")
        /\ loose' = loose \cup Way("gap", st = "filled" /\ InWindow(op.old))
    BY DEF CancelOld
<1>3. UNCHANGED <<cfg, unread, book>>
    BY DEF CancelOld
<1>4. loose \subseteq loose' /\ loose' \subseteq Ways /\ (st = "filled" /\ InWindow(op.old) => "gap" \in loose')
    BY <1>0, <1>2 DEF TypeInv, Way, Ways
<1>5. faults' \in 0..MaxFaults
    BY <1>0, <1>2, FaultType DEF CancelAnswer
<1>6. SetOrd(op.old, st) /\ net' = IF st = "filled" /\ ord[op.old].st # "filled" THEN net - 1 ELSE net
    BY <1>2 DEF Hit
<1>7. /\ ord'[rec].st = st /\ \A p \in Orders : ord'[p].lvl = ord[p].lvl
    BY <1>0, <1>1, <1>6, SetOrdDoes
<1>8. \/ st = ord[op.old].st /\ net' = net
      \/ ord[op.old].st = "working" /\ st = "cancelled" /\ net' = net
      \/ ord[op.old].st = "working" /\ st = "filled" /\ Verify /\ net' = net - 1 /\ (InWindow(op.old) => "gap" \in loose')
    BY <1>2, <1>4, <1>6 DEF CancelAnswer
<1>9. ans = "acked" => ord[rec].st = "working" /\ (st = "cancelled" \/ (st = "filled" /\ Verify))
    BY <1>1, <1>2 DEF CancelAnswer
<1>10. /\ op' \in OpType /\ UpdateInv'
       /\ \/ op' = Idle /\ op.new = None
          \/ Carried /\ op'.new = op.new /\ op'.step \in Retiring \cup {"withdraw", "commit", "place"}
    <2>1. CASE ans = "gone" \/ Verify
        <3>1. op' = [op EXCEPT !.ans = ans, !.step = "status"]
            BY <1>2, <2>1
        <3>2. ans = "acked" => ord'[rec].st \in {"cancelled", "filled"} /\ rec \notin unread'
            BY <1>0, <1>3, <1>7, <1>9 DEF OrderInv
        <3>3. "status" \in Retiring /\ ans \in Answers
            BY DEF Retiring, Answers
        <3>4. op' \in OpType /\ UpdateInv' /\ Carried /\ op'.new = op.new /\ op'.step \in Retiring
            BY <1>0, <1>3, <1>7, <3>1, <3>2, <3>3, Looks
        <3> QED
            BY <3>4
    <2>2. CASE ~(ans = "gone" \/ Verify)
        <3>1. PICK out : out = IF ans = "acked" THEN "cancelled" ELSE "failed"
            OBVIOUS
        <3>2. AfterRetire(out)
            BY <1>2, <2>2, <3>1
        <3>3. out \in {"cancelled", "gone"} => Dead(rec)'
            BY <1>3, <1>7, <1>9, <2>2, <3>1 DEF Dead, book
        <3>4. UNCHANGED <<cfg, book>>
            BY <1>3
        <3> QED
            BY <1>0, <1>7, <3>2, <3>3, <3>4, Settles
    <2> QED
        BY <2>1, <2>2
<1> QED
    BY <1>0, <1>3, <1>4, <1>5, <1>6, <1>8, <1>10, RetiringMoves

(* Looking at the old stop changes nothing at the venue.                   *)
LEMMA RetiringLooks ==
    ASSUME Inv, op.act = "update", op.step \in Retiring, op' \in OpType, UpdateInv',
           (op' = Idle /\ op.new = None)
               \/ (Carried /\ op'.new = op.new /\ op'.step \in Retiring \cup {"withdraw", "commit", "place"}),
           UNCHANGED <<cfg, venue, book>>, faults' \in 0..MaxFaults, loose \subseteq loose', loose' \subseteq Ways
    PROVE Inv'
<1>0. TypeInv
    BY DEF Inv
<1>1. op.old = rec /\ rec \in Orders
    BY InRetiring
<1>2. UNCHANGED <<ord, unread, net>>
    BY DEF venue
<1>3. PICK st \in OrderState : st = ord[rec].st
    BY <1>0, <1>1, OrdFields
<1>4. SetOrd(op.old, st)
    <2>1. ord[rec] \in [st : OrderState, lvl : Levels]
        BY <1>0, <1>1 DEF TypeInv, OrdType
    <2>2. [ord[rec] EXCEPT !.st = st] = ord[rec]
        BY <1>3, <2>1
    <2>3. ord' = [ord EXCEPT ![rec] = ord[rec]]
        BY <1>0, <1>2 DEF TypeInv
    <2>4. ord' = [ord EXCEPT ![rec] = [ord[rec] EXCEPT !.st = st]]
        BY <2>2, <2>3
    <2> QED
        BY <1>1, <2>4 DEF SetOrd
<1> QED
    BY <1>1, <1>2, <1>3, <1>4, RetiringMoves

LEMMA StatusSays ==
    ASSUME TypeInv, OrderInv, NEW o \in Orders, ord[o].st \notin {"none", "inflight"}
    PROVE /\ Status(o) = "filled" => ord[o].st = "filled" /\ o \notin unread
          /\ Status(o) = "cancelled" => Dead(o) /\ o \notin unread
          /\ Status(o) = "triggered" => ord[o].st \in {"firing", "filled", "dropped"}
          /\ Status(o) = "working" => ord[o].st = "working"
          /\ ord[o].st \in {"cancelled", "filled"} /\ o \notin unread => Status(o) = ord[o].st
BY DEF Status, OrderInv, Dead

LEMMA StatusOldKeeps == ASSUME Inv, StatusOld PROVE Inv'
<1>0. TypeInv /\ OrderInv /\ UpdateInv /\ op.act = "update" /\ op.step \in Retiring /\ op.step = "status"
    BY DEF Inv, StatusOld, Retiring
<1>1. op.old = rec /\ rec \in Orders /\ ord[rec].st \notin {"none", "inflight"}
    BY <1>0, InRetiring
<1>2. UNCHANGED <<cfg, venue, book>> /\ UNCHANGED <<ord, unread, rec>>
    BY DEF StatusOld, venue, book
<1>3. PICK st \in {Status(op.old), "unreadable"} :
        /\ IF st = "unreadable" THEN Fault ELSE NoFault
        /\ IF op.ans = "gone" /\ st = "triggered"
             THEN Goto("read1")
             ELSE AfterRetire(OutcomeOf(op.ans, st))
        /\ loose' = loose \cup Way("unread", st = "unreadable" /\ op.ans = "acked" /\ ord[op.old].st = "filled")
    BY DEF StatusOld
<1>4. /\ loose \subseteq loose' /\ loose' \subseteq Ways
      /\ st = "unreadable" /\ op.ans = "acked" /\ ord[rec].st = "filled" => "unread" \in loose'
    BY <1>0, <1>1, <1>3 DEF TypeInv, Way, Ways
<1>5. faults' \in 0..MaxFaults
    BY <1>0, <1>3, FaultType
<1>6. /\ op' \in OpType /\ UpdateInv'
      /\ \/ op' = Idle /\ op.new = None
         \/ Carried /\ op'.new = op.new /\ op'.step \in Retiring \cup {"withdraw", "commit", "place"}
    <2>1. CASE op.ans = "gone" /\ st = "triggered"
        <3>1. op' = [op EXCEPT !.ans = op.ans, !.step = "read1"]
            BY <1>0, <1>3, <2>1 DEF Goto, TypeInv, OpType
        <3>2. ord[rec].st # "working"
            BY <1>0, <1>1, <1>3, <2>1, StatusSays
        <3>3. "read1" \in Retiring /\ op.ans \in Answers
            BY <1>0, OpFields DEF Retiring
        <3>4. op' \in OpType /\ UpdateInv' /\ Carried /\ op'.new = op.new /\ op'.step \in Retiring
            BY <1>0, <1>2, <3>1, <3>2, <3>3, Looks
        <3> QED
            BY <3>4
    <2>2. CASE ~(op.ans = "gone" /\ st = "triggered")
        <3>1. PICK out : out = OutcomeOf(op.ans, st)
            OBVIOUS
        <3>2. AfterRetire(out)
            BY <1>3, <2>2, <3>1
        <3>3. ASSUME out \in {"cancelled", "gone"} PROVE Dead(rec) \/ (ord[rec].st = "filled" /\ "unread" \in loose')
            <4>1. CASE op.ans = "acked"
                <5>1. ord[rec].st \in {"cancelled", "filled"} /\ rec \notin unread
                    BY <1>0, <1>1, <4>1 DEF UpdateInv
                <5>2. CASE ord[rec].st = "cancelled"
                    BY <5>2 DEF Dead
                <5>3. CASE ord[rec].st = "filled"
                    <6>1. Status(rec) = "filled"
                        BY <1>0, <1>1, <5>1, <5>3, StatusSays
                    <6>2. st # "filled"
                        BY <3>1, <3>3 DEF OutcomeOf
                    <6> QED
                        BY <1>1, <1>3, <1>4, <4>1, <5>3, <6>1, <6>2
                <5> QED
                    BY <5>1, <5>2, <5>3
            <4>2. CASE op.ans # "acked"
                <5>1. st = "cancelled"
                    BY <3>1, <3>3, <4>2 DEF OutcomeOf
                <5> QED
                    BY <1>0, <1>1, <1>3, <5>1, StatusSays
            <4> QED
                BY <4>1, <4>2
        <3>4. out \in {"cancelled", "gone"} => Dead(rec)' \/ (ord'[rec].st = "filled" /\ "unread" \in loose')
            BY <1>2, <3>3 DEF Dead
        <3> QED
            BY <1>0, <1>2, <3>2, <3>4, Settles
    <2> QED
        BY <2>1, <2>2
<1> QED
    BY <1>0, <1>2, <1>4, <1>5, <1>6, RetiringLooks

(* An order that fired and that no longer can, while the lineage is in,    *)
(* was dropped.                                                            *)
LEMMA FiredAndIn ==
    ASSUME TypeInv, OrderInv, NEW o \in Orders, Verdict = "dropped", In({"firing"}) = {},
           ord[o].st \notin {"none", "inflight", "working"}
    PROVE Dead(o)
<1>1. net = 1
    BY DEF Verdict
<1>2. ord[o].st # "filled" /\ ord[o].st # "firing"
    BY <1>1 DEF OrderInv, In
<1> QED
    BY <1>2, OrdFields DEF OrderState, Dead

LEMMA FiredOldKeeps == ASSUME Inv, FiredOld PROVE Inv'
<1>0. TypeInv /\ OrderInv /\ UpdateInv /\ op.act = "update" /\ op.step \in Retiring /\ op.step \in {"read1", "read2"}
    BY DEF Inv, FiredOld, Retiring
<1>1. op.old = rec /\ rec \in Orders /\ ord[rec].st \notin {"none", "inflight", "working"}
    BY <1>0, InRetiring DEF UpdateInv
<1>2. UNCHANGED <<cfg, venue, book, loose>> /\ UNCHANGED <<ord, unread, rec>>
    BY DEF FiredOld, venue, book
<1>3. loose \subseteq loose' /\ loose' \subseteq Ways
    BY <1>0, <1>2 DEF TypeInv
<1>4. faults' \in 0..MaxFaults
    BY <1>0, FaultType DEF FiredOld, ReadOnce
<1>5. ASSUME Goto("read2") PROVE op' \in OpType /\ UpdateInv' /\ Carried /\ op'.new = op.new /\ op'.step \in Retiring
    <2>1. op' = [op EXCEPT !.ans = op.ans, !.step = "read2"]
        BY <1>0, <1>5 DEF Goto, TypeInv, OpType
    <2>2. "read2" \in Retiring /\ op.ans \in Answers
        BY <1>0, OpFields DEF Retiring
    <2> QED
        BY <1>0, <1>1, <1>2, <2>1, <2>2, Looks
<1>6. ASSUME NEW out, AfterRetire(out), out \in {"cancelled", "gone"} => Dead(rec)
      PROVE /\ op' \in OpType /\ UpdateInv'
            /\ \/ op' = Idle /\ op.new = None
               \/ Carried /\ op'.new = op.new /\ op'.step \in Retiring \cup {"withdraw", "commit", "place"}
    <2>1. out \in {"cancelled", "gone"} => Dead(rec)'
        BY <1>2, <1>6 DEF Dead
    <2> QED
        BY <1>0, <1>2, <1>6, <2>1, Settles
<1>7. /\ op' \in OpType /\ UpdateInv'
      /\ \/ op' = Idle /\ op.new = None
         \/ Carried /\ op'.new = op.new /\ op'.step \in Retiring \cup {"withdraw", "commit", "place"}
    <2>1. CASE op.step = "read1"
        <3>1. CASE Verdict = "dropped" /\ Goto("read2")
            BY <1>5, <3>1
        <3>2. CASE Verdict # "dropped" /\ AfterRetire(Verdict)
            <4>1. PICK out : out = Verdict
                OBVIOUS
            <4>2. out \notin {"cancelled", "gone"}
                BY <4>1 DEF Verdict
            <4> QED
                BY <1>6, <3>2, <4>1, <4>2
        <3>3. CASE AfterRetire("unresolved")
            BY <1>6, <3>3
        <3> QED
            BY <1>0, <2>1, <3>1, <3>2, <3>3 DEF FiredOld, ReadOnce
    <2>2. CASE op.step = "read2"
        <3>1. PICK out : out = IF Verdict = "dropped" THEN "gone" ELSE "unresolved"
            OBVIOUS
        <3>2. AfterRetire(out) /\ In({"firing"}) = {}
            BY <2>2, <3>1 DEF FiredOld
        <3>3. out \in {"cancelled", "gone"} => Dead(rec)
            BY <1>0, <1>1, <3>1, <3>2, FiredAndIn
        <3> QED
            BY <1>6, <3>2, <3>3
    <2> QED
        BY <1>0, <2>1, <2>2
<1>8. UNCHANGED <<cfg, venue, book>>
    BY <1>2
<1> QED
    BY <1>0, <1>3, <1>4, <1>7, <1>8, RetiringLooks

----------------------------------------------------------------------------
(* The new stop is placed.                                                 *)
LEMMA InPlacing ==
    ASSUME Inv, op.step \in {"place", "find"}
    PROVE /\ op.act = "update" /\ op.old = rec /\ op.new = None /\ ~Parking /\ ~IsMarker(row.slot) /\ open /\ row.active
          /\ op.u \in Seqs /\ Level[op.u] \in Levels /\ Level[op.u] > row.cur /\ op.todo = {}
          /\ PlaceFirst => rec # None /\ ~op.retired
          /\ Plain /\ ~PlaceFirst => op.retired \/ rec = None
          /\ op.retired => rec # None /\ ~Live(rec) /\ (Dead(rec) \/ (ord[rec].st = "filled" /\ "unread" \in loose))
          /\ Plain /\ ~PlaceFirst /\ rec # None => ~Live(rec)
          /\ op.step = "find" => Verify
<1>0. TypeInv /\ UpdateInv /\ SweepInv /\ PairInv
    BY DEF Inv
<1>1. op.act = "update"
    BY <1>0, Updating DEF UpdateSteps
<1>2. /\ op.old = rec /\ op.new = None /\ ~Parking /\ ~IsMarker(row.slot) /\ open /\ row.active
      /\ op.u \in Seqs /\ Level[op.u] \in Levels /\ Level[op.u] > row.cur /\ op.todo = {}
    BY <1>0, <1>1, LevelsType DEF UpdateInv, Parking
<1>3. (PlaceFirst => rec # None /\ ~op.retired) /\ (op.step = "find" => Verify)
    BY <1>0, <1>1 DEF UpdateInv, PairInv
<1>4. Plain /\ ~PlaceFirst => op.retired \/ rec = None
    BY <1>0, <1>1, <1>2 DEF UpdateInv
<1>5. op.retired => rec # None /\ ~Live(rec) /\ (Dead(rec) \/ (ord[rec].st = "filled" /\ "unread" \in loose))
    BY <1>0, <1>1, <1>2 DEF UpdateInv, Dead, Live
<1> QED
    BY <1>1, <1>2, <1>3, <1>4, <1>5

(* A plain stop is placed alone only while the lineage is in.              *)
LEMMA AloneIsIn ==
    ASSUME Inv, op.step \in {"place", "find"}, Sure, op.retired \/ rec = None
    PROVE net = 1
<1>0. TypeInv /\ SoldInv /\ OrderInv
    BY DEF Inv
<1>1. op.act = "update" /\ op.old = rec /\ op.new = None /\ (op.retired => Dead(rec))
    BY InPlacing DEF Sure
<1>2. ASSUME net < 1 PROVE FALSE
    <2>1. \E p \in {op.old, op.new} \ {None} : ord[p].st = "filled"
        BY <1>0, <1>1, <1>2 DEF SoldInv
    <2> QED
        BY <1>1, <2>1 DEF Dead
<1> QED
    BY <1>0, <1>2 DEF OrderInv, TypeInv

(* Before the placement every plain stop that rests is the recorded one.   *)
LEMMA PlacingNames ==
    ASSUME Inv, op.step = "place", Plain, ~Lost
    PROVE \A p \in Orders : Live(p) => p = rec
<1>0. NameInv
    BY DEF Inv
<1>1. op.new = None /\ ~Parking
    BY InPlacing
<1> QED
    BY <1>0, <1>1, ExitStopAssumption DEF NameInv, Handled, Awaited

Arrive(S) ==
    /\ S \subseteq Fresh /\ \A p, q \in S : p = q
    /\ ord' \in [Orders -> OrdType]
    /\ \A p \in Orders : p \notin S => ord'[p] = ord[p]
    /\ \A p \in S : ord'[p].st \in {"working", "inflight"} /\ ord'[p].lvl = Level[op.u]
    /\ unread' = unread \ S

LEMMA ArriveDoes ==
    ASSUME Inv, op.step = "place", NEW S, Arrive(S)
    PROVE /\ S \subseteq Orders /\ \A p \in S : ~Live(p) /\ p \notin {row.slot, brk, rec, op.old, op.new}
          /\ \A p \in Orders : Live(p)' => Live(p) \/ p \in S
          /\ \A p \in Orders : ord'[p].st = "firing" => ord[p].st = "firing"
          /\ \A p \in Orders : ord'[p].st = "filled" => ord[p].st = "filled"
          /\ \A p \in Ids \ S : p # None => ord'[p] = ord[p]
          /\ \A p \in unread' : ord'[p].st \in {"filled", "dropped"}
          /\ S # {} => \E o \in Orders : Alive' \subseteq Alive \cup {o}
          /\ S = {} => Alive' \subseteq Alive
<1>0. TypeInv /\ OrderInv
    BY DEF Inv
<1>1. S \subseteq Orders /\ \A p \in S : ~Live(p) /\ p \notin {row.slot, brk, rec, op.old, op.new}
    BY DEF Arrive, Fresh, Named, Live
<1>2. \A p \in Orders : Live(p)' => Live(p) \/ p \in S
    BY DEF Arrive, Live
<1>3. \A p \in Orders : ord'[p].st \in {"firing", "filled"} => ord[p].st = ord'[p].st
    BY <1>1 DEF Arrive
<1>4. \A p \in Ids \ S : p # None => ord'[p] = ord[p]
    BY DEF Arrive, Ids
<1>5. \A p \in unread' : ord'[p].st \in {"filled", "dropped"}
    BY <1>0 DEF Arrive, OrderInv, TypeInv
<1>6. Alive' \subseteq Alive \cup S
    BY <1>2 DEF Alive
<1>7. ASSUME NEW o \in S PROVE Alive' \subseteq Alive \cup {o} /\ o \in Orders
    BY <1>1, <1>6, <1>7 DEF Arrive
<1> QED
    BY <1>1, <1>2, <1>3, <1>4, <1>5, <1>6, <1>7

LEMMA PlaceAnsweredKeeps == ASSUME Inv, PlaceAnswered PROVE Inv'
<1>0. /\ TypeInv /\ UpdateInv /\ SweepInv /\ OrderInv /\ RowInv /\ PairInv /\ NameInv /\ SoldInv /\ TrackInv /\ CountInv
      /\ op.step = "place"
    BY DEF Inv, PlaceAnswered
<1>1. /\ op.act = "update" /\ op.old = rec /\ op.new = None /\ ~Parking /\ ~IsMarker(row.slot) /\ open /\ row.active
      /\ op.u \in Seqs /\ Level[op.u] \in Levels /\ Level[op.u] > row.cur /\ op.todo = {}
      /\ PlaceFirst => rec # None /\ ~op.retired
      /\ Plain /\ ~PlaceFirst => op.retired \/ rec = None
      /\ op.retired => rec # None /\ ~Live(rec) /\ (Dead(rec) \/ (ord[rec].st = "filled" /\ "unread" \in loose))
    BY <1>0, InPlacing
<1>2. PICK o \in Fresh : /\ ord' = [ord EXCEPT ![o] = [st |-> "working", lvl |-> Level[op.u]]]
                         /\ unread' = unread \ {o} /\ Placed(o)
    BY DEF PlaceAnswered
<1>3. UNCHANGED <<cfg, net, open, row, brk, rec, settled, told, faults, loose>>
    BY DEF PlaceAnswered, book
<1>4. o \in Orders /\ Arrive({o}) /\ ord'[o].st = "working" /\ ord'[o].lvl = Level[op.u]
    BY <1>0, <1>1, <1>2 DEF Fresh, Arrive, OrdType, OrderState, TypeInv
<1>5. /\ ~Live(o) /\ o \notin {row.slot, brk, rec, op.old, op.new}
      /\ \A p \in Orders : Live(p)' => Live(p) \/ p = o
      /\ \A p \in Orders : ord'[p].st = "firing" => ord[p].st = "firing"
      /\ \A p \in Orders : ord'[p].st = "filled" => ord[p].st = "filled"
      /\ \A p \in Ids : p # o /\ p # None => ord'[p] = ord[p]
      /\ \A p \in unread' : ord'[p].st \in {"filled", "dropped"}
    BY <1>0, <1>4, ArriveDoes
<1>6. /\ op' \in OpType /\ Carried /\ op'.new = o /\ op'.retired = op.retired
      /\ op'.step = IF PlaceFirst /\ op.old # None THEN "cancel" ELSE "commit"
    BY <1>0, <1>2, <1>4, PlacedDoes
<1>7. /\ Plain' = Plain /\ PlaceFirst' = PlaceFirst /\ Verify' = Verify /\ Parking' = Parking
    BY <1>3, BookSame
<1>8. rec \in Ids /\ brk \in Ids /\ o \in Ids /\ o # None
    BY <1>0, <1>4, ExitStopAssumption DEF TypeInv, Ids
<1>9. \A p \in Orders : (Handled(p)' <=> Handled(p) \/ p = o) /\ (Tracked(p)' <=> Tracked(p) \/ p = o)
    BY <1>1, <1>3, <1>6, ExitStopAssumption DEF Handled, Tracked
<1>10. TypeInv'
    BY <1>0, <1>2, <1>3, <1>4, <1>6 DEF TypeInv, Arrive
<1>11. UpdateInv'
    <2>1. op.retired => Dead(rec)' \/ (ord'[rec].st = "filled" /\ "unread" \in loose')
        BY <1>1, <1>3, <1>5, <1>8 DEF Dead
    <2>2. op.retired => Dead(op.old)' \/ (ord'[op'.old].st = "filled" /\ "unread" \in loose')
        BY <1>1, <1>3, <1>6, <2>1 DEF Carried, Dead
    <2>3. CASE PlaceFirst
        BY <1>1, <1>3, <1>4, <1>5, <1>6, <1>7, <1>8, <2>2, <2>3 DEF UpdateInv, Carried, UpdateSteps, Retiring
    <2>4. CASE ~PlaceFirst
        BY <1>1, <1>3, <1>4, <1>5, <1>6, <1>7, <1>8, <2>2, <2>4 DEF UpdateInv, Carried, UpdateSteps, Retiring
    <2> QED
        BY <2>3, <2>4
<1>12. SweepInv'
    BY <1>1, <1>6 DEF SweepInv, Carried
<1>13. OrderInv'
    <2>1. \A p \in Orders : ord'[p].st \in {"none", "inflight"} => p \notin {brk, rec, op'.old, op'.new}
        BY <1>0, <1>1, <1>4, <1>5, <1>6, ExitStopAssumption DEF OrderInv, Carried, Ids
    <2> QED
        BY <1>0, <1>3, <1>5, <2>1 DEF OrderInv
<1>14. RowInv' /\ PairInv'
    <2>1. rec # None => ord'[rec] = ord[rec]
        BY <1>5, <1>8
    <2>2. brk # None => ord'[brk] = ord[brk]
        BY <1>5, <1>8
    <2>3. RowInv'
        BY <1>0, <1>3, <2>1 DEF RowInv
    <2> QED
        BY <1>0, <1>3, <1>7, <2>1, <2>2, <2>3 DEF PairInv, Live, Dead
<1>15. NameInv'
    <2> SUFFICES ASSUME Plain, ~Lost PROVE NameInv'
        BY <1>3, <1>7 DEF NameInv, Lost
    <2>1. \A p \in Orders : Live(p)' => Handled(p)'
        BY <1>0, <1>5, <1>9, PlacingNames DEF Handled
    <2> QED
        BY <2>1 DEF NameInv
<1>16. SoldInv'
    <2>1. ~Plain' => net' >= 0
        BY <1>0, <1>3, <1>7 DEF SoldInv
    <2>2. Sure' = Sure
        BY <1>3, <1>7 DEF Sure
    <2>3. ASSUME Sure PROVE /\ net' >= 0
                            /\ \A p, q \in Orders : ord'[p].st = "firing" /\ ord'[q].st = "firing" => p = q
                            /\ net' < 1 => \A p \in Orders : ord'[p].st # "firing"
        BY <1>0, <1>3, <1>5, <2>3 DEF SoldInv
    <2>4. ASSUME Sure, net < 1 PROVE op'.new # None /\ op'.step # "commit"
        <3>1. PlaceFirst
            BY <1>0, <1>1, <2>4, AloneIsIn DEF Sure
        <3> QED
            BY <1>1, <1>6, <1>8, <3>1
    <2>5. ASSUME Sure, net < 1 PROVE \E p \in {op'.old, op'.new} \ {None} : ord'[p].st = "filled"
        <3>1. rec # None /\ ord[rec].st = "filled"
            BY <1>0, <1>1, <2>5 DEF SoldInv
        <3> QED
            BY <1>1, <1>5, <1>6, <1>8, <3>1 DEF Carried
    <2> QED
        BY <1>1, <1>3, <1>7, <2>1, <2>2, <2>3, <2>4, <2>5 DEF SoldInv
<1>17. TrackInv'
    <2> SUFFICES ASSUME loose = {} PROVE TrackInv'
        BY <1>3 DEF TrackInv
    <2>1. \A p \in Orders : Live(p)' => Tracked(p)' \/ (Plain' /\ ~Handled(p)') \/ (p = rec' /\ PlaceFirst')
        BY <1>0, <1>1, <1>3, <1>5, <1>7, <1>9 DEF TrackInv
    <2>2. ASSUME net < 1 PROVE \E p \in Orders : Tracked(p)' /\ ord'[p].st = "filled"
        <3>1. PICK p \in Orders : Tracked(p) /\ ord[p].st = "filled"
            BY <1>0, <1>1, <2>2 DEF TrackInv
        <3>2. p # o
            BY <1>5, <3>1 DEF Tracked
        <3> QED
            BY <1>5, <1>9, <3>1, <3>2, ExitStopAssumption DEF Ids
    <2> QED
        BY <1>3, <2>1, <2>2 DEF TrackInv
<1>18. CountInv'
    <2>1. Before /\ ~Before'
        BY <1>0, <1>1, <1>6, <1>8 DEF Before
    <2>2. Alive' \subseteq Alive \cup {o}
        BY <1>5 DEF Alive
    <2> QED
        BY <1>0, <1>3, <1>4, <1>10, <2>1, <2>2, CountPlaced
<1> QED
    BY <1>10, <1>11, <1>12, <1>13, <1>14, <1>15, <1>16, <1>17, <1>18 DEF Inv

(* What a thrown placement leaves at the venue: at most one stop.          *)
LEMMA ThrewArrives ==
    ASSUME Inv, PlaceThrew
    PROVE /\ op.step = "place" /\ faults' \in 0..MaxFaults
          /\ loose \subseteq loose' /\ loose' \subseteq Ways
          /\ ~Plain /\ ~op.retired /\ op.old \notin {None, brk} => "left" \in loose'
          /\ \E S : Arrive(S) /\ (~Verify /\ S # {} => "thrown" \in loose')
<1>0. TypeInv
    BY DEF Inv
<1>1. PICK landed \in BOOLEAN :
        /\ IF landed
             THEN \E o \in Fresh, st \in {"working", "inflight"} :
                      /\ ord' = [ord EXCEPT ![o] = [st |-> st, lvl |-> Level[op.u]]]
                      /\ unread' = unread \ {o}
             ELSE UNCHANGED <<ord, unread>>
        /\ loose' = loose \cup Way("thrown", landed /\ ~Verify)
                         \cup Way("left", ~Plain /\ ~op.retired /\ op.old \notin {None, brk})
    BY DEF PlaceThrew
<1>2. op.step = "place" /\ Fault
    BY DEF PlaceThrew
<1>3. Level[op.u] \in Levels
    BY <1>2, InPlacing
<1>4. faults' \in 0..MaxFaults
    BY <1>0, <1>2, FaultType
<1>5. /\ loose \subseteq loose' /\ loose' \subseteq Ways
      /\ ~Plain /\ ~op.retired /\ op.old \notin {None, brk} => "left" \in loose'
      /\ landed /\ ~Verify => "thrown" \in loose'
    BY <1>0, <1>1 DEF TypeInv, Way, Ways
<1>6. CASE landed
    <2>1. PICK o \in Fresh, st \in {"working", "inflight"} :
                      /\ ord' = [ord EXCEPT ![o] = [st |-> st, lvl |-> Level[op.u]]]
                      /\ unread' = unread \ {o}
        BY <1>1, <1>6
    <2>2. o \in Orders /\ [st |-> st, lvl |-> Level[op.u]] \in OrdType
        BY <1>3, <2>1 DEF Fresh, OrdType, OrderState
    <2>3. Arrive({o})
        BY <1>0, <2>1, <2>2 DEF Arrive, TypeInv
    <2> QED
        BY <1>2, <1>4, <1>5, <1>6, <2>3
<1>7. CASE ~landed
    <2>1. Arrive({})
        BY <1>0, <1>1, <1>7 DEF Arrive, TypeInv
    <2> QED
        BY <1>2, <1>4, <1>5, <1>7, <2>1
<1> QED
    BY <1>6, <1>7

LEMMA CountArrives ==
    ASSUME Inv, op.step = "place", NEW S, Arrive(S), TypeInv', net' = net, ~Before'
    PROVE CountInv'
<1>0. TypeInv /\ CountInv /\ Before
    BY InPlacing DEF Inv, Before
<1>1. (S # {} => \E o \in Orders : Alive' \subseteq Alive \cup {o}) /\ (S = {} => Alive' \subseteq Alive)
    BY ArriveDoes
<1>2. CASE S = {}
    <2>1. net' >= net
        BY <1>0 DEF TypeInv
    <2> QED
        BY <1>0, <1>1, <1>2, <2>1, CountFewer
<1>3. CASE S # {}
    <2>1. PICK o \in Orders : Alive' \subseteq Alive \cup {o}
        BY <1>1, <1>3
    <2> QED
        BY <1>0, <2>1, CountPlaced
<1> QED
    BY <1>2, <1>3

LEMMA PlaceThrewKeeps == ASSUME Inv, PlaceThrew PROVE Inv'
<1>0. /\ TypeInv /\ UpdateInv /\ SweepInv /\ OrderInv /\ RowInv /\ PairInv /\ NameInv /\ SoldInv /\ TrackInv /\ CountInv
    BY DEF Inv
<1>1. /\ op.step = "place" /\ faults' \in 0..MaxFaults
      /\ loose \subseteq loose' /\ loose' \subseteq Ways
      /\ ~Plain /\ ~op.retired /\ op.old \notin {None, brk} => "left" \in loose'
    BY ThrewArrives
<1>2. PICK S : Arrive(S) /\ (~Verify /\ S # {} => "thrown" \in loose')
    BY ThrewArrives
<1>3. /\ op.act = "update" /\ op.old = rec /\ op.new = None /\ ~Parking /\ ~IsMarker(row.slot) /\ open /\ row.active
      /\ op.u \in Seqs /\ Level[op.u] \in Levels /\ Level[op.u] > row.cur /\ op.todo = {}
      /\ PlaceFirst => rec # None /\ ~op.retired
      /\ Plain /\ ~PlaceFirst => op.retired \/ rec = None
      /\ op.retired => rec # None /\ ~Live(rec) /\ (Dead(rec) \/ (ord[rec].st = "filled" /\ "unread" \in loose))
    BY <1>1, InPlacing
<1>4. UNCHANGED <<cfg, net, open, brk, settled, told>>
    BY DEF PlaceThrew
<1>5. /\ S \subseteq Orders /\ \A p \in S : ~Live(p) /\ p \notin {row.slot, brk, rec, op.old, op.new}
      /\ \A p \in Orders : Live(p)' => Live(p) \/ p \in S
      /\ \A p \in Orders : ord'[p].st = "firing" => ord[p].st = "firing"
      /\ \A p \in Orders : ord'[p].st = "filled" => ord[p].st = "filled"
      /\ \A p \in Ids \ S : p # None => ord'[p] = ord[p]
      /\ \A p \in unread' : ord'[p].st \in {"filled", "dropped"}
    BY <1>1, <1>2, ArriveDoes
<1>6. \A p \in S : ord'[p].st \in {"working", "inflight"} /\ ord'[p].lvl = Level[op.u]
    BY <1>2 DEF Arrive
<1>7. rec \in Ids /\ brk \in Ids /\ rec \notin S /\ brk \notin S /\ None \notin S
    BY <1>0, <1>5, ExitStopAssumption DEF TypeInv
<1>8. (rec # None => ord'[rec] = ord[rec]) /\ (brk # None => ord'[brk] = ord[brk])
    BY <1>5, <1>7
<1>9. Plain' = Plain /\ PlaceFirst' = PlaceFirst /\ Verify' = Verify
    BY <1>4 DEF Plain, PlaceFirst, Verify
<1>10. ord' \in [Orders -> OrdType] /\ unread' \subseteq Orders
    BY <1>0, <1>2 DEF Arrive, TypeInv
<1>11. ASSUME Verify, Goto("find"), UNCHANGED <<row, rec>> PROVE Inv'
    <2>1. /\ op' \in OpType /\ Carried /\ op'.step = "find" /\ op'.new = None /\ op'.retired = op.retired
        BY <1>0, <1>3, <1>11, GotoDoes DEF Steps
    <2>2. Parking' = Parking /\ (\A o : Handled(o)' = Handled(o) /\ Tracked(o)' = Tracked(o)) /\ Plain
        BY <1>0, <1>3, <1>4, <1>11, <2>1, BookSame, CfgType
    <2>3. TypeInv'
        BY <1>0, <1>1, <1>4, <1>10, <1>11, <2>1 DEF TypeInv
    <2>4. UpdateInv'
        <3>1. op.retired => op.old # None /\ (Dead(op.old)' \/ (ord'[op'.old].st = "filled" /\ "unread" \in loose'))
            BY <1>1, <1>3, <1>8, <1>11, <2>1 DEF Dead, Carried
        <3> QED
            BY <1>3, <1>4, <1>9, <1>11, <2>1, <3>1 DEF UpdateInv, Carried, UpdateSteps, Retiring
    <2>5. SweepInv'
        BY <1>3, <2>1 DEF SweepInv, Carried
    <2>6. OrderInv'
        <3>1. \A p \in Orders : ord'[p].st \in {"none", "inflight"} => p \notin {brk, rec, op'.old, op'.new}
            BY <1>0, <1>3, <1>5, <1>7, <2>1, ExitStopAssumption DEF OrderInv, Carried, Ids
        <3> QED
            BY <1>0, <1>4, <1>5, <1>11, <3>1 DEF OrderInv
    <2>7. RowInv' /\ PairInv'
        BY <1>0, <1>4, <1>8, <1>9, <1>11 DEF RowInv, PairInv, Live, Dead
    <2>8. NameInv'
        <3> SUFFICES ASSUME ~Lost' PROVE NameInv'
            BY DEF NameInv
        <3>1. ~Lost
            BY <1>1 DEF Lost
        <3>2. \A p \in Orders : Live(p) => p = rec
            BY <1>1, <2>2, <3>1, PlacingNames
        <3>3. \A p \in S : Awaited(p)'
            BY <1>6, <2>1 DEF Awaited, Carried
        <3>4. \A p \in Orders : Live(p)' => Handled(p)' \/ p \in S
            BY <1>5, <2>2, <3>2 DEF Handled
        <3>5. \A p, q \in S : p = q
            BY <1>2 DEF Arrive
        <3> QED
            BY <3>3, <3>4, <3>5 DEF NameInv
    <2>9. SoldInv'
        <3>1. ASSUME Sure' PROVE Sure
            BY <1>1, <1>9, <3>1 DEF Sure
        <3>2. ASSUME Sure' PROVE /\ net' >= 0
                                 /\ \A p, q \in Orders : ord'[p].st = "firing" /\ ord'[q].st = "firing" => p = q
                                 /\ net' < 1 => \A p \in Orders : ord'[p].st # "firing"
            BY <1>0, <1>4, <1>5, <3>1, <3>2 DEF SoldInv
        <3>3. ASSUME Sure', net < 1, NEW p \in Orders, Live(p)' PROVE ~Handled(p)
            <4>1. CASE p \in S
                BY <1>3, <1>7, <4>1 DEF Handled
            <4>2. CASE p \notin S
                BY <1>0, <1>3, <1>5, <3>1, <3>3, <4>2 DEF SoldInv
            <4> QED
                BY <4>1, <4>2
        <3>4. ASSUME Sure', net < 1 PROVE \E p \in {op'.old, op'.new} \ {None} : ord'[p].st = "filled"
            <4>1. rec # None /\ ord[rec].st = "filled"
                BY <1>0, <1>1, <1>3, <3>1, <3>4 DEF SoldInv
            <4> QED
                BY <1>3, <1>8, <2>1, <4>1 DEF Carried
        <3>5. Sure' /\ net' < 1 => \A p \in Orders : Live(p)' => ~Handled(p)'
            BY <1>4, <2>2, <3>3
        <3>6. Sure' /\ net' < 1 => \E p \in {op'.old, op'.new} \ {None} : ord'[p].st = "filled"
            BY <1>4, <3>4
        <3>7. Plain' /\ ~Parking'
            BY <1>3, <1>9, <2>2
        <3> QED
            BY <3>2, <3>5, <3>6, <3>7 DEF SoldInv
    <2>10. TrackInv'
        <3> SUFFICES ASSUME loose = {} PROVE TrackInv'
            BY <1>1 DEF TrackInv
        <3>1. \A p \in Orders : Live(p)' => Tracked(p)' \/ (Plain' /\ ~Handled(p)') \/ (p = rec' /\ PlaceFirst')
            <4>1. \A p \in S : ~Handled(p)'
                BY <1>3, <1>7, <2>2 DEF Handled
            <4> QED
                BY <1>0, <1>3, <1>5, <1>9, <1>11, <2>2, <4>1 DEF TrackInv
        <3>2. ASSUME net < 1 PROVE \E p \in Orders : Tracked(p)' /\ ord'[p].st = "filled"
            <4>1. PICK p \in Orders : Tracked(p) /\ ord[p].st = "filled"
                BY <1>0, <1>3, <3>2 DEF TrackInv
            <4>2. p \notin S
                BY <1>5, <4>1 DEF Tracked
            <4> QED
                BY <1>2, <2>2, <4>1, <4>2 DEF Arrive
        <3> QED
            BY <1>4, <3>1, <3>2 DEF TrackInv
    <2>11. CountInv'
        <3>1. ~Before'
            BY <2>1 DEF Before, Retiring
        <3> QED
            BY <1>1, <1>2, <1>4, <2>3, <3>1, CountArrives
    <2> QED
        BY <2>3, <2>4, <2>5, <2>6, <2>7, <2>8, <2>9, <2>10, <2>11 DEF Inv
<1>12. ASSUME ~Verify, op' = Idle,
              row' = IF PlaceFirst THEN row ELSE [row EXCEPT !.slot = None],
              rec' = IF PlaceFirst THEN rec ELSE None
       PROVE Inv'
    <2>1. op' \in OpType /\ op'.act = "none" /\ op'.step = "" /\ op'.old = None /\ op'.new = None
        BY <1>12, IdleFields, IdleType
    <2>2. /\ row' \in RowType /\ row'.active = row.active /\ row'.cur = row.cur /\ row'.engine = row.engine
          /\ row'.slot = IF PlaceFirst THEN row.slot ELSE None
          /\ rec' \in Ids /\ rec' \in {rec, None}
        BY <1>0, <1>12 DEF TypeInv, RowType, Slot, Ids
    <2>3. ~IsMarker(row'.slot) /\ ~Parking' /\ (Plain => PlaceFirst)
        BY <1>0, <1>3, <1>12, <2>2, SlotType, CfgType DEF Parking, Ids
    <2>4. TypeInv'
        BY <1>0, <1>1, <1>4, <1>10, <2>1, <2>2 DEF TypeInv
    <2>5. UpdateInv' /\ SweepInv'
        BY <1>12, <2>1 DEF UpdateInv, SweepInv
    <2>6. OrderInv'
        <3>1. \A p \in Orders : ord'[p].st \in {"none", "inflight"} => p \notin {brk, rec', None}
            BY <1>0, <1>5, <1>7, <2>2, ExitStopAssumption DEF OrderInv, Ids
        <3>2. \A p \in Orders : ord'[p].st \in {"none", "inflight"} => p \notin {brk', rec', op'.old, op'.new}
            BY <1>4, <2>1, <3>1
        <3>3. (\A p \in Orders : ord'[p].st = "filled" => net' <= 0) /\ net' <= 1
            BY <1>0, <1>4, <1>5 DEF OrderInv
        <3>4. open' /\ told' <= 1 /\ ~(told' > 0)
            BY <1>0, <1>3, <1>4 DEF OrderInv
        <3> QED
            BY <1>5, <3>2, <3>3, <3>4 DEF OrderInv
    <2>7. RowInv' /\ PairInv'
        <3>1. CASE PlaceFirst
            <4>1. row'.slot = row.slot /\ rec' = rec
                BY <1>12, <2>2, <3>1
            <4>2. RowInv'
                BY <1>0, <1>4, <1>8, <1>9, <2>2, <2>3, <4>1 DEF RowInv
            <4>3. PairInv'
                BY <1>0, <1>4, <1>8, <1>9, <2>2, <2>3, <4>1 DEF PairInv, Live, Dead
            <4> QED
                BY <4>2, <4>3
        <3>2. CASE ~PlaceFirst
            BY <1>0, <1>9, <1>12, <2>2, <2>3, <3>2, ExitStopAssumption DEF RowInv, PairInv
        <3> QED
            BY <3>1, <3>2
    <2>8. ASSUME Plain, ~Lost' PROVE S = {} /\ ~Lost /\ rec' = rec
        BY <1>1, <1>2, <1>12, <2>3, <2>8 DEF Lost
    <2>9. NameInv'
        <3> SUFFICES ASSUME Plain, ~Lost' PROVE NameInv'
            BY <1>9 DEF NameInv
        <3>1. \A p \in Orders : Live(p) => p = rec
            BY <1>1, <2>8, PlacingNames
        <3>2. \A p \in Orders : Live(p)' => Handled(p)'
            BY <1>5, <2>8, <3>1 DEF Handled
        <3> QED
            BY <3>2 DEF NameInv
    <2>10. SoldInv'
        <3>1. ~Plain' => net' >= 0
            BY <1>0, <1>4, <1>9 DEF SoldInv
        <3>2. ASSUME Sure' PROVE Sure /\ S = {} /\ rec' = rec
            BY <1>1, <1>9, <2>8, <3>2 DEF Sure, Lost
        <3>3. ASSUME Sure' PROVE /\ net' >= 0
                                 /\ \A p, q \in Orders : ord'[p].st = "firing" /\ ord'[q].st = "firing" => p = q
                                 /\ net' < 1 => \A p \in Orders : ord'[p].st # "firing"
            BY <1>0, <1>4, <1>5, <3>2, <3>3 DEF SoldInv
        <3>4. ASSUME Sure', net < 1, NEW p \in Orders, Live(p)' PROVE ~Handled(p)'
            <4>1. ~Handled(p)
                BY <1>0, <1>3, <1>5, <3>2, <3>4 DEF SoldInv
            <4> QED
                BY <1>3, <2>1, <3>2, <3>4, <4>1 DEF Handled
        <3>5. Sure' /\ net' < 1 => \A p \in Orders : Live(p)' => ~Handled(p)'
            BY <1>4, <3>4
        <3>6. op'.act # "update" /\ ~Parking'
            BY <2>1, <2>3
        <3> QED
            BY <3>1, <3>3, <3>5, <3>6 DEF SoldInv
    <2>11. TrackInv'
        <3> SUFFICES ASSUME loose' = {} PROVE TrackInv'
            BY DEF TrackInv
        <3>1. loose = {} /\ S = {} /\ (~Plain => op.retired \/ rec \in {None, brk})
            BY <1>1, <1>2, <1>3, <1>12
        <3>2. op.retired => Dead(rec)
            BY <1>3, <3>1
        <3>3. \A p \in Orders : Tracked(p) => p = brk \/ (p = rec /\ p = row.slot)
            BY <1>0, <1>3, ExitStopAssumption DEF Tracked, RowInv
        <3>4. ASSUME NEW p \in Orders, Tracked(p), ~Dead(p) PROVE Tracked(p)'
            <4>1. CASE PlaceFirst
                BY <1>3, <1>4, <1>12, <3>3, <3>4, <4>1 DEF Tracked
            <4>2. CASE ~PlaceFirst
                BY <1>4, <2>3, <3>1, <3>2, <3>3, <3>4, <4>2, ExitStopAssumption DEF Tracked
            <4> QED
                BY <4>1, <4>2
        <3>5. \A p \in Orders : Live(p)' => Tracked(p)' \/ (Plain' /\ ~Handled(p)') \/ (p = rec' /\ PlaceFirst')
            <4>1. \A p \in Orders : Live(p)' => Live(p) /\ ~Dead(p)
                BY <1>5, <3>1 DEF Live, Dead
            <4>2. ASSUME NEW p \in Orders, Plain, ~Handled(p) PROVE ~Handled(p)'
                BY <1>3, <1>12, <2>1, <2>3, <4>2 DEF Handled
            <4> QED
                BY <1>0, <1>3, <1>9, <1>12, <3>1, <3>4, <4>1, <4>2 DEF TrackInv
        <3>6. ASSUME net < 1 PROVE \E p \in Orders : Tracked(p)' /\ ord'[p].st = "filled"
            <4>1. PICK p \in Orders : Tracked(p) /\ ord[p].st = "filled"
                BY <1>0, <1>3, <3>1, <3>6 DEF TrackInv
            <4>2. Tracked(p)'
                BY <3>4, <4>1 DEF Dead
            <4> QED
                BY <1>2, <3>1, <4>1, <4>2 DEF Arrive
        <3> QED
            BY <1>4, <3>5, <3>6 DEF TrackInv
    <2>12. CountInv'
        <3>1. ~Before'
            BY <2>1 DEF Before
        <3> QED
            BY <1>1, <1>2, <1>4, <2>4, <3>1, CountArrives
    <2> QED
        BY <2>4, <2>5, <2>6, <2>7, <2>9, <2>10, <2>11, <2>12 DEF Inv
<1> QED
    BY <1>11, <1>12 DEF PlaceThrew, Release

LEMMA FoundAlone ==
    ASSUME Inv, op.step = "find", NEW o \in Orders, o \in Landed(Level[op.u], {op.old, rec})
    PROVE /\ ord[o].st = "working" /\ ord[o].lvl = Level[op.u] /\ o \notin {rec, brk} /\ ~Handled(o)
          /\ ~Lost => \A p \in Orders : Live(p) => p \in {o, rec}
<1>0. TypeInv /\ PairInv /\ NameInv
    BY DEF Inv
<1>1. op.new = None /\ Verify /\ Plain
    BY <1>0, InPlacing, CfgType
<1>2. ord[o].st = "working" /\ ord[o].lvl = Level[op.u] /\ o # rec /\ Live(o)
    BY DEF Landed, In, Live
<1>3. o # brk
    BY <1>0, <1>1, <1>2, ExitStopAssumption DEF PairInv
<1>4. ~Handled(o)
    BY <1>1, <1>2, ExitStopAssumption DEF Handled
<1>5. ASSUME ~Lost, NEW p \in Orders, Live(p), p # rec PROVE p = o
    <2>1. ~Handled(p)
        BY <1>1, <1>5, ExitStopAssumption DEF Handled
    <2> QED
        BY <1>0, <1>1, <1>2, <1>4, <1>5, <2>1 DEF NameInv
<1> QED
    BY <1>2, <1>3, <1>4, <1>5

LEMMA FoundKeeps ==
    ASSUME Inv, op.step = "find", NEW o \in Orders, o \in Landed(Level[op.u], {op.old, rec}), Placed(o),
           UNCHANGED <<cfg, venue, open, row, brk, rec, settled, told, faults, loose>>
    PROVE Inv'
<1>0. /\ TypeInv /\ UpdateInv /\ SweepInv /\ OrderInv /\ RowInv /\ PairInv /\ NameInv /\ SoldInv /\ TrackInv /\ CountInv
    BY DEF Inv
<1>1. /\ op.act = "update" /\ op.old = rec /\ op.new = None /\ ~Parking /\ ~IsMarker(row.slot) /\ open /\ row.active
      /\ op.u \in Seqs /\ Level[op.u] > row.cur /\ op.todo = {}
      /\ PlaceFirst => rec # None /\ ~op.retired
      /\ Plain /\ ~PlaceFirst => op.retired \/ rec = None
    BY InPlacing
<1>2. /\ op' \in OpType /\ Carried /\ op'.new = o /\ op'.retired = op.retired
      /\ op'.step = IF PlaceFirst /\ op.old # None THEN "cancel" ELSE "commit"
    BY <1>0, PlacedDoes
<1>3. /\ ord[o].st = "working" /\ ord[o].lvl = Level[op.u] /\ o \notin {rec, brk} /\ ~Handled(o)
      /\ ~Lost => \A p \in Orders : Live(p) => p \in {o, rec}
    BY FoundAlone
<1>4. UNCHANGED <<ord, unread, net>>
    BY DEF venue
<1>5. Plain' = Plain /\ PlaceFirst' = PlaceFirst /\ Verify' = Verify /\ Parking' = Parking
    BY BookSame
<1>6. rec \in Ids /\ o # None /\ (Plain => PlaceFirst \/ op.retired \/ rec = None) /\ Plain
    BY <1>0, <1>1, InPlacing, CfgType, ExitStopAssumption DEF TypeInv
<1>7. \A p \in Orders : (Handled(p)' <=> Handled(p) \/ p = o) /\ (Tracked(p)' <=> Tracked(p) \/ p = o)
    BY <1>1, <1>2, ExitStopAssumption DEF Handled, Tracked
<1>8. \A p \in Orders : Live(p)' = Live(p) /\ Dead(p)' = Dead(p)
    BY <1>4 DEF Live, Dead
<1>9. TypeInv'
    BY <1>0, <1>2, <1>4 DEF TypeInv
<1>10. UpdateInv'
    <2>1. op.retired => op.old # None /\ (Dead(op.old)' \/ (ord'[op'.old].st = "filled" /\ "unread" \in loose'))
        BY <1>0, <1>1, <1>2, <1>4 DEF Dead, Carried, UpdateInv
    <2>2. CASE PlaceFirst
        BY <1>1, <1>2, <1>3, <1>4, <1>5, <1>6, <2>1, <2>2 DEF UpdateInv, Carried, UpdateSteps, Retiring
    <2>3. CASE ~PlaceFirst
        BY <1>1, <1>2, <1>3, <1>4, <1>5, <1>6, <2>1, <2>3 DEF UpdateInv, Carried, UpdateSteps, Retiring
    <2> QED
        BY <2>2, <2>3
<1>11. SweepInv'
    BY <1>1, <1>2 DEF SweepInv, Carried
<1>12. OrderInv'
    <2>1. \A p \in Orders : ord'[p].st \in {"none", "inflight"} => p \notin {brk, rec, op'.old, op'.new}
        BY <1>0, <1>2, <1>3, <1>4 DEF OrderInv, Carried
    <2> QED
        BY <1>0, <1>4, <2>1 DEF OrderInv
<1>13. RowInv' /\ PairInv'
    BY <1>0, <1>4, <1>5 DEF RowInv, PairInv, Live, Dead
<1>14. NameInv'
    <2> SUFFICES ASSUME ~Lost PROVE NameInv'
        BY DEF NameInv, Lost
    <2>1. \A p \in Orders : Live(p)' => Handled(p)'
        BY <1>2, <1>3, <1>8 DEF Handled
    <2> QED
        BY <2>1 DEF NameInv
<1>15. SoldInv'
    <2>1. Sure' = Sure
        BY <1>5 DEF Sure
    <2>2. ASSUME Sure PROVE /\ net' >= 0
                            /\ \A p, q \in Orders : ord'[p].st = "firing" /\ ord'[q].st = "firing" => p = q
                            /\ net' < 1 => \A p \in Orders : ord'[p].st # "firing"
        BY <1>0, <1>4, <2>2 DEF SoldInv
    <2>3. ASSUME Sure, net < 1 PROVE op'.new # None /\ op'.step # "commit"
        <3>1. PlaceFirst
            BY <1>0, <1>6, <2>3, AloneIsIn
        <3> QED
            BY <1>1, <1>2, <1>6, <3>1
    <2>4. ASSUME Sure, net < 1 PROVE \E p \in {op'.old, op'.new} \ {None} : ord'[p].st = "filled"
        <3>1. rec # None /\ ord[rec].st = "filled"
            BY <1>0, <1>1, <2>4 DEF SoldInv
        <3> QED
            BY <1>1, <1>2, <1>4, <3>1 DEF Carried
    <2> QED
        BY <1>1, <1>4, <1>5, <1>6, <2>1, <2>2, <2>3, <2>4 DEF SoldInv
<1>16. TrackInv'
    BY <1>0, <1>4, <1>5, <1>7, <1>8 DEF TrackInv
<1>17. CountInv'
    <2>1. ~Before' /\ Alive' = Alive
        BY <1>2, <1>6, <1>8 DEF Before, Alive
    <2> QED
        BY <1>0, <1>4, <2>1 DEF CountInv
<1> QED
    BY <1>9, <1>10, <1>11, <1>12, <1>13, <1>14, <1>15, <1>16, <1>17 DEF Inv

LEMMA ParkKeeps ==
    ASSUME Inv, op.step = "find", Park(IF PlaceFirst THEN op.old ELSE None), faults' \in 0..MaxFaults,
           UNCHANGED <<cfg, venue, open, brk, settled, told, loose>>
    PROVE Inv'
<1>0. /\ TypeInv /\ UpdateInv /\ SweepInv /\ OrderInv /\ RowInv /\ PairInv /\ NameInv /\ SoldInv /\ TrackInv /\ CountInv
    BY DEF Inv
<1>1. /\ op.act = "update" /\ op.old = rec /\ op.new = None /\ ~Parking /\ ~IsMarker(row.slot) /\ open /\ row.active
      /\ op.u \in Seqs /\ Level[op.u] \in Levels /\ Level[op.u] > row.cur
      /\ PlaceFirst => rec # None
      /\ op.retired => rec # None /\ ~Live(rec) /\ (Dead(rec) \/ (ord[rec].st = "filled" /\ "unread" \in loose))
      /\ Plain /\ ~PlaceFirst => op.retired \/ rec = None
      /\ Plain /\ ~PlaceFirst /\ rec # None => ~Live(rec)
      /\ Verify
    BY InPlacing
<1>2. PICK keep \in Ids : keep = IF PlaceFirst THEN rec ELSE None
    BY <1>0 DEF TypeInv, Ids
<1>3. PICK m \in Slot : m = [lvl |-> Level[op.u], keep |-> keep]
    BY <1>1, SlotType DEF Slot, Markers, Ids
<1>4. m.lvl = Level[op.u] /\ m.keep = keep /\ IsMarker(m)
    BY <1>1, <1>3, SlotType
<1>5. /\ row' = IF keep = None THEN [row EXCEPT !.slot = m, !.cur = Level[op.u], !.engine = Level[op.u]]
                               ELSE [row EXCEPT !.slot = m]
      /\ rec' = IF keep = None THEN None ELSE rec
      /\ op' = Idle
    <2>1. Park(keep)
        BY <1>1, <1>2
    <2> QED
        BY <1>3, <2>1 DEF Park, Release
<1>6. /\ row' \in RowType /\ row'.active = row.active /\ row'.slot = m
      /\ row'.cur = (IF keep = None THEN Level[op.u] ELSE row.cur)
      /\ row'.engine = (IF keep = None THEN Level[op.u] ELSE row.engine)
    BY <1>0, <1>1, <1>5 DEF TypeInv, RowType
<1>7. op'.act = "none" /\ op'.step = "" /\ op'.old = None /\ op'.new = None
    BY <1>5, IdleFields
<1>8. UNCHANGED <<ord, unread, net>>
    BY DEF venue
<1>9. Plain' = Plain /\ PlaceFirst' = PlaceFirst /\ Verify' = Verify /\ Parking' /\ Plain
    BY <1>0, <1>1, <1>4, <1>6, CfgType DEF Plain, PlaceFirst, Verify, Parking
<1>10. \A p \in Orders : Live(p)' = Live(p) /\ Dead(p)' = Dead(p) /\ (Awaited(p) => Awaited(p)')
    BY <1>1, <1>4, <1>6, <1>8, <1>9 DEF Live, Dead, Awaited
<1>11. rec' = keep /\ (keep = None <=> ~PlaceFirst) /\ (keep # None => keep = rec)
    BY <1>1, <1>2, <1>5
<1>12. \A p \in Orders : (Handled(p)' => Handled(p)) /\ (Live(p) /\ Handled(p) => Handled(p)')
    BY <1>1, <1>7, <1>9, <1>11, ExitStopAssumption DEF Handled
<1>13. TypeInv'
    BY <1>0, <1>2, <1>5, <1>6, <1>8, <1>11, IdleType DEF TypeInv
<1>14. UpdateInv' /\ SweepInv'
    BY <1>5, <1>7 DEF UpdateInv, SweepInv
<1>15. OrderInv'
    <2>1. \A p \in Orders : ord'[p].st \in {"none", "inflight"} => p \notin {brk, rec', op'.old, op'.new}
        BY <1>0, <1>7, <1>8, <1>11, ExitStopAssumption DEF OrderInv
    <2> QED
        BY <1>0, <1>1, <1>8, <2>1 DEF OrderInv
<1>16. RowInv'
    <2>1. row'.slot \notin Orders
        BY <1>4, <1>6, SlotType DEF Ids
    <2>2. CASE keep = None
        BY <1>4, <1>6, <1>11, <2>1, <2>2 DEF RowInv
    <2>3. CASE keep # None
        BY <1>0, <1>1, <1>4, <1>6, <1>8, <1>11, <2>1, <2>3 DEF RowInv
    <2> QED
        BY <2>2, <2>3
<1>17. PairInv'
    <2>1. CASE PlaceFirst
        BY <1>0, <1>1, <1>8, <1>9, <1>11, <2>1 DEF PairInv, Live, Dead
    <2>2. CASE ~PlaceFirst
        BY <1>0, <1>1, <1>8, <1>9, <1>11, <2>2 DEF PairInv, Live, Dead
    <2> QED
        BY <2>1, <2>2
<1>18. NameInv'
    <2> SUFFICES ASSUME ~Lost PROVE NameInv'
        BY DEF NameInv, Lost
    <2>1. \A p \in Orders : Live(p) => Handled(p) \/ Awaited(p)
        BY <1>0, <1>9 DEF NameInv
    <2>2. \A p, q \in Orders : Live(p) /\ Live(q) /\ ~Handled(p) /\ ~Handled(q) => p = q
        BY <1>0, <1>9 DEF NameInv
    <2>3. \A p \in Orders : Live(p)' => Handled(p)' \/ Awaited(p)'
        BY <1>10, <1>12, <2>1
    <2>4. \A p, q \in Orders : Live(p)' /\ Live(q)' /\ ~Handled(p)' /\ ~Handled(q)' => p = q
        BY <1>10, <1>12, <2>2
    <2> QED
        BY <2>3, <2>4 DEF NameInv
<1>19. SoldInv'
    <2>1. Sure' = Sure
        BY <1>9 DEF Sure
    <2>2. ASSUME Sure PROVE /\ net' >= 0
                            /\ \A p, q \in Orders : ord'[p].st = "firing" /\ ord'[q].st = "firing" => p = q
                            /\ net' < 1 => \A p \in Orders : ord'[p].st # "firing"
        BY <1>0, <1>8, <2>2 DEF SoldInv
    <2>3. ASSUME Sure, net < 1, NEW p \in Orders, Live(p)' PROVE ~Handled(p)'
        BY <1>0, <1>1, <1>10, <1>12, <2>3 DEF SoldInv
    <2>4. ASSUME Sure, rec' = None PROVE net = 1
        <3>1. op.retired \/ rec = None
            BY <1>1, <1>9, <1>11, <2>4
        <3> QED
            BY <2>4, <3>1, AloneIsIn
    <2>5. op'.act # "update" /\ Plain'
        BY <1>7, <1>9
    <2> QED
        BY <1>8, <2>1, <2>2, <2>3, <2>4, <2>5 DEF SoldInv
<1>20. TrackInv'
    <2> SUFFICES ASSUME loose = {} PROVE TrackInv'
        BY DEF TrackInv
    <2>1. \A p \in Orders : Live(p)' => Tracked(p)' \/ (Plain' /\ ~Handled(p)') \/ (p = rec' /\ PlaceFirst')
        BY <1>7, <1>9, <1>11, ExitStopAssumption DEF Handled
    <2>2. ASSUME net < 1 PROVE \E p \in Orders : Tracked(p)' /\ ord'[p].st = "filled"
        <3>1. PICK p \in Orders : Tracked(p) /\ ord[p].st = "filled"
            BY <1>0, <1>1, <2>2 DEF TrackInv
        <3>2. p = brk \/ p = rec
            BY <1>0, <1>1, <3>1, ExitStopAssumption DEF Tracked, RowInv
        <3>3. p = brk
            <4>1. CASE PlaceFirst /\ p = rec
                BY <1>0, <1>1, <3>1, <4>1 DEF PairInv, Dead
            <4>2. CASE ~PlaceFirst /\ p = rec
                BY <1>1, <1>9, <3>1, <4>2, ExitStopAssumption DEF Dead
            <4> QED
                BY <3>2, <4>1, <4>2
        <3> QED
            BY <1>8, <3>1, <3>3 DEF Tracked
    <2> QED
        BY <1>8, <2>1, <2>2 DEF TrackInv
<1>21. CountInv'
    <2>1. ~Before' /\ Alive' = Alive
        BY <1>7, <1>10 DEF Before, Alive
    <2> QED
        BY <1>0, <1>8, <2>1 DEF CountInv
<1> QED
    BY <1>13, <1>14, <1>15, <1>16, <1>17, <1>18, <1>19, <1>20, <1>21 DEF Inv

LEMMA FindLandedKeeps == ASSUME Inv, FindLanded PROVE Inv'
<1>0. TypeInv /\ op.step = "find" /\ UNCHANGED <<cfg, venue, open, brk, settled, told, loose>>
    BY DEF Inv, FindLanded
<1>1. faults' \in 0..MaxFaults
    BY <1>0, FaultType DEF FindLanded
<1>2. ASSUME NEW o \in Landed(Level[op.u], {op.old, rec}), Placed(o), NoFault, UNCHANGED <<row, rec>> PROVE Inv'
    <2>1. o \in Orders
        BY DEF Landed, In
    <2> QED
        BY <1>0, <1>2, <2>1, FoundKeeps DEF NoFault
<1>3. ASSUME Park(IF PlaceFirst THEN op.old ELSE None) PROVE Inv'
    BY <1>0, <1>1, <1>3, ParkKeeps
<1> QED
    BY <1>2, <1>3 DEF FindLanded

----------------------------------------------------------------------------
(* The new stop is withdrawn, or recorded.                                 *)
LEMMA WithdrawKeeps == ASSUME Inv, Withdraw PROVE Inv'
<1>0. /\ TypeInv /\ UpdateInv /\ SweepInv /\ OrderInv /\ RowInv /\ PairInv /\ NameInv /\ SoldInv /\ TrackInv /\ CountInv
      /\ op.step = "withdraw" /\ op' = Idle /\ UNCHANGED <<cfg, unread, net, book>>
    BY DEF Inv, Withdraw, Release
<1>1. op.act = "update"
    BY <1>0, Updating DEF UpdateSteps
<1>2. op.old = rec /\ rec # None /\ op.new # None /\ op.new # rec /\ PlaceFirst /\ ~Parking /\ open
    BY <1>0, <1>1 DEF UpdateInv, Parking
<1>3. op.new \in Orders /\ rec \in Orders /\ Plain
    BY <1>0, <1>2, OpFields, CfgType DEF Ids, TypeInv
<1>4. op'.act = "none" /\ op'.step = "" /\ op'.old = None /\ op'.new = None
    BY <1>0, IdleFields
<1>5. UNCHANGED <<cfg, unread, net, open, row, brk, rec, settled, told>>
    BY <1>0 DEF book
<1>6. Plain' = Plain /\ PlaceFirst' = PlaceFirst /\ Verify' = Verify /\ Parking' = Parking
    BY <1>5, BookSame
<1>7. faults' \in 0..MaxFaults
    BY <1>0, FaultType DEF Withdraw
<1>8. \/ ord[op.new].st = "working" /\ SetOrd(op.new, "cancelled") /\ loose' = loose
      \/ ord' = ord /\ loose' = loose \cup {"orphan"}
    BY DEF Withdraw
<1>9. /\ ord' \in [Orders -> OrdType] /\ \A p \in Orders : ord'[p].lvl = ord[p].lvl
      /\ \A p \in Orders : p # op.new => ord'[p] = ord[p]
      /\ ord'[op.new] = ord[op.new] \/ (ord[op.new].st = "working" /\ ord'[op.new].st = "cancelled" /\ loose' = loose)
      /\ ord'[op.new] = ord[op.new] => "orphan" \in loose'
    <2>1. CASE ord[op.new].st = "working" /\ SetOrd(op.new, "cancelled") /\ loose' = loose
        <3>1. /\ ord' \in [Orders -> OrdType] /\ ord'[op.new].st = "cancelled"
              /\ \A p \in Orders : ord'[p].lvl = ord[p].lvl
              /\ \A p \in Orders : p # op.new => ord'[p] = ord[p]
            BY <1>0, <1>3, <2>1, SetOrdDoes DEF OrderState
        <3> QED
            BY <2>1, <3>1
    <2>2. CASE ord' = ord /\ loose' = loose \cup {"orphan"}
        BY <1>0, <2>2 DEF TypeInv
    <2> QED
        BY <1>8, <2>1, <2>2
<1>10. loose \subseteq loose' /\ loose' \subseteq Ways
    BY <1>0, <1>8 DEF TypeInv, Ways
<1>11. /\ \A p \in Orders : Live(p)' => Live(p)
       /\ \A p \in Orders : p # op.new => Live(p)' = Live(p) /\ Dead(p)' = Dead(p)
       /\ \A p \in Orders : (ord'[p].st = "filled") = (ord[p].st = "filled")
       /\ \A p \in Orders : (ord'[p].st = "firing") = (ord[p].st = "firing")
       /\ "orphan" \notin loose' => ord[op.new].st = "working" /\ loose' = loose
    BY <1>3, <1>4, <1>9 DEF Live, Dead
<1>12. \A p \in Orders : Handled(p)' <=> p = rec
    BY <1>4, <1>5, ExitStopAssumption DEF Handled
<1>13. "orphan" \notin loose' => \A p \in Orders : Live(p)' => Live(p) /\ p # op.new
    BY <1>3, <1>4, <1>9 DEF Live
<1>14. TypeInv'
    BY <1>0, <1>5, <1>7, <1>9, <1>10, IdleType DEF TypeInv
<1>15. UpdateInv' /\ SweepInv'
    BY <1>0, <1>4 DEF UpdateInv, SweepInv
<1>16. OrderInv'
    <2>1. \A p \in Orders : ord'[p].st \in {"none", "inflight"} => p \notin {brk, rec, op'.old, op'.new}
        BY <1>0, <1>3, <1>4, <1>9, ExitStopAssumption DEF OrderInv
    <2>2. \A p \in unread : ord'[p].st \in {"filled", "dropped"}
        BY <1>0, <1>9 DEF OrderInv, TypeInv
    <2> QED
        BY <1>0, <1>5, <1>11, <2>1, <2>2 DEF OrderInv
<1>17. RowInv' /\ PairInv'
    <2>1. ord'[rec] = ord[rec] /\ ord'[rec].lvl = ord[rec].lvl
        BY <1>2, <1>3, <1>9
    <2>2. RowInv'
        BY <1>0, <1>5, <2>1 DEF RowInv
    <2>3. PairInv'
        BY <1>0, <1>2, <1>5, <1>6, <2>1 DEF PairInv, Live, Dead
    <2> QED
        BY <2>2, <2>3
<1>18. NameInv'
    <2> SUFFICES ASSUME ~Lost' PROVE NameInv'
        BY DEF NameInv
    <2>1. "orphan" \notin loose' /\ ~Lost
        BY <1>10 DEF Lost
    <2>2. \A p \in Orders : ~Awaited(p)
        BY <1>0, <1>2 DEF Awaited
    <2>3. \A p \in Orders : Live(p)' => p = rec
        BY <1>0, <1>3, <1>13, <2>1, <2>2 DEF NameInv, Handled
    <2>4. \A p \in Orders : Live(p)' => Handled(p)'
        BY <1>12, <2>3
    <2> QED
        BY <2>4 DEF NameInv
<1>19. SoldInv'
    <2>1. ASSUME Sure' PROVE Sure /\ "orphan" \notin loose'
        BY <1>6, <1>10, <2>1 DEF Sure
    <2>2. ASSUME Sure' PROVE /\ net' >= 0
                             /\ \A p, q \in Orders : ord'[p].st = "firing" /\ ord'[q].st = "firing" => p = q
                             /\ net' < 1 => \A p \in Orders : ord'[p].st # "firing"
        BY <1>0, <1>5, <1>11, <2>1, <2>2 DEF SoldInv
    <2>3. ASSUME Sure', net < 1, NEW p \in Orders, Live(p)' PROVE ~Handled(p)'
        <3>1. ord[rec].st = "filled"
            <4>1. \E q \in {rec, op.new} : ord[q].st = "filled"
                BY <1>0, <1>1, <1>2, <2>1, <2>3 DEF SoldInv
            <4>2. ord[op.new].st = "working"
                BY <1>11, <2>1, <2>3
            <4> QED
                BY <4>1, <4>2
        <3>2. ~Live(rec)
            BY <3>1 DEF Live
        <3> QED
            BY <1>11, <1>12, <2>3, <3>2
    <2>4. op'.act # "update" /\ Plain' /\ ~Parking'
        BY <1>2, <1>3, <1>4, <1>6
    <2> QED
        BY <1>5, <2>2, <2>3, <2>4 DEF SoldInv
<1>20. TrackInv'
    <2> SUFFICES ASSUME open, loose' = {} PROVE TrackInv'
        BY <1>5 DEF TrackInv
    <2>1. loose = {} /\ ord[op.new].st = "working"
        BY <1>10, <1>11
    <2>2. \A p \in Orders : Tracked(p) /\ p # op.new => Tracked(p)'
        BY <1>5 DEF Tracked
    <2>3. \A p \in Orders : Live(p)' => Tracked(p)' \/ (Plain' /\ ~Handled(p)') \/ (p = rec' /\ PlaceFirst')
        BY <1>2, <1>3, <1>5, <1>6, <1>12
    <2>4. net < 1 => \E p \in Orders : Tracked(p)' /\ ord'[p].st = "filled"
        BY <1>0, <1>11, <2>1, <2>2 DEF TrackInv
    <2> QED
        BY <1>5, <2>3, <2>4 DEF TrackInv
<1>21. CountInv'
    <2>1. ~Before' /\ Alive' \subseteq Alive
        BY <1>4, <1>11 DEF Before, Alive
    <2>2. net' >= net
        BY <1>0, <1>5 DEF TypeInv
    <2> QED
        BY <1>0, <1>14, <2>1, <2>2, CountFewer
<1> QED
    BY <1>14, <1>15, <1>16, <1>17, <1>18, <1>19, <1>20, <1>21 DEF Inv

LEMMA CommitKeeps == ASSUME Inv, Commit PROVE Inv'
<1>0. /\ TypeInv /\ UpdateInv /\ SweepInv /\ OrderInv /\ RowInv /\ PairInv /\ NameInv /\ SoldInv /\ TrackInv /\ CountInv
      /\ op.step = "commit" /\ op' = Idle /\ rec' = op.new /\ settled' = FALSE
      /\ UNCHANGED <<cfg, venue, open, told, faults>>
      /\ brk' = IF brk = None \/ (op.retired /\ brk = op.old) THEN op.new ELSE brk
      /\ row' = [row EXCEPT !.seq = op.u, !.cur = Level[op.u], !.engine = Level[op.u], !.slot = op.new]
    BY DEF Inv, Commit, Release
<1>1. op.act = "update"
    BY <1>0, Updating DEF UpdateSteps
<1>2. /\ op.old = rec /\ op.new # None /\ op.new \notin {rec, brk} /\ ~Parking /\ open /\ row.active
      /\ op.u \in Seqs /\ Level[op.u] \in Levels /\ ord[op.new].lvl = Level[op.u]
      /\ (op.retired \/ rec = None \/ ~Plain)
      /\ op.retired => rec # None /\ (Dead(rec) \/ (ord[rec].st = "filled" /\ "unread" \in loose))
    BY <1>0, <1>1, LevelsType DEF UpdateInv, Parking
<1>3. op.new \in Orders /\ rec \in Ids /\ brk \in Ids /\ (PlaceFirst => Plain) /\ (Verify => Plain)
    BY <1>0, <1>2, OpFields, CfgType DEF Ids, TypeInv
<1>4. op'.act = "none" /\ op'.step = "" /\ op'.old = None /\ op'.new = None
    BY <1>0, IdleFields
<1>5. UNCHANGED <<ord, unread, net>>
    BY <1>0 DEF venue
<1>6. /\ row' \in RowType /\ row'.active = TRUE /\ row'.cur = Level[op.u] /\ row'.engine = Level[op.u] /\ row'.slot = op.new
    BY <1>0, <1>2, <1>3 DEF TypeInv, RowType, Slot
<1>7. /\ Plain' = Plain /\ PlaceFirst' = PlaceFirst /\ Verify' = Verify /\ ~Parking' /\ ~IsMarker(row'.slot)
    BY <1>0, <1>3, <1>6, SlotType DEF Plain, PlaceFirst, Verify, Parking, Ids
<1>8. /\ loose \subseteq loose' /\ loose' \subseteq Ways
      /\ ~op.retired /\ op.old \notin {None, brk'} => "left" \in loose'
    BY <1>0 DEF Commit, TypeInv, Way, Ways
<1>9. Plain \/ op.retired => \A p \in Orders : p = rec => ~Live(p)
    BY <1>2, ExitStopAssumption DEF Dead, Live
<1>10. \A p \in Orders : (Handled(p)' <=> p = op.new) /\ Live(p)' = Live(p)
    BY <1>0, <1>4, <1>5, ExitStopAssumption DEF Handled, Live
<1>11. brk' \in Ids /\ brk' \in {brk, op.new} /\ op.new \in Ids
    BY <1>0, <1>3 DEF Ids
<1>12. TypeInv'
    BY <1>0, <1>5, <1>6, <1>8, <1>11, IdleType DEF TypeInv
<1>13. UpdateInv' /\ SweepInv'
    BY <1>0, <1>4 DEF UpdateInv, SweepInv
<1>14. OrderInv'
    <2>1. \A p \in Orders : ord'[p].st \in {"none", "inflight"} => p \notin {brk', rec', op'.old, op'.new}
        BY <1>0, <1>4, <1>5, <1>11, ExitStopAssumption DEF OrderInv
    <2> QED
        BY <1>0, <1>2, <1>5, <2>1 DEF OrderInv
<1>15. RowInv'
    BY <1>0, <1>2, <1>5, <1>6, <1>7 DEF RowInv
<1>16. PairInv'
    <2>1. PlaceFirst => brk' = op.new
        BY <1>0, <1>2, <1>3, ExitStopAssumption DEF PairInv
    <2>2. Plain /\ brk' # None => ~Live(brk') \/ brk' = op.new
        BY <1>0, <1>3, <1>9, <1>11 DEF PairInv, Ids
    <2>3. ~IsMarker(row.slot)'
        BY <1>7
    <2>4. Plain /\ brk' # None => ~Live(brk)' \/ brk' = op.new
        BY <1>5, <2>2 DEF Live
    <2> QED
        BY <1>0, <1>2, <1>7, <2>1, <2>3, <2>4 DEF PairInv
<1>17. NameInv'
    <2> SUFFICES ASSUME Plain, ~Lost' PROVE NameInv'
        BY <1>7 DEF NameInv
    <2>1. ~Lost
        BY <1>8 DEF Lost
    <2>2. \A p \in Orders : ~Awaited(p)
        BY <1>0, <1>2 DEF Awaited
    <2>3. \A p \in Orders : Live(p)' => Handled(p)'
        BY <1>0, <1>9, <1>10, <2>1, <2>2 DEF NameInv, Handled
    <2> QED
        BY <2>3 DEF NameInv
<1>18. SoldInv'
    <2>1. ~Plain' => net' >= 0
        BY <1>0, <1>5, <1>7 DEF SoldInv
    <2>2. ASSUME Sure' PROVE Sure
        BY <1>7, <1>8, <2>2 DEF Sure
    <2>3. ASSUME Sure' PROVE /\ net' >= 0
                             /\ \A p, q \in Orders : ord'[p].st = "firing" /\ ord'[q].st = "firing" => p = q
                             /\ net' < 1 => \A p \in Orders : ord'[p].st # "firing"
        BY <1>0, <1>5, <2>2, <2>3 DEF SoldInv
    <2>4. ASSUME Sure', net < 1, NEW p \in Orders, Live(p)' PROVE ~Handled(p)'
        BY <1>0, <1>10, <2>2, <2>4 DEF SoldInv, Handled
    <2> QED
        BY <1>4, <1>5, <1>7, <2>1, <2>3, <2>4 DEF SoldInv
<1>19. TrackInv'
    <2> SUFFICES ASSUME loose' = {} PROVE TrackInv'
        BY DEF TrackInv
    <2>1. loose = {} /\ (op.retired \/ rec \in {None, brk'})
        BY <1>2, <1>8
    <2>2. op.retired => Dead(rec)
        BY <1>2, <2>1
    <2>3. ASSUME NEW p \in Orders, Tracked(p), ~Dead(p) PROVE Tracked(p)'
        <3>1. p = brk \/ p = op.new \/ p = rec
            BY <1>0, <2>3 DEF Tracked, RowInv
        <3>2. CASE p = op.new
            BY <1>6, <3>2 DEF Tracked
        <3>3. CASE p = brk
            BY <1>0, <1>2, <2>2, <2>3, <3>3, ExitStopAssumption DEF Tracked
        <3>4. CASE p = rec
            BY <2>1, <2>2, <2>3, <3>4, ExitStopAssumption DEF Tracked
        <3> QED
            BY <3>1, <3>2, <3>3, <3>4
    <2>4. \A p \in Orders : Live(p)' => Tracked(p)' \/ (Plain' /\ ~Handled(p)') \/ (p = rec' /\ PlaceFirst')
        <3> TAKE p \in Orders
        <3> HAVE Live(p)'
        <3>1. Live(p) /\ ~Dead(p)
            BY <1>10 DEF Live, Dead
        <3>2. CASE Tracked(p)
            BY <2>3, <3>1, <3>2
        <3>3. CASE Plain /\ ~Handled(p)
            BY <1>7, <1>10, <3>3 DEF Handled
        <3>4. CASE p = rec /\ PlaceFirst
            BY <1>3, <1>9, <3>1, <3>4
        <3> QED
            BY <1>0, <1>2, <2>1, <3>1, <3>2, <3>3, <3>4 DEF TrackInv
    <2>5. ASSUME net < 1 PROVE \E p \in Orders : Tracked(p)' /\ ord'[p].st = "filled"
        <3>1. PICK p \in Orders : Tracked(p) /\ ord[p].st = "filled"
            BY <1>0, <1>2, <2>1, <2>5 DEF TrackInv
        <3>2. ~Dead(p)
            BY <3>1 DEF Dead
        <3> QED
            BY <1>5, <2>3, <3>1, <3>2
    <2> QED
        BY <1>5, <2>4, <2>5 DEF TrackInv
<1>20. CountInv'
    <2>1. ~Before' /\ Alive' = Alive
        BY <1>4, <1>10 DEF Before, Alive
    <2> QED
        BY <1>0, <1>5, <2>1 DEF CountInv
<1> QED
    BY <1>12, <1>13, <1>14, <1>15, <1>16, <1>17, <1>18, <1>19, <1>20 DEF Inv

----------------------------------------------------------------------------
(* The sweep.                                                              *)
LEMMA Sweeping ==
    ASSUME Inv, op.step \in {"pending", "unpend", "heal", "poll"}
    PROVE op.act = "sweep"
<1>1. op.act \in Acts /\ UpdateInv /\ SweepInv
    BY OpFields DEF Inv
<1>2. op.act # "update"
    BY <1>1 DEF UpdateInv, UpdateSteps, Retiring
<1>3. op.act # "none"
    BY <1>1, IdleFields DEF SweepInv
<1> QED
    BY <1>1, <1>2, <1>3 DEF Acts

SweepIdles ==
    /\ op' \in OpType /\ op'.act # "update" /\ op'.new = None /\ op'.old = None /\ op'.step # "find"
    /\ SweepInv'

LEMMA SweepPolls ==
    ASSUME Inv, op.act = "sweep", NEW r, NEW b, GoPoll(r, b), open' => Candidates(r, b) = Candidates(row', brk')
    PROVE SweepIdles
<1>1. TypeInv /\ op.new = None
    BY DEF Inv, SweepInv
<1>2. /\ op' \in OpType /\ op'.step = "poll" /\ op'.old = None /\ op'.todo = Candidates(r, b)
      /\ op'.act = "sweep" /\ op'.new = None
    BY <1>1, GoPollDoes
<1> QED
    BY <1>2 DEF SweepIdles, SweepInv, SweepSteps

(* A parked placement that is dealt with leaves the sweep healing or polling. *)
LEMMA SweepGoesOn ==
    ASSUME Inv, op.act = "sweep", op.step \in {"pending", "unpend"}, GoHeal
    PROVE  SweepIdles
<1>1. TypeInv /\ op.new = None /\ op.todo = {}
    BY DEF Inv, SweepInv
<1>2. CASE op' = [op EXCEPT !.step = "heal", !.old = None]
    <2>1. /\ op' \in OpType /\ op'.step = "heal" /\ op'.old = None /\ op'.todo = {}
          /\ op'.act = "sweep" /\ op'.new = None
        BY <1>1, <1>2 DEF TypeInv, OpType, Steps, Ids
    <2> QED
        BY <2>1 DEF SweepIdles, SweepInv, SweepSteps
<1>3. CASE GoPoll(row', brk')
    BY <1>3, SweepPolls
<1> QED
    BY <1>2, <1>3 DEF GoHeal

LEMMA SweepDone ==
    ASSUME Inv, op.act = "sweep", NEW o \in Orders, Done(o), open' => op.todo \ {o} \subseteq Candidates(row', brk')
    PROVE SweepIdles
<1>1. TypeInv /\ op.new = None
    BY DEF Inv, SweepInv
<1>2. CASE op' = Idle
    BY <1>2, IdleFields, IdleType DEF SweepIdles, SweepInv
<1>3. CASE op' # Idle
    <2>1. /\ op' \in OpType /\ op'.step = "poll" /\ op'.old = None /\ op'.todo = op.todo \ {o}
          /\ op'.act = "sweep" /\ op'.new = None
        BY <1>1, <1>3, DoneDoes
    <2> QED
        BY <2>1 DEF SweepIdles, SweepInv, SweepSteps
<1> QED
    BY <1>2, <1>3

(* The sweep leaves book and venue alone.                                  *)
LEMMA SweepLooks ==
    ASSUME Inv, op.act = "sweep", SweepIdles, faults' \in 0..MaxFaults, UNCHANGED <<cfg, venue, book, loose>>
    PROVE Inv'
<1>1. settled' \in BOOLEAN
    BY DEF Inv, TypeInv, book
<1> QED
    BY <1>1, SweepMoves DEF SweepIdles, book

LEMMA BeginSweepKeeps == ASSUME Inv, BeginSweep PROVE Inv'
<1>0. TypeInv /\ SweepInv /\ op.act = "none"
    BY DEF Inv, BeginSweep, LockFree
<1>1. UNCHANGED <<cfg, venue, book, faults, loose>> /\ UNCHANGED <<open, row, brk, rec, settled, told>>
    BY DEF BeginSweep, book
<1>2. PICK s \in {"pending", "heal", "poll"}, todo \in SUBSET Orders :
          /\ op' = [Idle EXCEPT !.act = "sweep", !.step = s, !.todo = todo]
          /\ s = "pending" => Parking /\ todo = {}
          /\ s = "heal" => todo = {}
          /\ s = "poll" => todo = Candidates(row, brk)
    <2>1. {} \in SUBSET Orders /\ Idle \in OpType /\ Idle.todo = {}
        BY IdleType, IdleFields
    <2>2. Candidates(row, brk) \in SUBSET Orders
        BY DEF Candidates
    <2>3. CASE PendingDue /\ op' = [Idle EXCEPT !.act = "sweep", !.step = "pending"]
        <3>1. op' = [Idle EXCEPT !.act = "sweep", !.step = "pending", !.todo = {}]
            BY <2>1, <2>3 DEF OpType
        <3> QED
            BY <2>3, <3>1 DEF PendingDue, Parking
    <2>4. CASE op' = [Idle EXCEPT !.act = "sweep", !.step = "heal"]
        <3>1. op' = [Idle EXCEPT !.act = "sweep", !.step = "heal", !.todo = {}]
            BY <2>1, <2>4 DEF OpType
        <3> QED
            BY <2>1, <3>1
    <2>5. CASE op' = [Idle EXCEPT !.act = "sweep", !.step = "poll", !.todo = Candidates(row, brk)]
        BY <2>2, <2>5
    <2> QED
        BY <2>3, <2>4, <2>5 DEF BeginSweep
<1>3. /\ op' \in OpType /\ op'.act = "sweep" /\ op'.step = s /\ op'.todo = todo /\ op'.new = None /\ op'.old = None
    BY <1>2, IdleType DEF Idle, OpType, Acts, Steps
<1>4. SweepInv'
    <2>1. Parking' = Parking /\ Candidates(row, brk)' = Candidates(row, brk)
        BY <1>1, BookSame
    <2> QED
        BY <1>1, <1>2, <1>3, <2>1 DEF SweepInv, SweepSteps
<1>5. faults' \in 0..MaxFaults /\ settled' \in BOOLEAN
    BY <1>0, <1>1 DEF TypeInv
<1> QED
    BY <1>0, <1>1, <1>2, <1>3, <1>4, <1>5, SweepMoves

LEMMA EndSweepKeeps == ASSUME Inv, EndSweep PROVE Inv'
<1>0. TypeInv /\ SweepInv /\ op.act = "sweep"
    BY DEF Inv, EndSweep
<1>1. UNCHANGED <<cfg, venue, open, row, brk, rec, told>> /\ settled' \in BOOLEAN /\ faults' \in 0..MaxFaults
      /\ loose' = loose /\ op' = Idle /\ loose' \subseteq Ways
    BY <1>0 DEF EndSweep, book, TypeInv, Release
<1>2. op.new = None /\ op.step # "find"
    BY <1>0 DEF SweepInv, SweepSteps
<1> QED
    BY <1>1, <1>2, ReleaseKeeps

LEMMA PollRestingKeeps == ASSUME Inv, NEW o \in Orders, PollResting(o) PROVE Inv'
<1>0. TypeInv /\ SweepInv /\ op.act = "sweep"
    BY Sweeping DEF Inv, PollResting
<1>1. UNCHANGED <<cfg, venue, book, loose>> /\ Done(o) /\ (Fault \/ NoFault) /\ UNCHANGED <<open, row, brk>>
    BY DEF PollResting, book
<1>2. faults' \in 0..MaxFaults
    BY <1>0, <1>1, FaultType
<1>3. SweepIdles
    BY <1>0, <1>1, SweepDone DEF SweepInv
<1> QED
    BY <1>0, <1>1, <1>2, <1>3, SweepLooks

(* An order that is gone is freed from the slots that name it, or the      *)
(* bracket follows the server row.                                         *)
LEMMA SettleKeeps ==
    ASSUME Inv, op.act = "sweep", NEW o \in Orders, o \in op.todo, open, Dead(o), SettleGone(o), Done(o),
           faults' \in 0..MaxFaults, UNCHANGED <<cfg, venue, open, rec, settled, told, loose>>
    PROVE Inv'
<1>0. /\ TypeInv /\ SweepInv /\ OrderInv /\ RowInv /\ PairInv /\ NameInv /\ SoldInv /\ TrackInv /\ CountInv
    BY DEF Inv
<1>1. op.new = None /\ op.step # "find" /\ op.todo \subseteq Candidates(row, brk)
    BY <1>0 DEF SweepInv, SweepSteps
<1>2. UNCHANGED <<ord, unread, net>>
    BY DEF venue
<1>3. o = brk \/ (row.active /\ o = row.slot /\ o = rec)
    BY <1>0, <1>1 DEF Candidates, RowInv
<1>4. ~Live(o) /\ ord[o].st # "filled"
    BY DEF Live, Dead
<1>5. row \in RowType /\ None \in Slot /\ rec \in Ids /\ brk \in Ids /\ o # None
    BY <1>0, ExitStopAssumption DEF TypeInv, Slot
<1>6. /\ row' \in RowType /\ row'.active = row.active /\ row'.cur = row.cur /\ row'.engine = row.engine
      /\ row'.slot = row.slot \/ (row.active /\ row.slot = o /\ row'.slot = None)
      /\ brk' \in Ids
      /\ \/ brk' = brk /\ brk # o
         \/ brk = o /\ brk' = None
         \/ o = brk /\ row.active /\ row.slot \in Orders /\ row.slot # o /\ brk' = rec /\ row' = row
         \/ o = brk /\ row.active /\ IsMarker(row.slot) /\ brk' = None /\ row' = row
    <2>1. CASE ~(row.active /\ row.slot = o) /\ row.active /\ row.slot # None
        <3>1. brk' = (IF row.slot \in Orders THEN row.slot ELSE None) /\ row' = row /\ o = brk
            BY <1>3, <2>1 DEF SettleGone, IdOf, IsOrder
        <3>2. CASE row.slot \in Orders
            BY <1>0, <1>5, <2>1, <3>1, <3>2 DEF RowInv, Ids
        <3>3. CASE row.slot \notin Orders
            <4>1. IsMarker(row.slot)
                BY <1>0, <2>1, <3>3, RowFields, SlotType DEF Ids
            <4> QED
                BY <1>5, <2>1, <3>1, <3>3, <4>1 DEF Ids
        <3> QED
            BY <3>2, <3>3
    <2>2. CASE ~(~(row.active /\ row.slot = o) /\ row.active /\ row.slot # None)
        <3>1. brk' = (IF brk = o THEN None ELSE brk)
              /\ row' = (IF row.active /\ row.slot = o THEN [row EXCEPT !.slot = None] ELSE row)
            BY <2>2 DEF SettleGone
        <3>2. brk' \in Ids
            BY <1>5, <3>1 DEF Ids
        <3>3. CASE row.active /\ row.slot = o
            <4>1. row' = [row EXCEPT !.slot = None]
                BY <3>1, <3>3
            <4> QED
                BY <1>5, <3>1, <3>2, <3>3, <4>1 DEF RowType
        <3>4. CASE ~(row.active /\ row.slot = o)
            BY <1>5, <3>1, <3>2, <3>4
        <3> QED
            BY <3>3, <3>4
    <2> QED
        BY <2>1, <2>2
<1>7. /\ IsMarker(row'.slot) <=> IsMarker(row.slot)
      /\ Parking' = Parking /\ Plain' = Plain /\ PlaceFirst' = PlaceFirst /\ Verify' = Verify
    BY <1>6, SlotType DEF Parking, Plain, PlaceFirst, Verify, Ids
<1>8. SweepIdles
    <2>1. op.todo \ {o} \subseteq Candidates(row', brk')
        BY <1>1, <1>6 DEF Candidates
    <2> QED
        BY <2>1, SweepDone
<1>9. op' \in OpType /\ op'.act # "update" /\ op'.new = None /\ op'.old = None /\ op'.step # "find" /\ SweepInv'
    BY <1>8 DEF SweepIdles
<1>10. /\ \A p \in Orders : Handled(p)' = Handled(p) /\ Live(p)' = Live(p) /\ Awaited(p)' = Awaited(p)
       /\ \A p \in Orders : Tracked(p) /\ p # o => Tracked(p)'
    <2>1. \A p \in Orders : Handled(p)' = Handled(p) /\ Live(p)' = Live(p)
        BY <1>1, <1>2, <1>9 DEF Handled, Live
    <2>2. \A p \in Orders : Awaited(p)' = Awaited(p)
        <3>1. Parking => row'.slot = row.slot
            BY <1>6, SlotType DEF Parking, Ids
        <3> QED
            BY <1>1, <1>2, <1>7, <1>9, <3>1 DEF Awaited
    <2>3. \A p \in Orders : Tracked(p) /\ p # o => Tracked(p)'
        BY <1>1, <1>6, ExitStopAssumption DEF Tracked
    <2> QED
        BY <2>1, <2>2, <2>3
<1>11. TypeInv'
    BY <1>0, <1>2, <1>6, <1>9 DEF TypeInv
<1>12. UpdateInv'
    BY <1>9 DEF UpdateInv
<1>13. OrderInv'
    <2>1. \A p \in Orders : ord'[p].st \in {"none", "inflight"} => p \notin {brk', rec', op'.old, op'.new}
        BY <1>0, <1>2, <1>6, <1>9, ExitStopAssumption DEF OrderInv
    <2> QED
        BY <1>0, <1>2, <1>6, <2>1 DEF OrderInv
<1>14. RowInv'
    <2>1. CASE row'.slot = row.slot
        BY <1>0, <1>2, <1>6, <2>1 DEF RowInv
    <2>2. CASE row'.slot = None
        <3>1. ~IsMarker(row'.slot) /\ row'.slot \notin Orders
            BY <2>2, SlotType, ExitStopAssumption DEF Ids
        <3> QED
            BY <1>0, <1>2, <1>6, <3>1 DEF RowInv
    <2> QED
        BY <1>6, <2>1, <2>2
<1>15. PairInv'
    <2>1. ASSUME PlaceFirst PROVE rec # None /\ brk' \in {rec, None} /\ (brk' = None => Dead(rec))
        BY <1>0, <1>5, <1>6, <2>1 DEF PairInv
    <2>2. Plain /\ brk' # None => ~Live(brk') \/ brk' = rec
        BY <1>0, <1>6 DEF PairInv
    <2>3. Plain /\ brk' # None => ~Live(brk)' \/ brk' = rec
        BY <1>2, <2>2 DEF Live
    <2>4. PlaceFirst => rec' # None /\ brk' \in {rec', None} /\ (open' /\ brk' = None => Dead(rec)')
        BY <1>2, <2>1 DEF Dead
    <2>5. IsMarker(row.slot)' => Verify' /\ (rec' # None => PlaceFirst')
        BY <1>0, <1>7 DEF PairInv
    <2> QED
        BY <1>7, <2>3, <2>4, <2>5 DEF PairInv
<1>16. NameInv'
    BY <1>0, <1>7, <1>10 DEF NameInv, Lost
<1>17. SoldInv'
    <2>1. Sure' = Sure
        BY <1>7 DEF Sure
    <2> QED
        BY <1>0, <1>1, <1>2, <1>7, <1>9, <1>10, <2>1 DEF SoldInv
<1>18. TrackInv'
    <2> SUFFICES ASSUME loose = {} PROVE TrackInv'
        BY DEF TrackInv
    <2>1. \A p \in Orders : Live(p)' => Tracked(p)' \/ (Plain' /\ ~Handled(p)') \/ (p = rec' /\ PlaceFirst')
        BY <1>0, <1>4, <1>7, <1>10 DEF TrackInv
    <2>2. net < 1 => \E p \in Orders : Tracked(p)' /\ ord'[p].st = "filled"
        BY <1>0, <1>2, <1>4, <1>10 DEF TrackInv
    <2> QED
        BY <1>2, <2>1, <2>2 DEF TrackInv
<1>19. CountInv'
    <2>1. Alive' = Alive /\ ~Before'
        BY <1>9, <1>10 DEF Alive, Before
    <2> QED
        BY <1>0, <1>2, <2>1 DEF CountInv
<1> QED
    BY <1>9, <1>11, <1>12, <1>13, <1>14, <1>15, <1>16, <1>17, <1>18, <1>19 DEF Inv

LEMMA PollGoneKeeps == ASSUME Inv, NEW o \in Orders, PollGone(o) PROVE Inv'
<1>0. TypeInv /\ OrderInv /\ SweepInv /\ op.act = "sweep"
    BY Sweeping DEF Inv, PollGone
<1>1. /\ o \in op.todo /\ open /\ SettleGone(o) /\ Done(o) /\ Status(o) = "cancelled"
      /\ UNCHANGED <<cfg, venue, open, rec, settled, told, loose>> /\ faults' = faults
    BY DEF PollGone
<1>2. Dead(o)
    BY <1>1 DEF Status, Dead
<1>3. faults' \in 0..MaxFaults
    BY <1>0, <1>1 DEF TypeInv
<1> QED
    BY <1>0, <1>1, <1>2, <1>3, SettleKeeps

LEMMA PollFiredKeeps == ASSUME Inv, NEW o \in Orders, PollFired(o) PROVE Inv'
<1>0. TypeInv /\ OrderInv /\ SweepInv /\ RowInv /\ op.act = "sweep"
    BY DEF Inv, PollFired
<1>1. o \in op.todo /\ UNCHANGED <<cfg, venue, open, rec, settled, told, loose>>
    BY DEF PollFired
<1>2. faults' \in 0..MaxFaults
    BY <1>0, FaultType DEF PollFired, NoFault
<1>3. op.new = None /\ settled' \in BOOLEAN
    BY <1>0, <1>1 DEF SweepInv, TypeInv
<1>4. ASSUME NEW s \in {"read1", "read2"}, op' = [op EXCEPT !.step = s, !.old = o], UNCHANGED <<row, brk>>,
             ord[o].st \notin {"none", "inflight", "working"}
      PROVE Inv'
    <2>1. /\ op' \in OpType /\ op'.act = "sweep" /\ op'.step = s /\ op'.old = o /\ op'.new = None /\ op'.todo = op.todo
        BY <1>0, <1>3, <1>4 DEF TypeInv, OpType, Steps, Ids
    <2>2. UNCHANGED <<ord, open>> /\ Candidates(row, brk)' = Candidates(row, brk)
        BY <1>1, <1>4, BookSame DEF venue
    <2>3. SweepInv'
        BY <1>0, <1>1, <1>4, <2>1, <2>2, ExitStopAssumption DEF SweepInv, SweepSteps
    <2> QED
        BY <1>0, <1>1, <1>2, <1>3, <1>4, <2>1, <2>3, SweepMoves
<1>5. ASSUME Done(o), UNCHANGED <<row, brk>> PROVE Inv'
    <2>1. SweepIdles
        BY <1>0, <1>1, <1>5, SweepDone DEF SweepInv
    <2> QED
        BY <1>0, <1>1, <1>2, <1>5, <2>1, SweepLooks DEF book
<1>6. CASE op.step = "poll" /\ Status(o) = "triggered" /\ op' = [op EXCEPT !.step = "read1", !.old = o] /\ UNCHANGED <<row, brk>>
    <2>1. ord[o].st \notin {"none", "inflight", "working"}
        BY <1>0, <1>6 DEF Status, OrderInv
    <2> QED
        BY <1>4, <1>6, <2>1
<1>7. CASE op.step = "read1" /\ op.old = o /\ Goto("read2") /\ UNCHANGED <<row, brk>>
    <2>1. op' = [op EXCEPT !.step = "read2", !.old = o]
        BY <1>0, <1>7 DEF Goto, TypeInv, OpType
    <2>2. ord[o].st \notin {"none", "inflight", "working"}
        BY <1>0, <1>7 DEF SweepInv, OrderInv
    <2> QED
        BY <1>4, <1>7, <2>1, <2>2
<1>8. CASE op.step = "read2" /\ op.old = o /\ In({"firing"}) = {} /\ Verdict = "dropped" /\ SettleGone(o) /\ Done(o)
    <2>1. Dead(o) /\ open
        <3>1. ord[o].st \notin {"none", "inflight", "working"}
            BY <1>0, <1>8 DEF SweepInv, OrderInv
        <3> QED
            BY <1>0, <1>8, <3>1, FiredAndIn DEF Verdict
    <2> QED
        BY <1>0, <1>1, <1>2, <1>8, <2>1, SettleKeeps
<1> QED
    BY <1>5, <1>6, <1>7, <1>8 DEF PollFired

(* The lineage is out: the row is retired, or is kept until the report     *)
(* gets through, and a leg of the bracket may be cancelled.                *)
LEMMA OutKeeps ==
    ASSUME Inv, op.act = "sweep", NEW o \in Orders, Done(o), open' = FALSE, net <= 0,
           (row.active /\ Retire(row)) \/ UNCHANGED <<row, loose>>,
           brk' \in {brk, None}, told' \in Nat, told' <= 1, told' > 0 => ~row'.active,
           UNCHANGED <<cfg, unread, net, rec, settled>>, faults' \in 0..MaxFaults,
           ord' \in [Orders -> OrdType],
           \A p \in Orders : ord'[p].lvl = ord[p].lvl
                             /\ (ord'[p] = ord[p] \/ (ord[p].st = "working" /\ ord'[p].st = "cancelled"))
    PROVE Inv'
<1>0. /\ TypeInv /\ SweepInv /\ OrderInv /\ RowInv /\ PairInv /\ NameInv /\ SoldInv /\ CountInv
    BY DEF Inv
<1>1. op.new = None /\ op.step # "find"
    BY <1>0 DEF SweepInv, SweepSteps
<1>2. SweepIdles
    BY SweepDone
<1>3. op' \in OpType /\ op'.act # "update" /\ op'.new = None /\ op'.old = None /\ op'.step # "find" /\ SweepInv'
    BY <1>2 DEF SweepIdles
<1>4. /\ row' \in RowType /\ row'.cur = row.cur /\ row'.engine = row.engine /\ row'.slot = row.slot
      /\ loose \subseteq loose' /\ loose' \subseteq Ways
      /\ "forgotten" \notin loose' => Parking' = Parking
    <2>1. CASE row.active /\ Retire(row)
        BY <1>0, <2>1, RetireDoes DEF Parking
    <2>2. CASE UNCHANGED <<row, loose>>
        BY <1>0, <2>2 DEF TypeInv, Parking
    <2> QED
        BY <2>1, <2>2
<1>5. Plain' = Plain /\ PlaceFirst' = PlaceFirst /\ Verify' = Verify /\ (Parking' => Parking)
    <2>1. CASE row.active /\ Retire(row)
        BY <1>0, <2>1, RetireDoes DEF Plain, PlaceFirst, Verify, Parking
    <2>2. CASE UNCHANGED <<row, loose>>
        BY <2>2 DEF Plain, PlaceFirst, Verify, Parking
    <2> QED
        BY <2>1, <2>2
<1>6. /\ \A p \in Orders : Handled(p)' = Handled(p) /\ (Live(p)' => Live(p))
      /\ \A p \in Orders : (ord'[p].st = "firing") = (ord[p].st = "firing") /\ (ord'[p].st = "filled") = (ord[p].st = "filled")
      /\ \A p \in Orders : Dead(p) => Dead(p)'
    BY <1>1, <1>3 DEF Handled, Live, Dead
<1>7. ASSUME "forgotten" \notin loose', NEW p \in Orders, Awaited(p), Live(p)' PROVE Awaited(p)'
    BY <1>1, <1>3, <1>4, <1>7 DEF Awaited, Live
<1>8. TypeInv'
    <2>1. brk' \in Ids /\ open' \in BOOLEAN
        BY <1>0 DEF TypeInv, Ids
    <2> QED
        BY <1>0, <1>3, <1>4, <2>1 DEF TypeInv
<1>9. UpdateInv'
    BY <1>3 DEF UpdateInv
<1>10. OrderInv'
    <2>1. \A p \in Orders : ord'[p].st \in {"none", "inflight"} => p \notin {brk', rec', op'.old, op'.new}
        BY <1>0, <1>3, ExitStopAssumption DEF OrderInv
    <2>2. \A p \in unread : ord'[p].st \in {"filled", "dropped"}
        BY <1>0 DEF OrderInv, TypeInv
    <2>3. net' <= 0 /\ net' <= 1
        BY <1>0 DEF TypeInv
    <2> QED
        BY <2>1, <2>2, <2>3 DEF OrderInv
<1>11. RowInv'
    BY <1>0, <1>4 DEF RowInv, TypeInv, Ids
<1>12. PairInv'
    <2>1. ASSUME Plain, brk' # None PROVE ~Live(brk)' \/ brk' = rec
        <3>1. brk' = brk /\ brk \in Orders
            BY <1>0, <2>1 DEF TypeInv, Ids
        <3>2. ~Live(brk) \/ brk = rec
            BY <1>0, <2>1, <3>1 DEF PairInv
        <3>3. Live(brk)' => Live(brk)
            BY <1>6, <3>1 DEF Live
        <3> QED
            BY <3>1, <3>2, <3>3
    <2> QED
        BY <1>0, <1>4, <1>5, <2>1 DEF PairInv
<1>13. NameInv'
    <2> SUFFICES ASSUME Plain, ~Lost' PROVE NameInv'
        BY <1>5 DEF NameInv
    <2>1. ~Lost /\ "forgotten" \notin loose'
        BY <1>4 DEF Lost
    <2> QED
        BY <1>0, <1>6, <1>7, <2>1 DEF NameInv
<1>14. SoldInv'
    <2>1. ASSUME Sure' PROVE Sure
        BY <1>4, <1>5, <2>1 DEF Sure
    <2>2. ASSUME Sure' PROVE /\ net' >= 0
                             /\ \A p, q \in Orders : ord'[p].st = "firing" /\ ord'[q].st = "firing" => p = q
                             /\ net' < 1 => \A p \in Orders : ord'[p].st # "firing"
        BY <1>0, <1>6, <2>1, <2>2 DEF SoldInv
    <2>3. ASSUME Sure', net < 1, NEW p \in Orders, Live(p)' PROVE ~Handled(p)'
        BY <1>0, <1>1, <1>6, <2>1, <2>3 DEF SoldInv
    <2>4. ~Plain' => net' >= 0
        BY <1>0, <1>5 DEF SoldInv
    <2> QED
        BY <1>3, <2>2, <2>3, <2>4 DEF SoldInv
<1>15. TrackInv'
    BY DEF TrackInv
<1>16. CountInv'
    <2>1. ~Before' /\ Alive' \subseteq Alive
        BY <1>3, <1>6 DEF Before, Alive
    <2>2. net' >= net
        BY <1>0 DEF TypeInv
    <2> QED
        BY <1>0, <1>8, <2>1, <2>2, CountFewer
<1> QED
    BY <1>3, <1>8, <1>9, <1>10, <1>11, <1>12, <1>13, <1>14, <1>15, <1>16 DEF Inv

LEMMA PollLingeringKeeps == ASSUME Inv, NEW o \in Orders, PollLingering(o) PROVE Inv'
<1>0. TypeInv /\ OrderInv /\ op.act = "sweep"
    BY Sweeping DEF Inv, PollLingering
<1>1. /\ open = FALSE /\ open' = open /\ Done(o) /\ brk' = None /\ UNCHANGED <<cfg, unread, net, rec, settled>>
      /\ ord' = IF brk # None /\ ord[brk].st = "working" THEN [ord EXCEPT ![brk].st = "cancelled"] ELSE ord
    BY <1>0 DEF PollLingering, TypeInv
<1>2. \/ row.active /\ told' = told + 1 /\ NoFault /\ Retire(row)
      \/ UNCHANGED <<told, row, loose>> /\ (Fault \/ NoFault)
    BY DEF PollLingering
<1>3. faults' \in 0..MaxFaults
    BY <1>0, <1>2, FaultType
<1>4. (row.active /\ Retire(row)) \/ UNCHANGED <<row, loose>>
    BY <1>2
<1>5. told' \in Nat /\ told' <= 1 /\ (told' > 0 => ~row'.active)
    <2>1. CASE row.active /\ told' = told + 1 /\ Retire(row)
        <3>1. told = 0
            BY <1>0, <2>1 DEF OrderInv, TypeInv
        <3>2. ~row'.active
            BY <1>0, <2>1, RetireDoes
        <3> QED
            BY <2>1, <3>1, <3>2
    <2>2. CASE UNCHANGED <<told, row, loose>>
        BY <1>0, <2>2 DEF OrderInv, TypeInv
    <2> QED
        BY <1>2, <2>1, <2>2
<1>6. net <= 0
    BY <1>0, <1>1 DEF OrderInv
<1>7. /\ ord' \in [Orders -> OrdType]
      /\ \A p \in Orders : ord'[p].lvl = ord[p].lvl
                           /\ (ord'[p] = ord[p] \/ (ord[p].st = "working" /\ ord'[p].st = "cancelled"))
    <2>1. CASE brk # None /\ ord[brk].st = "working"
        <3>1. brk \in Orders /\ SetOrd(brk, "cancelled") /\ "cancelled" \in OrderState
            BY <1>0, <1>1, <2>1 DEF TypeInv, Ids, SetOrd, OrderState
        <3>2. /\ ord' \in [Orders -> OrdType] /\ ord'[brk].st = "cancelled"
              /\ \A p \in Orders : ord'[p].lvl = ord[p].lvl
              /\ \A p \in Orders : p # brk => ord'[p] = ord[p]
            BY <1>0, <3>1, SetOrdDoes
        <3> QED
            BY <2>1, <3>2
    <2>2. CASE ~(brk # None /\ ord[brk].st = "working")
        BY <1>0, <1>1, <2>2 DEF TypeInv
    <2> QED
        BY <2>1, <2>2
<1> QED
    BY <1>0, <1>1, <1>3, <1>4, <1>5, <1>6, <1>7, OutKeeps

LEMMA PollFilledKeeps == ASSUME Inv, NEW o \in Orders, PollFilled(o) PROVE Inv'
<1>0. TypeInv /\ OrderInv /\ op.act = "sweep"
    BY Sweeping DEF Inv, PollFilled
<1>1. /\ open /\ open' = FALSE /\ Done(o) /\ brk' \in {brk, None} /\ Status(o) = "filled"
      /\ UNCHANGED <<cfg, ord, unread, net, rec, settled>>
    BY DEF PollFilled, venue
<1>2. \/ row.active /\ Retire(row) /\ Report
      \/ ~row.active /\ UNCHANGED <<row, loose, told, faults>>
    BY DEF PollFilled
<1>3. faults' \in 0..MaxFaults
    BY <1>0, <1>2, FaultType DEF Report, TypeInv
<1>4. (row.active /\ Retire(row)) \/ UNCHANGED <<row, loose>>
    BY <1>2
<1>5. told' \in Nat /\ told' <= 1 /\ (told' > 0 => ~row'.active)
    <2>1. told = 0
        BY <1>0, <1>1 DEF OrderInv, TypeInv
    <2>2. CASE row.active /\ Retire(row) /\ Report
        <3>1. ~row'.active
            BY <1>0, <2>2, RetireDoes
        <3> QED
            BY <2>1, <2>2, <3>1 DEF Report
    <2>3. CASE ~row.active /\ UNCHANGED <<row, loose, told, faults>>
        BY <2>1, <2>3
    <2> QED
        BY <1>2, <2>2, <2>3
<1>6. net <= 0
    BY <1>0, <1>1 DEF Status, OrderInv
<1>7. ord' \in [Orders -> OrdType] /\ \A p \in Orders : ord'[p].lvl = ord[p].lvl /\ ord'[p] = ord[p]
    BY <1>0, <1>1 DEF TypeInv
<1> QED
    BY <1>0, <1>1, <1>3, <1>4, <1>5, <1>6, <1>7, OutKeeps

(* The parked slot is resolved: nothing is looked for any more.            *)
LEMMA ResolvedKeeps ==
    ASSUME Inv, op.act = "sweep", Parking, NEW slot \in {None, rec},
           row' = [row EXCEPT !.slot = slot], SweepIdles,
           UNCHANGED <<cfg, unread, net, open, brk, rec, settled, told, loose>>, faults' \in 0..MaxFaults,
           ord' \in [Orders -> OrdType],
           \A p \in Orders : ord'[p].lvl = ord[p].lvl
                             /\ (ord'[p] = ord[p] \/ (p \notin {rec, brk} /\ ord[p].st = "working" /\ ord'[p].st = "cancelled")),
           Plain /\ ~Lost => \A p \in Orders : Live(p)' => Handled(p)
    PROVE Inv'
<1>0. /\ TypeInv /\ SweepInv /\ OrderInv /\ RowInv /\ PairInv /\ NameInv /\ SoldInv /\ TrackInv /\ CountInv
    BY DEF Inv
<1>1. op.new = None /\ op.step # "find"
    BY <1>0 DEF SweepInv, SweepSteps
<1>2. SweepIdles
    OBVIOUS
<1>3. op' \in OpType /\ op'.act # "update" /\ op'.new = None /\ op'.old = None /\ op'.step # "find" /\ SweepInv'
    BY <1>2 DEF SweepIdles
<1>4. rec \in Ids /\ brk \in Ids /\ slot \in Ids /\ slot \in Slot /\ row \in RowType /\ row.active = TRUE /\ IsMarker(row.slot)
    BY <1>0, RowFields, SlotType DEF TypeInv, Ids, Parking
<1>5. /\ row' \in RowType /\ row'.active /\ row'.cur = row.cur /\ row'.engine = row.engine /\ row'.slot = slot
    BY <1>4 DEF RowType
<1>6. Plain' = Plain /\ PlaceFirst' = PlaceFirst /\ Verify' = Verify /\ ~Parking' /\ ~IsMarker(row'.slot)
    BY <1>4, <1>5, SlotType DEF Plain, PlaceFirst, Verify, Parking
<1>7. /\ \A p \in Orders : Handled(p)' = Handled(p) /\ (Live(p)' => Live(p))
      /\ \A p \in Orders : (ord'[p].st = "firing") = (ord[p].st = "firing") /\ (ord'[p].st = "filled") = (ord[p].st = "filled")
      /\ \A p \in {rec, brk} : p # None => ord'[p] = ord[p]
    BY <1>1, <1>3, <1>4 DEF Handled, Live, Ids
<1>8. row.slot \notin Orders
    BY <1>4, SlotType DEF Ids
<1>9. \A p \in Orders : Tracked(p) => Tracked(p)'
    BY <1>1, <1>8, ExitStopAssumption DEF Tracked
<1>10. TypeInv'
    BY <1>0, <1>3, <1>5 DEF TypeInv
<1>11. UpdateInv'
    BY <1>3 DEF UpdateInv
<1>12. OrderInv'
    <2>1. \A p \in Orders : ord'[p].st \in {"none", "inflight"} => p \notin {brk', rec', op'.old, op'.new}
        BY <1>0, <1>3, ExitStopAssumption DEF OrderInv
    <2>2. \A p \in unread : ord'[p].st \in {"filled", "dropped"}
        BY <1>0 DEF OrderInv, TypeInv
    <2>3. told > 0 => ~open /\ ~row'.active
        BY <1>0, <1>4 DEF OrderInv
    <2> QED
        BY <1>0, <1>7, <2>1, <2>2, <2>3 DEF OrderInv
<1>13. RowInv'
    BY <1>0, <1>5, <1>6, <1>7, ExitStopAssumption DEF RowInv
<1>14. PairInv'
    BY <1>0, <1>6, <1>7 DEF PairInv, Live, Dead
<1>15. NameInv'
    BY <1>6, <1>7 DEF NameInv, Lost
<1>16. SoldInv'
    <2>1. Sure' = Sure
        BY <1>6 DEF Sure
    <2>2. ASSUME Sure' PROVE /\ net' >= 0
                             /\ \A p, q \in Orders : ord'[p].st = "firing" /\ ord'[q].st = "firing" => p = q
                             /\ net' < 1 => \A p \in Orders : ord'[p].st # "firing"
        BY <1>0, <1>7, <2>1, <2>2 DEF SoldInv
    <2>3. ASSUME Sure', net < 1, NEW p \in Orders, Live(p)' PROVE ~Handled(p)'
        BY <1>0, <1>1, <1>7, <2>1, <2>3 DEF SoldInv
    <2>4. ~Plain' => net' >= 0
        BY <1>0, <1>6 DEF SoldInv
    <2> QED
        BY <1>3, <1>6, <2>2, <2>3, <2>4 DEF SoldInv
<1>17. TrackInv'
    <2> SUFFICES ASSUME open, loose = {} PROVE TrackInv'
        BY DEF TrackInv
    <2>1. \A p \in Orders : Live(p)' => Tracked(p)' \/ (Plain' /\ ~Handled(p)') \/ (p = rec' /\ PlaceFirst')
        BY <1>0, <1>6, <1>7, <1>9 DEF TrackInv
    <2>2. net < 1 => \E p \in Orders : Tracked(p)' /\ ord'[p].st = "filled"
        BY <1>0, <1>7, <1>9 DEF TrackInv
    <2> QED
        BY <2>1, <2>2 DEF TrackInv
<1>18. CountInv'
    <2>1. ~Before' /\ Alive' \subseteq Alive
        BY <1>3, <1>7 DEF Before, Alive
    <2>2. net' >= net
        BY <1>0 DEF TypeInv
    <2> QED
        BY <1>0, <1>10, <2>1, <2>2, CountFewer
<1> QED
    BY <1>3, <1>10, <1>11, <1>12, <1>13, <1>14, <1>15, <1>16, <1>17, <1>18 DEF Inv

(* A stop that landed and that nothing names protects from now on.         *)
LEMMA AdoptKeeps ==
    ASSUME Inv, op.act = "sweep", Parking, open, rec = None, NEW o \in Landed(row.slot.lvl, {brk}),
           row' = [row EXCEPT !.slot = o], rec' = o, brk' = IF brk = None THEN o ELSE brk, settled' = FALSE,
           SweepIdles, UNCHANGED <<cfg, venue, open, told, loose>>, faults' \in 0..MaxFaults
    PROVE Inv'
<1>0. /\ TypeInv /\ SweepInv /\ OrderInv /\ RowInv /\ PairInv /\ NameInv /\ SoldInv /\ TrackInv /\ CountInv
    BY DEF Inv
<1>1. op.new = None /\ op.step # "find"
    BY <1>0 DEF SweepInv, SweepSteps
<1>2. SweepIdles
    OBVIOUS
<1>3. op' \in OpType /\ op'.act # "update" /\ op'.new = None /\ op'.old = None /\ op'.step # "find" /\ SweepInv'
    BY <1>2 DEF SweepIdles
<1>4. UNCHANGED <<ord, unread, net>>
    BY DEF venue
<1>5. /\ row \in RowType /\ row.active = TRUE /\ IsMarker(row.slot) /\ row.slot.lvl = row.cur
      /\ o \in Orders /\ o \in Ids /\ o \in Slot /\ o # None /\ ord[o].st = "working" /\ ord[o].lvl = row.cur /\ Live(o)
    BY <1>0, ExitStopAssumption DEF TypeInv, Parking, RowInv, Landed, In, Ids, Slot, Live
<1>6. /\ row' \in RowType /\ row'.active /\ row'.cur = row.cur /\ row'.engine = row.engine /\ row'.slot = o
    BY <1>5 DEF RowType
<1>7. Plain' = Plain /\ PlaceFirst' = PlaceFirst /\ Verify' = Verify /\ ~Parking' /\ ~IsMarker(row'.slot) /\ ~PlaceFirst
    BY <1>0, <1>5, <1>6, SlotType DEF Plain, PlaceFirst, Verify, Parking, PairInv
<1>8. \A p \in Orders : ~Handled(p) /\ (Handled(p)' <=> p = o) /\ Live(p)' = Live(p)
    BY <1>1, <1>3, <1>4, ExitStopAssumption DEF Handled, Live
<1>9. TypeInv'
    <2>1. brk' \in Ids
        BY <1>0, <1>5 DEF TypeInv
    <2> QED
        BY <1>0, <1>3, <1>4, <1>5, <1>6, <2>1 DEF TypeInv
<1>10. UpdateInv'
    BY <1>3 DEF UpdateInv
<1>11. OrderInv'
    <2>1. \A p \in Orders : ord'[p].st \in {"none", "inflight"} => p \notin {brk', rec', op'.old, op'.new}
        BY <1>0, <1>3, <1>4, <1>5, ExitStopAssumption DEF OrderInv
    <2>2. told > 0 => ~open /\ ~row'.active
        BY <1>0, <1>5 DEF OrderInv
    <2> QED
        BY <1>0, <1>4, <2>1, <2>2 DEF OrderInv
<1>12. RowInv'
    BY <1>0, <1>4, <1>5, <1>6, <1>7 DEF RowInv
<1>13. PairInv'
    <2>1. Plain /\ brk' # None => ~Live(brk') \/ brk' = o
        BY <1>0 DEF PairInv
    <2>2. Plain /\ brk' # None => ~Live(brk)' \/ brk' = o
        BY <1>4, <2>1 DEF Live
    <2> QED
        BY <1>7, <2>2 DEF PairInv
<1>14. NameInv'
    <2> SUFFICES ASSUME Plain, ~Lost PROVE NameInv'
        BY <1>7 DEF NameInv, Lost
    <2>1. \A p \in Orders : Live(p) => p = o
        BY <1>0, <1>5, <1>8 DEF NameInv
    <2> QED
        BY <1>8, <2>1 DEF NameInv
<1>15. SoldInv'
    <2>1. Sure' = Sure /\ (Sure => net = 1)
        BY <1>0, <1>7 DEF Sure, SoldInv
    <2>2. ASSUME Sure' PROVE /\ net' >= 0
                             /\ \A p, q \in Orders : ord'[p].st = "firing" /\ ord'[q].st = "firing" => p = q
        BY <1>0, <1>4, <2>1, <2>2 DEF SoldInv
    <2>3. ~Plain' => net' >= 0
        BY <1>0, <1>4, <1>7 DEF SoldInv
    <2> QED
        BY <1>4, <1>7, <2>1, <2>2, <2>3 DEF SoldInv
<1>16. TrackInv'
    <2> SUFFICES ASSUME loose = {} PROVE TrackInv'
        BY DEF TrackInv
    <2>1. \A p \in Orders : Tracked(p) => Tracked(p)'
        BY <1>1, <1>5, SlotType, ExitStopAssumption DEF Tracked, Ids
    <2>2. Tracked(o)'
        BY <1>6 DEF Tracked
    <2>3. \A p \in Orders : Live(p)' => Tracked(p)' \/ (Plain' /\ ~Handled(p)') \/ (p = rec' /\ PlaceFirst')
        BY <1>0, <1>7, <1>8, <2>1, <2>2 DEF TrackInv
    <2>4. net < 1 => \E p \in Orders : Tracked(p)' /\ ord'[p].st = "filled"
        BY <1>0, <1>4, <2>1 DEF TrackInv
    <2> QED
        BY <1>4, <2>3, <2>4 DEF TrackInv
<1>17. CountInv'
    <2>1. ~Before' /\ Alive' = Alive
        BY <1>3, <1>8 DEF Before, Alive
    <2> QED
        BY <1>0, <1>4, <2>1 DEF CountInv
<1> QED
    BY <1>3, <1>9, <1>10, <1>11, <1>12, <1>13, <1>14, <1>15, <1>16, <1>17 DEF Inv

LEMMA ResolvePendingKeeps == ASSUME Inv, ResolvePending PROVE Inv'
<1>0. TypeInv /\ OrderInv /\ SweepInv /\ RowInv /\ PairInv /\ NameInv /\ op.act = "sweep" /\ op.step = "pending"
    BY Sweeping DEF Inv, ResolvePending
<1>1. Parking /\ row.active /\ IsMarker(row.slot) /\ row.slot.keep = rec /\ op.new = None /\ In({"inflight"}) = {}
    BY <1>0 DEF SweepInv, RowInv, Parking, ResolvePending
<1>2. UNCHANGED <<cfg, venue, open, told, loose>> /\ UNCHANGED <<ord, unread, net>> /\ faults' \in 0..MaxFaults
    BY <1>0, FaultType DEF ResolvePending, venue
<1>3. PICK found : found = Landed(row.slot.lvl, {brk})
    OBVIOUS
<1>4. ASSUME GoHeal, UNCHANGED <<row, brk, rec, settled>> PROVE Inv'
    <2>1. SweepIdles
        BY <1>0, <1>4, SweepGoesOn
    <2> QED
        BY <1>0, <1>2, <1>4, <2>1, SweepLooks DEF book
<1>5. ASSUME ~open \/ row.slot.keep # None, NEW o \in found, op' = [op EXCEPT !.step = "unpend", !.old = o],
             UNCHANGED <<row, brk, rec, settled>>
      PROVE Inv'
    <2>1. /\ o \in Orders /\ o \notin {None, brk} /\ ord[o].st = "working" /\ ord[o].lvl = row.slot.lvl
        BY <1>3, <1>5, ExitStopAssumption DEF Landed, In
    <2>2. o # rec
        <3> SUFFICES ASSUME o = rec PROVE FALSE
            OBVIOUS
        <3>1. rec # None /\ row.slot.lvl > row.cur /\ ord[rec].lvl = row.cur
            BY <1>0, <1>1, <2>1 DEF RowInv
        <3>2. row.cur \in Nat
            BY <1>0, RowFields, LevelsType
        <3> QED
            BY <2>1, <3>1, <3>2
    <2>3. /\ op' \in OpType /\ op'.act = "sweep" /\ op'.step = "unpend" /\ op'.old = o /\ op'.new = None /\ op'.todo = op.todo
        BY <1>0, <1>1, <1>5, <2>1 DEF TypeInv, OpType, Steps, Ids
    <2>4. Parking' = Parking /\ Candidates(row, brk)' = Candidates(row, brk)
        BY <1>2, <1>5, BookSame
    <2>5. SweepInv'
        BY <1>0, <1>1, <1>2, <1>5, <2>1, <2>2, <2>3, <2>4 DEF SweepInv, SweepSteps
    <2>6. settled' \in BOOLEAN
        BY <1>0, <1>5 DEF TypeInv
    <2> QED
        BY <1>0, <1>2, <1>5, <2>1, <2>3, <2>5, <2>6, SweepMoves
<1>6. ASSUME found = {}, Plain, ~Lost, NEW p \in Orders, Live(p) PROVE Handled(p)
    <2>1. CASE Awaited(p)
        <3>1. ord[p].st = "working" /\ ord[p].lvl = row.slot.lvl
            BY <1>0, <1>1, <2>1 DEF Awaited, In
        <3>2. p = brk
            BY <1>3, <1>6, <3>1 DEF Landed, In
        <3> QED
            BY <1>0, <1>6, <3>2, ExitStopAssumption DEF PairInv, Handled
    <2>2. CASE ~Awaited(p)
        BY <1>0, <1>6, <2>2 DEF NameInv
    <2> QED
        BY <2>1, <2>2
<1>7. ASSUME found = {}, NEW slot \in {None, rec}, row' = [row EXCEPT !.slot = slot], GoHeal,
             UNCHANGED <<brk, rec, settled>>
      PROVE Inv'
    <2>1. SweepIdles
        BY <1>0, <1>7, SweepGoesOn
    <2>2. ord' \in [Orders -> OrdType] /\ \A p \in Orders : ord'[p].lvl = ord[p].lvl /\ ord'[p] = ord[p]
        BY <1>0, <1>2 DEF TypeInv
    <2>3. Plain /\ ~Lost => \A p \in Orders : Live(p)' => Handled(p)
        BY <1>2, <1>6, <1>7 DEF Live
    <2> QED
        BY <1>0, <1>1, <1>2, <1>7, <2>1, <2>2, <2>3, ResolvedKeeps
<1>8. ASSUME open, row.slot.keep = None, NEW o \in found, row' = [row EXCEPT !.slot = o], rec' = o,
             brk' = IF brk = None THEN o ELSE brk, settled' = FALSE, GoHeal
      PROVE Inv'
    BY <1>0, <1>1, <1>2, <1>3, <1>8, SweepGoesOn, AdoptKeeps
<1> QED
    <2>1. CASE GoHeal /\ UNCHANGED <<row, brk, rec, settled>>
        BY <1>4, <2>1
    <2>2. CASE (~open \/ row.slot.keep # None) /\ (\E o \in found : op' = [op EXCEPT !.step = "unpend", !.old = o])
               /\ UNCHANGED <<row, brk, rec, settled>>
        BY <1>5, <2>2
    <2>3. CASE found = {} /\ row' = [row EXCEPT !.slot = IF open THEN row.slot.keep ELSE None] /\ GoHeal
               /\ UNCHANGED <<brk, rec, settled>>
        <3>1. PICK slot \in {None, rec} : slot = IF open THEN row.slot.keep ELSE None
            BY <1>1
        <3> QED
            BY <1>7, <2>3, <3>1
    <2>4. CASE open /\ row.slot.keep = None /\ settled' = FALSE /\ GoHeal
               /\ \E o \in found : row' = [row EXCEPT !.slot = o] /\ rec' = o /\ brk' = IF brk = None THEN o ELSE brk
        BY <1>8, <2>4
    <2>5. CASE found = {} /\ row' = [row EXCEPT !.slot = None] /\ GoHeal /\ UNCHANGED <<brk, rec, settled>>
        BY <1>7, <2>5
    <2> QED
        BY <1>3, <2>1, <2>2, <2>3, <2>4, <2>5 DEF ResolvePending

LEMMA WithdrawPendingKeeps == ASSUME Inv, WithdrawPending PROVE Inv'
<1>0. TypeInv /\ OrderInv /\ SweepInv /\ RowInv /\ PairInv /\ NameInv /\ op.act = "sweep" /\ op.step = "unpend"
    BY Sweeping DEF Inv, WithdrawPending
<1>1. Parking /\ IsMarker(row.slot) /\ row.slot.keep = rec /\ op.new = None /\ op.old \notin {None, brk, rec}
      /\ ord[op.old].lvl = row.slot.lvl /\ op.old \in Orders
    BY <1>0, OpFields DEF SweepInv, RowInv, Parking, Ids
<1>2. UNCHANGED <<cfg, unread, net, open, brk, rec, settled, told, loose>> /\ faults' \in 0..MaxFaults /\ GoHeal
    BY <1>0, FaultType DEF WithdrawPending
<1>3. CASE UNCHANGED <<ord, row>>
    <2>1. SweepIdles
        BY <1>0, <1>2, SweepGoesOn
    <2> QED
        BY <1>0, <1>2, <1>3, <2>1, SweepLooks DEF book, venue
<1>4. CASE ord[op.old].st = "working" /\ SetOrd(op.old, "cancelled")
           /\ row' = [row EXCEPT !.slot = IF open THEN @.keep ELSE None]
    <2>1. PICK slot \in {None, rec} : slot = IF open THEN row.slot.keep ELSE None
        BY <1>1
    <2>2. row' = [row EXCEPT !.slot = slot]
        BY <1>0, <1>4, <2>1 DEF TypeInv, RowType
    <2>3. PICK w \in Orders : w = op.old
        BY <1>1
    <2>4. /\ ord' \in [Orders -> OrdType] /\ ord'[w].st = "cancelled" /\ \A p \in Orders : ord'[p].lvl = ord[p].lvl
          /\ \A p \in Orders : p # w => ord'[p] = ord[p]
        BY <1>0, <1>4, <2>3, SetOrdDoes DEF OrderState
    <2>5. ASSUME Plain, ~Lost, NEW p \in Orders, Live(p)' PROVE Handled(p)
        <3>1. p # w /\ Live(p)
            BY <2>4, <2>5 DEF Live
        <3>2. Live(w) /\ ~Handled(w)
            BY <1>1, <1>4, <2>3, ExitStopAssumption DEF Live, Handled
        <3> QED
            BY <1>0, <2>5, <3>1, <3>2 DEF NameInv
    <2>6. SweepIdles
        BY <1>0, <1>2, SweepGoesOn
    <2>7. \A p \in Orders : ord'[p].lvl = ord[p].lvl
             /\ (ord'[p] = ord[p] \/ (p \notin {rec, brk} /\ ord[p].st = "working" /\ ord'[p].st = "cancelled"))
        BY <1>1, <1>4, <2>3, <2>4
    <2>8. Plain /\ ~Lost => \A p \in Orders : Live(p)' => Handled(p)
        BY <2>5
    <2> QED
        BY <1>0, <1>1, <1>2, <2>1, <2>2, <2>4, <2>6, <2>7, <2>8, ResolvedKeeps
<1> QED
    BY <1>3, <1>4 DEF WithdrawPending

(* A recorded stop that rests takes the emptied slots again.               *)
LEMMA HealKeeps == ASSUME Inv, Heal PROVE Inv'
<1>0. /\ TypeInv /\ SweepInv /\ OrderInv /\ RowInv /\ PairInv /\ NameInv /\ SoldInv /\ TrackInv /\ CountInv
      /\ op.act = "sweep" /\ op.step = "heal"
    BY Sweeping DEF Inv, Heal
<1>1. op.new = None
    BY <1>0 DEF SweepInv
<1>2. UNCHANGED <<cfg, venue, open, rec, told, loose>> /\ UNCHANGED <<ord, unread, net>> /\ GoPoll(row', brk')
    BY DEF Heal, venue
<1>3. SweepIdles
    BY <1>0, <1>2, SweepPolls
<1>4. op' \in OpType /\ op'.act # "update" /\ op'.new = None /\ op'.old = None /\ op'.step # "find" /\ SweepInv'
    BY <1>3 DEF SweepIdles
<1>5. faults' \in 0..MaxFaults /\ settled' \in BOOLEAN
    BY <1>0, FaultType DEF Heal, TypeInv
<1>6. CASE UNCHANGED <<row, brk>>
    BY <1>0, <1>2, <1>4, <1>5, <1>6, SweepMoves
<1>7. CASE /\ row' = IF row.active /\ row.slot = None THEN [row EXCEPT !.slot = rec] ELSE row
           /\ brk' = IF brk = None THEN rec ELSE brk
    <2>1. row \in RowType /\ rec \in Ids /\ brk \in Ids /\ rec \in Slot /\ brk' \in Ids /\ brk' \in {brk, rec}
        BY <1>0, <1>7, SlotType DEF TypeInv
    <2>2. /\ row' \in RowType /\ row'.active = row.active /\ row'.cur = row.cur /\ row'.engine = row.engine
          /\ row'.slot = row.slot \/ (row.slot = None /\ row'.slot = rec)
        <3>1. CASE row.active /\ row.slot = None
            <4>1. row' = [row EXCEPT !.slot = rec]
                BY <1>7, <3>1
            <4> QED
                BY <2>1, <3>1, <4>1 DEF RowType
        <3>2. CASE ~(row.active /\ row.slot = None)
            BY <1>7, <2>1, <3>2
        <3> QED
            BY <3>1, <3>2
    <2>3. /\ IsMarker(row'.slot) <=> IsMarker(row.slot)
          /\ Parking' = Parking /\ Plain' = Plain /\ PlaceFirst' = PlaceFirst /\ Verify' = Verify
          /\ IsMarker(row'.slot) => row'.slot = row.slot
        BY <1>2, <2>1, <2>2, SlotType DEF Parking, Plain, PlaceFirst, Verify, Ids
    <2>4. /\ \A p \in Orders : Handled(p)' = Handled(p) /\ Live(p)' = Live(p) /\ Awaited(p)' = Awaited(p)
          /\ \A p \in Orders : Tracked(p) => Tracked(p)'
        <3>1. \A p \in Orders : Handled(p)' = Handled(p) /\ Live(p)' = Live(p)
            BY <1>1, <1>2, <1>4 DEF Handled, Live
        <3>2. \A p \in Orders : Awaited(p)' = Awaited(p)
            BY <1>0, <1>2, <1>4, <2>3 DEF Awaited, Parking
        <3>3. \A p \in Orders : Tracked(p) => Tracked(p)'
            BY <1>1, <1>7, <2>2, ExitStopAssumption DEF Tracked
        <3> QED
            BY <3>1, <3>2, <3>3
    <2>5. TypeInv'
        BY <1>0, <1>2, <1>4, <1>5, <2>1, <2>2 DEF TypeInv
    <2>6. UpdateInv'
        BY <1>4 DEF UpdateInv
    <2>7. OrderInv'
        <3>1. \A p \in Orders : ord'[p].st \in {"none", "inflight"} => p \notin {brk', rec', op'.old, op'.new}
            BY <1>0, <1>2, <1>4, <2>1, ExitStopAssumption DEF OrderInv
        <3> QED
            BY <1>0, <1>2, <2>2, <3>1 DEF OrderInv
    <2>8. RowInv'
        <3>1. CASE row'.slot = row.slot
            BY <1>0, <1>2, <2>2, <3>1 DEF RowInv
        <3>2. CASE row'.slot = rec
            BY <1>0, <1>2, <2>1, <2>2, <3>2, SlotType DEF RowInv
        <3> QED
            BY <2>2, <3>1, <3>2
    <2>9. PairInv'
        <3>1. PlaceFirst => rec # None /\ brk' \in {rec, None} /\ (open /\ brk' = None => Dead(rec))
            BY <1>0, <1>7 DEF PairInv
        <3>2. Plain /\ brk' # None => ~Live(brk') \/ brk' = rec
            BY <1>0, <1>7 DEF PairInv
        <3>3. Plain /\ brk' # None => ~Live(brk)' \/ brk' = rec
            BY <1>2, <3>2 DEF Live
        <3>4. PlaceFirst => rec' # None /\ brk' \in {rec', None} /\ (open' /\ brk' = None => Dead(rec)')
            BY <1>2, <3>1 DEF Dead
        <3>5. IsMarker(row.slot)' => Verify' /\ (rec' # None => PlaceFirst')
            BY <1>0, <1>2, <2>3 DEF PairInv
        <3> QED
            BY <1>2, <2>3, <3>3, <3>4, <3>5 DEF PairInv
    <2>10. NameInv'
        BY <1>0, <1>2, <2>3, <2>4 DEF NameInv, Lost
    <2>11. SoldInv'
        <3>1. Sure' = Sure
            BY <1>2, <2>3 DEF Sure
        <3> QED
            BY <1>0, <1>1, <1>2, <1>4, <2>3, <2>4, <3>1 DEF SoldInv
    <2>12. TrackInv'
        <3> SUFFICES ASSUME open, loose = {} PROVE TrackInv'
            BY <1>2 DEF TrackInv
        <3>1. \A p \in Orders : Live(p)' => Tracked(p)' \/ (Plain' /\ ~Handled(p)') \/ (p = rec' /\ PlaceFirst')
            BY <1>0, <1>2, <2>3, <2>4 DEF TrackInv
        <3>2. net < 1 => \E p \in Orders : Tracked(p)' /\ ord'[p].st = "filled"
            BY <1>0, <1>2, <2>4 DEF TrackInv
        <3> QED
            BY <1>2, <3>1, <3>2 DEF TrackInv
    <2>13. CountInv'
        <3>1. ~Before' /\ Alive' = Alive
            BY <1>4, <2>4 DEF Before, Alive
        <3> QED
            BY <1>0, <1>2, <3>1 DEF CountInv
    <2> QED
        BY <1>4, <2>5, <2>6, <2>7, <2>8, <2>9, <2>10, <2>11, <2>12, <2>13 DEF Inv
<1> QED
    BY <1>6, <1>7 DEF Heal

----------------------------------------------------------------------------
(* Around them.                                                            *)
LEMMA CloseElsewhereKeeps == ASSUME Inv, CloseElsewhere PROVE Inv'
<1>0. /\ TypeInv /\ SweepInv /\ OrderInv /\ RowInv /\ PairInv /\ NameInv /\ SoldInv /\ CountInv
      /\ op' = op /\ open /\ open' = FALSE /\ net = 1 /\ net' = 0 /\ brk' = None /\ UNCHANGED <<cfg, unread, rec, settled, told>>
    BY DEF Inv, CloseElsewhere
<1>1. op = Idle /\ op.new = None /\ op.step = "" /\ op.act = "none" /\ op.old = None
    BY <1>0, IdleFields DEF CloseElsewhere, LockFree, SweepInv
<1>2. PICK gone \in SUBSET Orders : gone = {p \in {rec, brk} \cap Orders : ord[p].st = "working"}
    OBVIOUS
<1>3. \A p \in Orders : [ord[p] EXCEPT !.st = "cancelled"] \in OrdType
                        /\ [ord[p] EXCEPT !.st = "cancelled"].st = "cancelled"
                        /\ [ord[p] EXCEPT !.st = "cancelled"].lvl = ord[p].lvl
    BY <1>0, OrdFields DEF OrdType, OrderState
<1>4. /\ ord' \in [Orders -> OrdType]
      /\ \A p \in Orders : ord'[p].lvl = ord[p].lvl
      /\ \A p \in Orders : ord'[p] = ord[p] \/ (ord[p].st = "working" /\ ord'[p].st = "cancelled")
      /\ ord' = ord \/ \A p \in gone : ord'[p].st = "cancelled"
    <2>1. CASE ord' = ord
        BY <1>0, <2>1 DEF TypeInv
    <2>2. CASE ord' = [p \in Orders |-> IF p \in gone THEN [ord[p] EXCEPT !.st = "cancelled"] ELSE ord[p]]
        <3>1. \A p \in Orders : ord'[p] = IF p \in gone THEN [ord[p] EXCEPT !.st = "cancelled"] ELSE ord[p]
            BY <2>2
        <3>2. \A p \in Orders : ord[p] \in OrdType
            BY <1>0, OrdFields
        <3>3. ord' \in [Orders -> OrdType]
            BY <1>3, <2>2, <3>2
        <3> QED
            BY <1>2, <1>3, <3>1, <3>3
    <2> QED
        BY <1>2, <2>1, <2>2 DEF CloseElsewhere
<1>5. /\ row' \in RowType /\ row'.cur = row.cur /\ row'.engine = row.engine /\ row'.slot = row.slot
      /\ row'.active => row.active
      /\ loose \subseteq loose' /\ loose' \subseteq Ways /\ faults' \in 0..MaxFaults
    <2>1. row' = row \/ row' = [row EXCEPT !.active = FALSE]
        BY DEF CloseElsewhere
    <2>2. row' \in RowType /\ row'.cur = row.cur /\ row'.engine = row.engine /\ row'.slot = row.slot
          /\ (row'.active => row.active)
        BY <1>0, <2>1 DEF TypeInv, RowType
    <2>3. loose \subseteq loose' /\ loose' \subseteq Ways
        BY <1>0 DEF CloseElsewhere, TypeInv, Way, Ways
    <2>4. faults' \in 0..MaxFaults
        BY <1>0, FaultType DEF CloseElsewhere
    <2> QED
        BY <2>2, <2>3, <2>4
<1>6. ASSUME "forgotten" \notin loose'
      PROVE /\ \A p \in Orders : ord[p].st \in {"working", "firing"} => ord'[p].st = "cancelled"
            /\ Parking' = Parking
    <2>1. \/ /\ ord' = [p \in Orders |-> IF p \in gone THEN [ord[p] EXCEPT !.st = "cancelled"] ELSE ord[p]]
             /\ Resting \ gone = {}
             /\ row' = row \/ (row' = [row EXCEPT !.active = FALSE] /\ ~Parking)
          \/ Resting = {} /\ row' = [row EXCEPT !.active = FALSE] /\ ~Parking
        BY <1>2, <1>6 DEF CloseElsewhere, Way, Parking
    <2>2. Parking' = Parking
        BY <1>0, <1>5, <2>1 DEF Parking, TypeInv, RowType
    <2>3. \A p \in Orders : ord[p].st \in {"working", "firing"} => p \in Resting
        BY DEF Resting, In
    <2> QED
        BY <1>3, <2>1, <2>2, <2>3
<1>7. Plain' = Plain /\ PlaceFirst' = PlaceFirst /\ Verify' = Verify /\ (\A p : Handled(p)' = Handled(p))
    BY <1>0 DEF Plain, PlaceFirst, Verify, Handled
<1>8. \A p \in Orders : Live(p)' => Live(p)
    BY <1>4 DEF Live
<1>9. ASSUME "forgotten" \notin loose', NEW p \in Orders, Live(p)'
      PROVE ord[p].st = "inflight" /\ ord'[p].st = "inflight" /\ ~Handled(p) /\ (Awaited(p) => Awaited(p)')
    <2>1. ord'[p] = ord[p] /\ ord[p].st = "inflight"
        BY <1>4, <1>6, <1>9 DEF Live
    <2>2. ~Handled(p)
        BY <1>0, <2>1 DEF OrderInv, Handled
    <2>3. Awaited(p) => Awaited(p)'
        BY <1>0, <1>1, <1>5, <1>6, <1>9, <2>1 DEF Awaited
    <2> QED
        BY <2>1, <2>2, <2>3
<1>10. TypeInv'
    <2>1. brk' \in Ids
        BY <1>0 DEF Ids
    <2>2. net' = 0
        BY <1>0
    <2>3. net' \in Int
        BY <2>2
    <2>4. open' = FALSE
        BY <1>0
    <2>5. open' \in BOOLEAN
        BY <2>4
    <2>6. /\ cfg' \in Configs /\ unread' \subseteq Orders /\ rec' \in Ids /\ settled' \in BOOLEAN
          /\ told' \in Nat /\ op' \in OpType
        BY <1>0 DEF TypeInv
    <2> QED
        BY <1>4, <1>5, <2>1, <2>3, <2>5, <2>6 DEF TypeInv
<1>11. UpdateInv' /\ SweepInv'
    BY <1>0, <1>1 DEF UpdateInv, SweepInv
<1>12. OrderInv'
    <2>1. \A p \in Orders : ord'[p].st \in {"none", "inflight"} => p \notin {brk', rec', op'.old, op'.new}
        BY <1>0, <1>1, <1>4, ExitStopAssumption DEF OrderInv
    <2>2. \A p \in unread : ord'[p].st \in {"filled", "dropped"}
        BY <1>0, <1>4 DEF OrderInv, TypeInv
    <2>3. ~(told > 0) /\ told <= 1
        BY <1>0 DEF OrderInv
    <2> QED
        BY <1>0, <2>1, <2>2, <2>3 DEF OrderInv
<1>13. RowInv'
    BY <1>0, <1>4, <1>5 DEF RowInv, TypeInv, Ids
<1>14. PairInv'
    BY <1>0, <1>5, <1>7 DEF PairInv
<1>15. NameInv'
    <2> SUFFICES ASSUME Plain, ~Lost' PROVE NameInv'
        BY <1>7 DEF NameInv
    <2>1. ~Lost /\ "forgotten" \notin loose'
        BY <1>5 DEF Lost
    <2> QED
        BY <1>0, <1>7, <1>8, <1>9, <2>1 DEF NameInv
<1>16. SoldInv'
    <2>1. ASSUME Sure', NEW p \in Orders, Live(p)' PROVE ord'[p].st # "firing" /\ ~Handled(p)'
        BY <1>7, <1>9, <2>1 DEF Sure
    <2>2. Sure' => \A p \in Orders : ord'[p].st # "firing"
        BY <2>1 DEF Live
    <2>3. net' = 0 /\ open' = FALSE /\ op'.act # "update"
        BY <1>0, <1>1
    <2>4. net' >= 0
        BY <2>3
    <2> QED
        BY <2>1, <2>2, <2>3, <2>4 DEF SoldInv
<1>17. TrackInv'
    BY <1>0 DEF TrackInv
<1>18. CountInv'
    <2>1. Cardinality(Alive') \in Nat /\ Cardinality(Orders) \in Nat /\ Cardinality(Alive') <= Cardinality(Orders)
        BY AliveCount, AliveType
    <2>2. ~Before'
        BY <1>0, <1>1 DEF Before
    <2> QED
        BY <1>0, <2>1, <2>2 DEF CountInv
<1> QED
    BY <1>10, <1>11, <1>12, <1>13, <1>14, <1>15, <1>16, <1>17, <1>18 DEF Inv

----------------------------------------------------------------------------
(* Every step keeps it.                                                    *)
LEMMA StutterKeeps == ASSUME Inv, UNCHANGED vars PROVE Inv'
<1>1. UNCHANGED <<cfg, ord, unread, net, open, row, brk, rec, settled, told, op, faults, loose>>
    BY DEF vars, venue, book
<1>2. TypeInv' /\ UpdateInv' /\ SweepInv'
    <2>1. TypeInv'
        BY <1>1 DEF Inv, TypeInv
    <2>2. UpdateInv'
        BY <1>1 DEF Inv, UpdateInv, Dead, PlaceFirst, Plain, Verify
    <2>3. Candidates(row, brk)' = Candidates(row, brk) /\ Parking' = Parking
        BY <1>1 DEF Candidates, Parking
    <2>4. SweepInv'
        BY <1>1, <2>3 DEF Inv, SweepInv
    <2> QED
        BY <2>1, <2>2, <2>4
<1>3. OrderInv' /\ RowInv' /\ PairInv'
    BY <1>1 DEF Inv, OrderInv, RowInv, PairInv, Live, Dead, Plain, PlaceFirst, Verify
<1>4. NameInv' /\ TrackInv'
    BY <1>1 DEF Inv, NameInv, TrackInv, Live, Handled, Awaited, Parking, Tracked, Lost, Plain, PlaceFirst
<1>5. SoldInv'
    BY <1>1 DEF Inv, SoldInv, Sure, Live, Handled, Parking, Plain
<1>6. CountInv'
    BY <1>1 DEF Inv, CountInv, Alive, Live, Before
<1> QED
    BY <1>2, <1>3, <1>4, <1>5, <1>6 DEF Inv

LEMMA InvNext == Inv /\ [Next]_vars => Inv'
<1> SUFFICES ASSUME Inv, [Next]_vars PROVE Inv'
    OBVIOUS
<1>1. CASE \E u \in Seqs : BeginUpdate(u)
    BY <1>1, BeginUpdateKeeps
<1>2. CASE UpdateStep
    BY <1>2, PlanUpdateKeeps, CancelOldKeeps, StatusOldKeeps, FiredOldKeeps, PlaceAnsweredKeeps, PlaceThrewKeeps,
       FindLandedKeeps, WithdrawKeeps, CommitKeeps DEF UpdateStep
<1>3. CASE BeginSweep
    BY <1>3, BeginSweepKeeps
<1>4. CASE SweepStep
    BY <1>4, ResolvePendingKeeps, WithdrawPendingKeeps, HealKeeps, EndSweepKeeps, PollLingeringKeeps, PollFilledKeeps,
       PollGoneKeeps, PollRestingKeeps, PollFiredKeeps DEF SweepStep
<1>5. CASE VenueStep
    BY <1>5, ExecuteKeeps, ReadableKeeps, LandsKeeps DEF VenueStep
<1>6. CASE \E o \in Orders : Trigger(o)
    BY <1>6, TriggerKeeps
<1>7. CASE CloseElsewhere
    BY <1>7, CloseElsewhereKeeps
<1>8. CASE Crash
    BY <1>8, CrashKeeps
<1>9. CASE UNCHANGED vars
    BY <1>9, StutterKeeps
<1> QED
    BY <1>1, <1>2, <1>3, <1>4, <1>5, <1>6, <1>7, <1>8, <1>9 DEF Next

(* What the update handler, the sweep, the closes and the crashes of the   *)
(* executor keep between the venue's stops and the records of them.        *)
THEOREM InvAlways == Spec => []Inv
BY InvInit, InvNext, PTL DEF Spec

----------------------------------------------------------------------------
(* What follows.                                                           *)
LEMMA InvNotSold == Inv => NeverSoldTwice
<1> SUFFICES ASSUME Inv, net < 0, loose \ {"flat", "left"} = {} PROVE FALSE
    BY DEF NeverSoldTwice
<1>1. TypeInv /\ SoldInv /\ net \in Int
    BY DEF Inv, TypeInv
<1>2. ~(net >= 0)
    BY <1>1
<1>3. Plain
    BY <1>1, <1>2 DEF SoldInv
<1>4. Sure
    BY <1>3 DEF Sure
<1> QED
    BY <1>1, <1>2, <1>4 DEF SoldInv

LEMMA InvNamed == Inv => EveryStopIsNamed
<1> SUFFICES ASSUME Inv, LockFree, Plain, loose \subseteq {"gap", "unread", "flat", "left"}, NEW o \in Resting
             PROVE \/ o \in {brk, rec}
                   \/ row.active /\ o = row.slot
                   \/ row.active /\ IsMarker(row.slot) /\ (o = row.slot.keep \/ ord[o].lvl = row.slot.lvl)
    BY DEF EveryStopIsNamed
<1>1. o \in Orders /\ Live(o)
    BY DEF Resting, In, Live
<1>2. op.new = None /\ op.step = ""
    BY IdleFields DEF Inv, SweepInv, LockFree
<1>3. ~Lost
    BY DEF Lost
<1>4. Handled(o) \/ Awaited(o)
    BY <1>1, <1>3 DEF Inv, NameInv
<1>5. Handled(o) => o = rec
    BY <1>1, <1>2, ExitStopAssumption DEF Handled
<1>6. Awaited(o) => Parking /\ ord[o].lvl = row.slot.lvl
    BY <1>2 DEF Awaited
<1> QED
    BY <1>4, <1>5, <1>6 DEF Parking

LEMMA InvLevel == Inv => RecordedLevelRests
<1> SUFFICES ASSUME Inv, IsOrder(row.slot) PROVE ord[row.slot].lvl = row.cur
    BY DEF RecordedLevelRests
<1>1. row.slot \in Orders /\ row.slot = rec /\ rec # None
    BY ExitStopAssumption DEF IsOrder, Inv, RowInv
<1> QED
    BY <1>1 DEF Inv, RowInv

LEMMA InvTracked == Inv => FilledIsTracked
<1> SUFFICES ASSUME Inv, LockFree, open, net < 1, loose = {}, unread = {}
             PROVE \E o \in Candidates(row, brk) : Status(o) = "filled"
    BY DEF FilledIsTracked
<1>1. PICK o \in Orders : Tracked(o) /\ ord[o].st = "filled"
    BY DEF Inv, TrackInv
<1>2. op.new = None
    BY IdleFields DEF Inv, SweepInv, LockFree
<1>3. o \in Candidates(row, brk)
    BY <1>1, <1>2, ExitStopAssumption DEF Tracked, Candidates
<1>4. Status(o) = "filled"
    BY <1>1 DEF Status
<1> QED
    BY <1>3, <1>4

LEMMA InvReal == Inv => ExitIsReal
BY DEF Inv, OrderInv, ExitIsReal

LEMMA InvTyped == Inv => TypeOK
<1> SUFFICES ASSUME Inv PROVE TypeOK
    OBVIOUS
<1>1. TypeInv /\ OrderInv /\ CountInv
    BY DEF Inv
<1>2. net \in Int /\ told \in Nat /\ net <= 1 /\ told <= 1 /\ net >= -Cardinality(Orders)
    BY <1>1, CountGives DEF TypeInv, OrderInv
<1>3. Cardinality(Orders) \in Nat
    BY FS_CardinalityType, ExitStopAssumption
<1>4. net \in -Cardinality(Orders)..1 /\ told \in 0..2
    BY <1>2, <1>3
<1>5. op \in OpType /\ row \in RowType /\ ord \in [Orders -> OrdType]
    BY <1>1 DEF TypeInv
<1>6. /\ ord \in [Orders -> [st : OrderState, lvl : Levels]]
      /\ row \in [active : BOOLEAN, seq : {0} \cup Seqs, cur : Levels, engine : Levels, slot : Slot]
      /\ op \in [act : {"none", "update", "sweep"}, step : Steps, u : {0} \cup Seqs,
                 old : Orders \cup {None}, new : Orders \cup {None},
                 ans : {"", "acked", "gone", "error", "threw"}, retired : BOOLEAN,
                 todo : SUBSET Orders]
    BY <1>5 DEF OrdType, RowType, OpType, Acts, Answers, Ids
<1>7. /\ cfg \in Configs /\ unread \subseteq Orders /\ open \in BOOLEAN /\ brk \in Orders \cup {None}
      /\ rec \in Orders \cup {None} /\ settled \in BOOLEAN /\ faults \in 0..MaxFaults /\ loose \subseteq Ways
    BY <1>1 DEF TypeInv, Ids
<1> QED
    BY <1>4, <1>6, <1>7 DEF TypeOK

----------------------------------------------------------------------------
(* The lineage is never sold twice, whatever the venue answers to the      *)
(* cancels, lookups and placements of retireOldStop, placeExitStop and     *)
(* resolvePendingPlacements, and in whatever order; unless a stop got out  *)
(* of sight in one of the named ways.                                      *)
THEOREM SoldOnce == Spec => []NeverSoldTwice
BY InvAlways, InvNotSold, PTL

(* Whenever nobody holds the order lock: every resting plain stop is named *)
(* by a record, the recorded level is the one that rests, the book closes  *)
(* only what is out and tells the server once, and a fill is where         *)
(* collectRestingExitCandidates looks.                                     *)
THEOREM BookAgrees == Spec => []BookAndVenueAgree
<1>1. Inv => BookAndVenueAgree
    BY InvNamed, InvLevel, InvReal, InvTracked DEF BookAndVenueAgree
<1> QED
    BY <1>1, InvAlways, PTL

(* Every variable keeps its type; the lineage can be sold at most once for *)
(* each order id.                                                          *)
THEOREM TypeCorrect == Spec => []TypeOK
BY InvAlways, InvTyped, PTL
=============================================================================
