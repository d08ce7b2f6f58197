------------------------- MODULE ContractRoll_proof -------------------------
(***************************************************************************)
(* Proofs about the roll of a position to the next contract, for every     *)
(* number of rolls, contracts, notices and failures. A roll is between two *)
(* contracts for up to five orders, and an automatic one also between two  *)
(* owners until its notice carries the execution over. The invariant says  *)
(* at each step what is missing where, and which automatic rolls can end   *)
(* only in one of the ways the model names.                                *)
(***************************************************************************)
EXTENDS ContractRoll, SequenceTheorems, TLAPS

Steps == Live \cup {"idle", "queued", "handling", "asking", "waiting", "done"}
Told  == {"none", "filled", "partially_filled", "cancelled", "rejected", "unknown", "thrown"}
Rec   == [step : Steps, qty : Nat, closed : Nat, opened : Nat, told : [st : Told, n : Nat],
          result : Results]

(* What the proofs need of the types.                                      *)
TypeInv ==
    /\ story \in Stories
    /\ pos \in [Contracts -> Int]
    /\ \A o \in rest : o.roll \in Rolls /\ o.on \in Contracts /\ o.n \in Int \ {0}
    /\ stop \in [Contracts -> SUBSET {"user", "bot"}]
    /\ marker \in [Contracts -> Nat]
    /\ exec \in [on : Contracts, qty : Nat] /\ exec.qty <= story.bot
    /\ line \in Seq(Jobs)
    /\ job \in [Jobs -> Rec]
    /\ used \subseteq {Key(r) : r \in Rolls} \cup Requests
    /\ seen \in BOOLEAN
    /\ notices \in 0..MaxNotices /\ faults \in 0..MaxFaults
    /\ sold \in Nat /\ lost \in Nat
    /\ ways \subseteq Ways

Before == {"idle", "queued", "close", "closing"}
After  == Live \ Before

(* How far a roll is and what its last order came to.                      *)
Leg1(r) ==
    LET j == job[r] IN
    /\ j.step \notin {"handling", "asking", "waiting"}
    /\ j.opened <= j.closed /\ j.closed <= j.qty
    /\ j.step \in Live \cup {"queued"} => j.qty > 0
    /\ j.step \in Before => j.closed = 0
    /\ j.step \in After => j.closed > 0
    /\ j.step \in {"open", "opening", "restore", "restoring"} => j.opened = 0
    /\ j.step \in {"market", "marketing"} => j.opened < j.closed
    /\ j.told.n > 0 <=> j.told.st \in {"filled", "partially_filled"}
    /\ j.step = "closing" => j.told.n <= j.qty
    /\ j.step \in {"opening", "restoring"} => j.told.n <= j.closed
    /\ j.step = "marketing" => j.told.n <= j.closed - j.opened
    /\ j.step = "restore" => j.told.n = 0
    /\ j.result \in {"aborted", "duplicate"} /\ j.step = "done" => j.closed = 0
    /\ j.result = "rolled" /\ j.step = "done" => j.closed > 0

LegInv ==
    /\ \A r \in Rolls : Leg1(r)
    /\ job["notice"].step \in {"idle", "queued", "handling", "asking", "waiting", "done"}
    /\ job["close"].step \in {"idle", "queued", "done"}
    /\ \A j \in {"notice", "close"} : job[j].opened = 0 /\ job[j].closed = 0

(* Who is in the venue's line, and who may only work as its head.          *)
Holds(j) ==
    \/ job[j].step \in Live
    \/ j = "notice" /\ ~story.apart /\ job[j].step \in {"handling", "asking", "waiting"}

Stands(j) == Holds(j) \/ (job[j].step = "queued" /\ (j = "notice" => ~story.apart))

LineInv ==
    /\ IsInjective(line)
    /\ \A j \in Jobs : j \in ToSet(line) <=> Stands(j)
    /\ \A j \in Jobs : Holds(j) => Runs(j)
    /\ job["auto"].step \notin {"idle", "done"} => job["notice"].step = "waiting"

----------------------------------------------------------------------------
LEMMA Names ==
    /\ Rolls \subseteq Jobs /\ Requests \subseteq Rolls /\ {"auto", "notice", "close"} \subseteq Jobs
    /\ "auto" \in Rolls /\ "notice" \notin Rolls /\ "close" \notin Rolls
    /\ \A r \in Requests : r # "auto"
BY ContractRollAssumption DEF Rolls, Jobs

LEMMA StoryType ==
    ASSUME TypeInv PROVE story.user \in Nat /\ story.bot \in Nat /\ story.apart \in BOOLEAN
BY ContractRollAssumption DEF TypeInv, Story

(* One operation's record is written, the others stay.                     *)
Writes(r, new) == job' \in [Jobs -> Rec] /\ job'[r] = new /\ \A j \in Jobs : j # r => job'[j] = job[j]

LEMMA StepWritten ==
    ASSUME TypeInv, NEW r \in Jobs, NEW s \in Steps, Becomes(r, s)
    PROVE Writes(r, [job[r] EXCEPT !.step = s])
BY DEF TypeInv, Rec, Becomes, Writes

LEMMA EndWritten ==
    ASSUME TypeInv, NEW r \in Jobs, NEW result \in Results, job' = Ended(r, result)
    PROVE Writes(r, [job[r] EXCEPT !.step = "done", !.result = result])
<1>1. PICK new \in Rec : new = [job[r] EXCEPT !.step = "done", !.result = result]
    BY DEF TypeInv, Rec, Steps
<1>2. job' = [job EXCEPT ![r] = new]
    BY <1>1 DEF Ended, TypeInv, Rec
<1> QED
    BY <1>1, <1>2 DEF TypeInv, Writes

LEMMA IdleType == Idle \in Rec
BY DEF Idle, Rec, Steps, Told, Results

LEMMA QueueWritten ==
    ASSUME TypeInv, NEW r \in Jobs, NEW q \in Nat, job' = Queued(r, q)
    PROVE Writes(r, [Idle EXCEPT !.step = "queued", !.qty = q])
<1>1. [Idle EXCEPT !.step = "queued", !.qty = q] \in Rec
    BY DEF Idle, Rec, Steps, Told, Results
<1> QED
    BY <1>1 DEF TypeInv, Queued, Writes

LEMMA RecType ==
    ASSUME NEW j \in Rec
    PROVE /\ j.step \in Steps /\ j.qty \in Nat /\ j.closed \in Nat /\ j.opened \in Nat /\ j.result \in Results
          /\ j.told \in [st : Told, n : Nat] /\ j.told.n \in Nat /\ j.told.st \in Told
          /\ \A s \in Steps, q \in Nat :
                /\ [j EXCEPT !.step = s] \in Rec
                /\ [j EXCEPT !.step = s, !.qty = q] \in Rec
                /\ [j EXCEPT !.step = s, !.closed = q] \in Rec
                /\ [j EXCEPT !.step = s, !.opened = q] \in Rec
          /\ \A s \in Steps, x \in Results, q \in Nat :
                /\ [j EXCEPT !.step = s, !.result = x] \in Rec
                /\ [j EXCEPT !.step = s, !.result = x, !.opened = q] \in Rec
<1>1. /\ j.step \in Steps /\ j.qty \in Nat /\ j.closed \in Nat /\ j.opened \in Nat /\ j.result \in Results
      /\ j.told \in [st : Told, n : Nat]
    BY DEF Rec
<1>2. j.told.n \in Nat /\ j.told.st \in Told
    BY <1>1
<1>3. ASSUME NEW s \in Steps, NEW q \in Nat
      PROVE /\ [j EXCEPT !.step = s] \in Rec
            /\ [j EXCEPT !.step = s, !.qty = q] \in Rec
            /\ [j EXCEPT !.step = s, !.closed = q] \in Rec
            /\ [j EXCEPT !.step = s, !.opened = q] \in Rec
    BY DEF Rec
<1>4. ASSUME NEW s \in Steps, NEW x \in Results, NEW q \in Nat
      PROVE /\ [j EXCEPT !.step = s, !.result = x] \in Rec
            /\ [j EXCEPT !.step = s, !.result = x, !.opened = q] \in Rec
    BY DEF Rec
<1> QED
    BY <1>1, <1>2, <1>3, <1>4

LEMMA JobType == ASSUME TypeInv, NEW j \in Jobs PROVE job[j] \in Rec
BY DEF TypeInv

(* What placing and settling an order of q contracts can come to.          *)
LEMMA OutcomeType ==
    ASSUME NEW q \in Nat, q > 0, NEW o \in Filled(q) \cup Cancelled(q) \cup Troubles(q)
    PROVE /\ o.st \in Told /\ o.done \in 0..q /\ o.left \in 0..q
          /\ o.done > 0 <=> o.st \in {"filled", "partially_filled"}
<1>1. CASE o \in Filled(q)
    BY <1>1 DEF Filled, Outcome, Told
<1>2. CASE o \in Cancelled(q)
    <2>1. PICK d \in 0..(q - 1) : o = Outcome(IF d > 0 THEN "partially_filled" ELSE "cancelled", d, 0)
        BY <1>2 DEF Cancelled
    <2> QED
        BY <2>1 DEF Outcome, Told
<1>3. CASE o \in Troubles(q)
    <2>1. CASE o = Outcome("rejected", 0, 0)
        BY <2>1 DEF Outcome, Told
    <2>3. CASE \E d \in 1..(q - 1) : o = Outcome("partially_filled", d, q - d)
        <3>1. PICK d \in 1..(q - 1) : o = Outcome("partially_filled", d, q - d)
            BY <2>3
        <3> QED
            BY <3>1 DEF Outcome, Told
    <2>4. CASE \E st \in {"unknown", "thrown"}, n \in {0, q} : o = Outcome(st, 0, n)
        <3>1. PICK st \in {"unknown", "thrown"}, n \in {0, q} : o = Outcome(st, 0, n)
            BY <2>4
        <3> QED
            BY <3>1 DEF Outcome, Told
    <2> QED
        BY <1>3, <2>1, <2>3, <2>4 DEF Troubles
<1> QED
    BY <1>1, <1>2, <1>3

LEMMA LegIs ==
    ASSUME NEW r
    PROVE /\ job[r].step = "close" => Leg(r) = [on |-> "old", qty |-> job[r].qty, side |-> -1,
                                                 limit |-> Limit(r), next |-> "closing"]
          /\ job[r].step = "open" => Leg(r) = [on |-> "new", qty |-> job[r].closed, side |-> 1,
                                                limit |-> Limit(r), next |-> "opening"]
          /\ job[r].step = "market" => Leg(r) = [on |-> "new", qty |-> job[r].closed - job[r].opened, side |-> 1,
                                                  limit |-> FALSE, next |-> "marketing"]
          /\ job[r].step = "restore" => Leg(r) = [on |-> "old", qty |-> job[r].closed, side |-> 1,
                                                   limit |-> FALSE, next |-> "restoring"]
BY DEF Leg

LEMMA LegType ==
    ASSUME TypeInv, NEW r \in Rolls, Leg1(r), job[r].step \in {"close", "open", "market", "restore"}
    PROVE /\ Leg(r).qty \in Nat /\ Leg(r).qty > 0 /\ Leg(r).on \in Contracts /\ Leg(r).side \in {-1, 1}
          /\ Leg(r).next \in Live
<1>1. job[r].qty \in Nat /\ job[r].closed \in Nat /\ job[r].opened \in Nat
    BY Names DEF TypeInv, Rec
<1>2. CASE job[r].step = "close"
    BY <1>1, <1>2, LegIs DEF Leg1, Live, Contracts
<1>3. CASE job[r].step = "open"
    BY <1>1, <1>3, LegIs DEF Leg1, Live, Contracts, After, Before
<1>4. CASE job[r].step = "market"
    BY <1>1, <1>4, LegIs DEF Leg1, Live, Contracts
<1>5. CASE job[r].step = "restore"
    BY <1>1, <1>5, LegIs DEF Leg1, Live, Contracts, After, Before
<1> QED
    BY <1>2, <1>3, <1>4, <1>5

(* An order of a roll, as far as the proofs care.                          *)
Settles(r, st, d) ==
    /\ Writes(r, [job[r] EXCEPT !.step = Leg(r).next, !.told = [st |-> st, n |-> d]])
    /\ pos' = [pos EXCEPT ![Leg(r).on] = @ + Leg(r).side * d]
    /\ ways' = ways \cup Way("thrown", st = "thrown" /\ job[r].step # "close")
    /\ UNCHANGED <<story, stop, marker, exec, line, seen, notices, ghost>>

LEMMA PlaceDoes ==
    ASSUME TypeInv, NEW r \in Rolls, Leg1(r), Place(r)
    PROVE /\ \E st \in Told, d \in 0..Leg(r).qty :
                (d > 0 <=> st \in {"filled", "partially_filled"}) /\ Settles(r, st, d)
          /\ Runs(r) /\ job[r].step \in {"close", "open", "market", "restore"}
          /\ \A o \in rest' : o.roll \in Rolls /\ o.on \in Contracts /\ o.n \in Int \ {0}
          /\ used' \subseteq used \cup {Key(r)} /\ faults' \in 0..MaxFaults
<1>1. Runs(r) /\ job[r].step \in {"close", "open", "market", "restore"}
    BY DEF Place
<1>2. PICK l : l = Leg(r)
    OBVIOUS
<1>3. l.qty \in Nat /\ l.qty > 0 /\ l.on \in Contracts /\ l.side \in {-1, 1} /\ l.next \in Steps
    BY <1>1, <1>2, LegType DEF Steps
<1>4. PICK o \in Filled(l.qty) \cup Cancelled(l.qty) \cup Troubles(l.qty) :
        /\ NoFault \/ Fault
        /\ pos' = Plus(pos, l.on, l.side * o.done)
        /\ rest' = IF o.left = 0 THEN rest ELSE rest \cup {[roll |-> r, on |-> l.on, n |-> l.side * o.left]}
        /\ used' = used \cup Way(Key(r), job[r].step = "close" /\ o.st # "thrown")
        /\ job' = [job EXCEPT ![r].step = l.next, ![r].told = [st |-> o.st, n |-> o.done]]
        /\ Spoil(Way("thrown", o.st = "thrown" /\ job[r].step # "close"))
    BY <1>2 DEF Place
<1>5. /\ o.st \in Told /\ o.done \in 0..l.qty /\ o.left \in 0..l.qty
      /\ o.done > 0 <=> o.st \in {"filled", "partially_filled"}
    BY <1>3, <1>4, OutcomeType
<1>6. PICK told : told = [st |-> o.st, n |-> o.done]
    OBVIOUS
<1>7. told \in [st : Told, n : Nat]
    BY <1>3, <1>5, <1>6
<1>8. PICK new \in Rec : new = [job[r] EXCEPT !.step = l.next, !.told = told]
    <2>1. PICK next \in Steps : next = l.next
        BY <1>3
    <2>2. job[r] \in Rec
        BY Names DEF TypeInv
    <2>3. [job[r] EXCEPT !.step = next, !.told = told] \in Rec
        BY <1>7, <2>2 DEF Rec
    <2> QED
        BY <2>1, <2>3
<1>9. job' = [job EXCEPT ![r] = new]
    BY <1>4, <1>6, <1>8, Names DEF TypeInv, Rec
<1>10. Writes(r, new)
    BY <1>9, Names DEF TypeInv, Writes
<1>11. UNCHANGED <<story, stop, marker, exec, line, seen, notices, ghost>>
    BY DEF Place
<1>12. Settles(r, o.st, o.done)
    BY <1>2, <1>4, <1>6, <1>8, <1>10, <1>11 DEF Settles, Plus, Spoil
<1>13. faults' \in 0..MaxFaults
    BY <1>4, ContractRollAssumption DEF NoFault, Fault, TypeInv
<1>14. used' \subseteq used \cup {Key(r)}
    BY <1>4 DEF Way
<1>15. o.left # 0 => l.side * o.left \in Int \ {0}
    BY <1>3, <1>5
<1>16. \A x \in rest' : x.roll \in Rolls /\ x.on \in Contracts /\ x.n \in Int \ {0}
    BY <1>3, <1>4, <1>15 DEF TypeInv
<1> QED
    BY <1>1, <1>2, <1>5, <1>12, <1>13, <1>14, <1>16

LEMMA ClosedWritten ==
    ASSUME TypeInv, NEW r \in Rolls, Closed(r)
    PROVE Writes(r, [job[r] EXCEPT !.step = "open", !.closed = job[r].told.n])
<1>1. PICK new \in Rec : new = [job[r] EXCEPT !.step = "open", !.closed = job[r].told.n]
    BY Names, JobType, RecType DEF Steps, Live
<1>2. job' = [job EXCEPT ![r] = new]
    BY <1>1, Names DEF Closed, TypeInv, Rec
<1> QED
    BY <1>1, <1>2, Names DEF TypeInv, Writes

LEMMA CompleteWritten ==
    ASSUME TypeInv, NEW r \in Rolls, Complete(r)
    PROVE Writes(r, [job[r] EXCEPT !.step = "market", !.opened = job[r].told.n])
<1>1. PICK new \in Rec : new = [job[r] EXCEPT !.step = "market", !.opened = job[r].told.n]
    BY Names, JobType, RecType DEF Steps, Live
<1>2. job' = [job EXCEPT ![r] = new]
    BY <1>1, Names DEF Complete, TypeInv, Rec
<1> QED
    BY <1>1, <1>2, Names DEF TypeInv, Writes

LEMMA MovedType ==
    ASSUME TypeInv, NEW r \in Rolls
    PROVE /\ Opened(r) \in Nat /\ Moved(r) \in Nat /\ job[r].told.n \in Nat
          /\ job[r].qty \in Nat /\ job[r].closed \in Nat /\ job[r].opened \in Nat
<1>1. job[r] \in Rec
    BY Names, JobType
<1>2. /\ job[r].told.n \in Nat /\ job[r].qty \in Nat /\ job[r].closed \in Nat /\ job[r].opened \in Nat
    BY <1>1, RecType
<1> QED
    BY <1>2 DEF Opened, Moved

LEMMA RolledWritten ==
    ASSUME TypeInv, NEW r \in Rolls, Rolled(r)
    PROVE Writes(r, [job[r] EXCEPT !.step = "done", !.result = "rolled", !.opened = Moved(r)])
<1>1. PICK m \in Nat : m = Moved(r)
    BY MovedType
<1>2. PICK new \in Rec : new = [job[r] EXCEPT !.step = "done", !.result = "rolled", !.opened = m]
    BY Names, JobType, RecType DEF Steps, Results
<1>3. job' = [job EXCEPT ![r] = new]
    BY <1>1, <1>2, Names DEF Rolled, TypeInv, Rec
<1> QED
    BY <1>1, <1>2, <1>3, Names DEF TypeInv, Writes

LEMMA EndsWritten ==
    ASSUME TypeInv, NEW r \in Rolls
    PROVE /\ Duplicate(r)  => Writes(r, [job[r] EXCEPT !.step = "done", !.result = "duplicate"])
          /\ Throws(r)     => Writes(r, [job[r] EXCEPT !.step = "done", !.result = "failed"])
          /\ CloseFails(r) => Writes(r, [job[r] EXCEPT !.step = "done", !.result = "aborted"])
          /\ Restored(r)   => Writes(r, [job[r] EXCEPT !.step = "done", !.result = "restored"])
          /\ Incomplete(r) => Writes(r, [job[r] EXCEPT !.step = "done", !.result = "incomplete"])
<1>1. {"duplicate", "failed", "aborted", "restored", "incomplete"} \subseteq Results /\ r \in Jobs
    BY Names DEF Results
<1> QED
    BY <1>1, EndWritten DEF Duplicate, Throws, CloseFails, Restored, Incomplete

LEMMA LineageType == ASSUME TypeInv PROVE Lineage \in Nat
BY DEF TypeInv, Lineage

LEMMA HeldWritten ==
    ASSUME TypeInv, RollHeld
    PROVE Writes("notice", [job["notice"] EXCEPT !.step = "asking", !.qty = Lineage])
<1>1. PICK n \in Nat : n = Lineage
    BY LineageType
<1>2. PICK new \in Rec : new = [job["notice"] EXCEPT !.step = "asking", !.qty = n]
    BY Names, JobType, RecType DEF Steps
<1>3. job' = [job EXCEPT !["notice"] = new]
    BY <1>1, <1>2, Names DEF RollHeld, TypeInv, Rec
<1> QED
    BY <1>1, <1>2, <1>3, Names DEF TypeInv, Writes

(* The automatic roll joins the line, or there is nothing left to roll.    *)
LEMMA AutoWritten ==
    ASSUME TypeInv, AskAuto, pos["old"] > 0
    PROVE /\ job' \in [Jobs -> Rec]
          /\ job'["auto"] = [Idle EXCEPT !.step = "queued", !.qty = pos["old"]]
          /\ job'["notice"] = [job["notice"] EXCEPT !.step = "waiting"]
          /\ \A j \in Jobs : j \notin {"auto", "notice"} => job'[j] = job[j]
<1>1. pos["old"] \in Nat
    BY DEF TypeInv, Contracts
<1>2. PICK new \in Rec : new = [Idle EXCEPT !.step = "queued", !.qty = pos["old"]]
    BY <1>1 DEF Idle, Rec, Steps, Told, Results
<1>3. PICK next \in Rec : next = [job["notice"] EXCEPT !.step = "waiting"]
    BY Names DEF TypeInv, Rec, Steps
<1>4. job' = [[job EXCEPT !["auto"] = new] EXCEPT !["notice"] = next]
    <2>1. job' = [[job EXCEPT !["auto"] = new] EXCEPT !["notice"].step = "waiting"]
        BY <1>2 DEF AskAuto, Queued
    <2>2. [job EXCEPT !["auto"] = new]["notice"] = job["notice"]
        BY Names DEF TypeInv
    <2> QED
        BY <1>3, <2>1, <2>2, Names DEF TypeInv
<1> QED
    BY <1>2, <1>3, <1>4, Names DEF TypeInv

LEMMA RestartWritten ==
    ASSUME TypeInv, Restart
    PROVE /\ job' \in [Jobs -> Rec]
          /\ \A j \in Jobs : job[j].step \in {"idle", "done"} => job'[j] = job[j]
          /\ \A j \in Jobs : job[j].step \notin {"idle", "done"} =>
                IF j = "close" THEN job'[j] = Idle
                ELSE job'[j] = [job[j] EXCEPT !.step = "done", !.result = "failed"]
<1>1. \A j \in Jobs : [job[j] EXCEPT !.step = "done", !.result = "failed"] \in Rec
    <2> SUFFICES ASSUME NEW j \in Jobs PROVE [job[j] EXCEPT !.step = "done", !.result = "failed"] \in Rec
        OBVIOUS
    <2>1. job[j] \in Rec /\ "done" \in Steps /\ "failed" \in Results
        BY JobType DEF Steps, Results
    <2> QED
        BY <2>1 DEF Rec
<1>2. job' = [j \in Jobs |-> IF job[j].step \in {"idle", "done"} THEN job[j]
                              ELSE IF j = "close" THEN Idle
                              ELSE [job[j] EXCEPT !.step = "done", !.result = "failed"]]
    BY DEF Restart
<1>3. \A j \in Jobs : job'[j] \in Rec
    BY <1>1, <1>2, IdleType DEF TypeInv
<1> QED
    BY <1>2, <1>3

----------------------------------------------------------------------------
LEMMA ReducedType ==
    ASSUME TypeInv, NEW c \in Contracts, NEW n \in Nat
    PROVE /\ Reduced(c, n) \in [Contracts -> Nat]
          /\ Reduced(c, n)[c] = IF marker[c] > n THEN marker[c] - n ELSE 0
          /\ \A d \in Contracts : d # c => Reduced(c, n)[d] = marker[d]
BY DEF TypeInv, Reduced, Positive

LEMMA PlusType ==
    ASSUME TypeInv, NEW c \in Contracts, NEW n \in Nat
    PROVE /\ Plus(marker, c, n) \in [Contracts -> Nat]
          /\ Plus(marker, c, n)[c] = marker[c] + n
          /\ \A d \in Contracts : d # c => Plus(marker, c, n)[d] = marker[d]
BY DEF TypeInv, Plus

LEMMA WayType == ASSUME NEW w, NEW b PROVE Way(w, b) \subseteq {w}
BY DEF Way

LEMMA FaultType ==
    ASSUME TypeInv, Fault \/ NoFault PROVE faults' \in 0..MaxFaults
BY ContractRollAssumption DEF TypeInv, Fault, NoFault

LEMMA TailType == ASSUME TypeInv, line # << >> PROVE Tail(line) \in Seq(Jobs)
BY DEF TypeInv

LEMMA JoinType == ASSUME TypeInv, NEW r \in Jobs PROVE Append(line, r) \in Seq(Jobs)
<1>1. line \in Seq(Jobs)
    BY DEF TypeInv
<1> QED
    BY <1>1

LEMMA TypeInit == Init => TypeInv
<1> SUFFICES ASSUME Init PROVE TypeInv
    OBVIOUS
<1>1. story \in Stories /\ story.user \in Nat /\ story.bot \in Nat
    BY ContractRollAssumption DEF Init, Story
<1>2. job \in [Jobs -> Rec]
    BY IdleType DEF Init
<1>3. MaxNotices \in Nat /\ MaxFaults \in Nat
    BY ContractRollAssumption
<1>4. stop \in [Contracts -> SUBSET {"user", "bot"}]
    BY WayType DEF Init, Way
<1>5. pos \in [Contracts -> Int] /\ marker \in [Contracts -> Nat]
    BY <1>1 DEF Init
<1>6. exec \in [on : Contracts, qty : Nat] /\ exec.qty <= story.bot
    BY <1>1 DEF Init, Contracts
<1>7. line \in Seq(Jobs)
    BY DEF Init
<1>8. notices \in 0..MaxNotices /\ faults \in 0..MaxFaults
    BY <1>3 DEF Init
<1>9. sold = 0 /\ lost = 0 /\ ways = {} /\ rest = {} /\ used = {} /\ seen = FALSE
    BY DEF Init
<1> QED
    BY <1>1, <1>2, <1>4, <1>5, <1>6, <1>7, <1>8, <1>9 DEF TypeInv

(* The line loses its head, or gets one more at its end.                   *)
LEMMA HeadLeaves ==
    ASSUME TypeInv, IsInjective(line), line # << >>
    PROVE /\ Tail(line) \in Seq(Jobs) /\ IsInjective(Tail(line)) /\ Head(line) \in ToSet(line)
          /\ ToSet(Tail(line)) = ToSet(line) \ {Head(line)}
<1>1. line \in Seq(Jobs) /\ Len(line) \in Nat /\ Len(line) > 0
    BY DEF TypeInv
<1>2. /\ Tail(line) \in Seq(Jobs) /\ Len(Tail(line)) = Len(line) - 1 /\ Head(line) = line[1]
      /\ \A i \in 1..(Len(line) - 1) : Tail(line)[i] = line[i + 1]
    BY <1>1
<1>3. DOMAIN line = 1..Len(line) /\ DOMAIN Tail(line) = 1..(Len(line) - 1)
    BY <1>1, <1>2
<1>4. IsInjective(Tail(line))
    BY <1>1, <1>2, <1>3 DEF IsInjective
<1>5. Head(line) \in ToSet(line)
    BY <1>1, <1>2, <1>3 DEF ToSet
<1>6. ASSUME NEW x PROVE x \in ToSet(Tail(line)) <=> x \in ToSet(line) /\ x # Head(line)
    <2>1. ASSUME x \in ToSet(Tail(line)) PROVE x \in ToSet(line) /\ x # Head(line)
        <3>1. PICK i \in 1..(Len(line) - 1) : x = line[i + 1]
            BY <1>2, <1>3, <2>1 DEF ToSet
        <3> QED
            BY <1>1, <1>2, <1>3, <3>1 DEF ToSet, IsInjective
    <2>2. ASSUME x \in ToSet(line), x # Head(line) PROVE x \in ToSet(Tail(line))
        <3>1. PICK i \in 1..Len(line) : x = line[i]
            BY <1>3, <2>2 DEF ToSet
        <3>2. i # 1
            BY <1>2, <2>2, <3>1
        <3>3. i - 1 \in 1..(Len(line) - 1) /\ x = Tail(line)[i - 1]
            BY <1>1, <1>2, <3>1, <3>2
        <3> QED
            BY <1>3, <3>3 DEF ToSet
    <2> QED
        BY <2>1, <2>2
<1> QED
    BY <1>2, <1>4, <1>5, <1>6

LEMMA OneJoins ==
    ASSUME TypeInv, IsInjective(line), NEW r \in Jobs, r \notin ToSet(line)
    PROVE /\ Append(line, r) \in Seq(Jobs) /\ IsInjective(Append(line, r)) /\ Append(line, r) # << >>
          /\ ToSet(Append(line, r)) = ToSet(line) \cup {r}
          /\ line # << >> => Head(Append(line, r)) = Head(line)
<1>1. line \in Seq(Jobs) /\ Len(line) \in Nat
    BY DEF TypeInv
<1>2. /\ Append(line, r) \in Seq(Jobs) /\ Len(Append(line, r)) = Len(line) + 1
      /\ Append(line, r)[Len(line) + 1] = r
      /\ \A i \in 1..Len(line) : Append(line, r)[i] = line[i]
    BY <1>1
<1>3. DOMAIN line = 1..Len(line) /\ DOMAIN Append(line, r) = 1..(Len(line) + 1)
    BY <1>1, <1>2
<1>4. \A i \in 1..Len(line) : line[i] # r
    BY <1>3 DEF ToSet
<1>5. IsInjective(Append(line, r))
    BY <1>1, <1>2, <1>3, <1>4 DEF IsInjective
<1>6. ASSUME NEW x PROVE x \in ToSet(Append(line, r)) <=> x \in ToSet(line) \/ x = r
    <2>1. ASSUME x \in ToSet(line) PROVE x \in ToSet(Append(line, r))
        <3>1. PICK i \in 1..Len(line) : x = line[i]
            BY <1>3, <2>1 DEF ToSet
        <3>2. i \in 1..(Len(line) + 1) /\ x = Append(line, r)[i]
            BY <1>1, <1>2, <3>1
        <3> QED
            BY <1>3, <3>2 DEF ToSet
    <2>2. r \in ToSet(Append(line, r))
        <3>1. Len(line) + 1 \in 1..(Len(line) + 1)
            BY <1>1
        <3> QED
            BY <1>2, <1>3, <3>1 DEF ToSet
    <2>3. ASSUME x \in ToSet(Append(line, r)), x # r PROVE x \in ToSet(line)
        <3>1. PICK i \in 1..(Len(line) + 1) : x = Append(line, r)[i]
            BY <1>3, <2>3 DEF ToSet
        <3>2. i \in 1..Len(line) /\ x = line[i]
            BY <1>1, <1>2, <2>3, <3>1
        <3> QED
            BY <1>3, <3>2 DEF ToSet
    <2> QED
        BY <2>1, <2>2, <2>3
<1>7. line # << >> => Head(Append(line, r)) = Head(line)
    BY <1>1, <1>2
<1>8. Append(line, r) # << >>
    BY <1>1, <1>2
<1> QED
    BY <1>2, <1>5, <1>6, <1>7, <1>8

LEMMA LineLeft ==
    ASSUME TypeInv, LineInv, NEW r \in Jobs, Runs(r), line' = Tail(line), ~Stands(r)',
           \A j \in Jobs : j # r => (Stands(j)' <=> Stands(j)) /\ (Holds(j)' => Holds(j)),
           job'["auto"].step \notin {"idle", "done"} => job'["notice"].step = "waiting"
    PROVE LineInv'
<1>1. /\ line # << >> /\ Head(line) = r /\ IsInjective(line)
      /\ IsInjective(Tail(line)) /\ ToSet(Tail(line)) = ToSet(line) \ {r}
    BY HeadLeaves DEF Runs, LineInv
<1>2. \A j \in Jobs : j \in ToSet(line') <=> Stands(j)'
    BY <1>1 DEF LineInv
<1>3. \A j \in Jobs : ~Holds(j)'
    BY <1>1 DEF LineInv, Runs, Stands
<1> QED
    BY <1>1, <1>2, <1>3 DEF LineInv

LEMMA LineJoined ==
    ASSUME TypeInv, LineInv, NEW r \in Jobs, ~Stands(r), line' = Append(line, r), Stands(r)', ~Holds(r)',
           \A j \in Jobs : j # r => (Stands(j)' <=> Stands(j)) /\ (Holds(j)' => Holds(j)),
           job'["auto"].step \notin {"idle", "done"} => job'["notice"].step = "waiting"
    PROVE LineInv'
<1>1. r \notin ToSet(line)
    BY DEF LineInv
<1>2. /\ IsInjective(line') /\ line' # << >> /\ ToSet(line') = ToSet(line) \cup {r}
      /\ line # << >> => Head(line') = Head(line)
    BY <1>1, OneJoins DEF LineInv
<1>3. \A j \in Jobs : j \in ToSet(line') <=> Stands(j)'
    BY <1>2 DEF LineInv
<1>4. \A j \in Jobs : Holds(j)' => line' # << >> /\ Head(line') = j
    BY <1>2 DEF LineInv, Runs
<1> QED
    BY <1>2, <1>3, <1>4 DEF LineInv, Runs

LEMMA LineStayed ==
    ASSUME TypeInv, LineInv, line' = line,
           \A j \in Jobs : (Stands(j)' <=> Stands(j)) /\ (Holds(j)' => Runs(j)),
           job'["auto"].step \notin {"idle", "done"} => job'["notice"].step = "waiting"
    PROVE LineInv'
BY DEF LineInv, Runs

----------------------------------------------------------------------------
LEMMA LiveRuns == ASSUME LineInv, NEW r \in Rolls, job[r].step \in Live PROVE Runs(r)
BY Names DEF LineInv, Holds

LEMMA RollFrame ==
    ASSUME NEW r \in Rolls, Execute(r)
    PROVE UNCHANGED <<story, exec, seen, notices, sold>>
BY DEF Execute, Duplicate, Retire, Place, Throws, CloseFails, Closed, Complete, OpenRejected, Rolled,
       Restored, Incomplete, venue, book, ghost

LEMMA TypeRoll == ASSUME TypeInv, LegInv, LineInv, NEW r \in Rolls, Execute(r) PROVE TypeInv'
<1>0. r \in Jobs /\ Leg1(r)
    BY Names DEF LegInv
<1>1. job' \in [Jobs -> Rec]
    <2>1. CASE Duplicate(r) \/ Throws(r) \/ CloseFails(r) \/ Restored(r) \/ Incomplete(r)
        BY <2>1, EndsWritten DEF Writes
    <2>2. CASE Retire(r)
        BY <1>0, <2>2, StepWritten DEF Retire, Writes, Steps, Live
    <2>3. CASE OpenRejected(r)
        BY <1>0, <2>3, StepWritten DEF OpenRejected, Writes, Steps, Live
    <2>4. CASE Place(r)
        BY <1>0, <2>4, PlaceDoes DEF Settles, Writes
    <2>5. CASE Closed(r) \/ Complete(r) \/ Rolled(r)
        BY <2>5, ClosedWritten, CompleteWritten, RolledWritten DEF Writes
    <2> QED
        BY <2>1, <2>2, <2>3, <2>4, <2>5 DEF Execute
<1>2. line' \in Seq(Jobs)
    <2>1. CASE UNCHANGED line
        BY <2>1 DEF TypeInv
    <2>2. CASE Runs(r) /\ Free
        BY <2>2, TailType DEF Free, Runs
    <2>3. CASE job[r].step \in Live /\ Free
        BY <2>2, <2>3, LiveRuns
    <2> QED
        BY <2>1, <2>2, <2>3 DEF Execute, Duplicate, Retire, Place, Throws, CloseFails, Closed, Complete,
            OpenRejected, Rolled, Restored, Incomplete, Live
<1>3. /\ pos' \in [Contracts -> Int]
      /\ \A o \in rest' : o.roll \in Rolls /\ o.on \in Contracts /\ o.n \in Int \ {0}
      /\ used' \subseteq {Key(x) : x \in Rolls} \cup Requests
      /\ faults' \in 0..MaxFaults
    <2>1. CASE Place(r)
        <3>1. PICK st \in Told, d \in 0..Leg(r).qty : Settles(r, st, d)
            BY <1>0, <2>1, PlaceDoes
        <3>2. PICK c \in Contracts, s \in {-1, 1}, q \in Nat : c = Leg(r).on /\ s = Leg(r).side /\ q = Leg(r).qty
            BY <1>0, <2>1, LegType DEF Place
        <3>3. pos' = [pos EXCEPT ![c] = @ + s * d] /\ d \in Nat
            BY <3>1, <3>2 DEF Settles
        <3>4. s * d \in Int
            BY <3>2, <3>3
        <3>5. pos' \in [Contracts -> Int]
            BY <3>3, <3>4 DEF TypeInv
        <3> QED
            BY <1>0, <2>1, <3>5, PlaceDoes DEF TypeInv
    <2>2. CASE UNCHANGED <<pos, rest, used, faults>>
        BY <2>2 DEF TypeInv
    <2> QED
        BY <2>1, <2>2 DEF Execute, Duplicate, Retire, Throws, CloseFails, Closed, Complete,
            OpenRejected, Rolled, Restored, Incomplete, venue, book
<1>4. stop' \in [Contracts -> SUBSET {"user", "bot"}]
    <2>1. CASE Retire(r)
        BY <2>1 DEF Retire, TypeInv
    <2>2. CASE UNCHANGED stop
        BY <2>2 DEF TypeInv
    <2> QED
        BY <2>1, <2>2 DEF Execute, Duplicate, Place, Throws, CloseFails, Closed, Complete,
            OpenRejected, Rolled, Restored, Incomplete, venue
<1>5. marker' \in [Contracts -> Nat]
    <2>1. CASE Closed(r)
        BY <2>1, ReducedType, MovedType DEF Closed, Contracts
    <2>2. CASE Rolled(r)
        BY <2>2, PlusType, MovedType DEF Rolled, Contracts
    <2>3. CASE Restored(r)
        BY <2>3, PlusType, MovedType DEF Restored, Contracts
    <2>4. CASE UNCHANGED marker
        BY <2>4 DEF TypeInv
    <2> QED
        BY <2>1, <2>2, <2>3, <2>4 DEF Execute, Duplicate, Retire, Place, Throws, CloseFails, Complete,
            OpenRejected, Incomplete, book
<1>6. lost' \in Nat
    <2>1. CASE Incomplete(r)
        <3>1. lost \in Nat
            BY DEF TypeInv
        <3> QED
            BY <2>1, <3>1, MovedType DEF Incomplete
    <2>2. CASE UNCHANGED lost
        BY <2>2 DEF TypeInv
    <2> QED
        BY <2>1, <2>2 DEF Execute, Duplicate, Retire, Place, Throws, CloseFails, Closed, Complete,
            OpenRejected, Rolled, Restored, ghost
<1>7. ways' \subseteq Ways
    <2>1. CASE Retire(r)
        BY <2>1 DEF Retire, Spoil, Way, TypeInv, Ways
    <2>2. CASE Place(r)
        BY <1>0, <2>2, PlaceDoes DEF Settles, Way, TypeInv, Ways
    <2>3. CASE Rolled(r) \/ Restored(r)
        BY <2>3 DEF Rolled, Restored, Spoil, Way, TypeInv, Ways
    <2>4. CASE UNCHANGED ways
        BY <2>4 DEF TypeInv
    <2> QED
        BY <2>1, <2>2, <2>3, <2>4 DEF Execute, Duplicate, Throws, CloseFails, Closed, Complete,
            OpenRejected, Incomplete
<1>8. UNCHANGED <<story, exec, seen, notices, sold>>
    BY RollFrame
<1>9. {Key(x) : x \in Rolls}' = {Key(x) : x \in Rolls}
    BY <1>8 DEF Key
<1> QED
    BY <1>1, <1>2, <1>3, <1>4, <1>5, <1>6, <1>7, <1>8, <1>9 DEF TypeInv

LEMMA LeaveType ==
    ASSUME TypeInv, LineInv, job["notice"].step \in {"handling", "asking", "waiting"}, LeaveLine
    PROVE line' \in Seq(Jobs)
BY Names, TailType DEF LeaveLine, Free, LineInv, Holds, Runs, TypeInv

LEMMA ResultIn == ASSUME TypeInv, NEW j \in Jobs PROVE job[j].result \in Results
BY JobType, RecType

LEMMA TypeNotice == ASSUME TypeInv, LegInv, LineInv, Announce \/ SeenLapses \/ Notice PROVE TypeInv'
<1>0. {"notice", "auto"} \subseteq Jobs
    BY Names
<1>1. story' = story
    BY DEF Announce, SeenLapses, Notice, TakeNotice, HandleNotice, RollHeld, AskAuto, NotMoved, BoughtBack,
        Fails, CarryOver, Answered
<1>2. job' \in [Jobs -> Rec]
    <2>1. CASE Announce \/ TakeNotice
        BY <1>0, <2>1, StepWritten DEF Announce, TakeNotice, Writes, Steps
    <2>2. CASE SeenLapses
        BY <2>2 DEF SeenLapses, TypeInv
    <2>3. ASSUME NEW result \in {"not_held", "reported"}, HandleNotice(result) PROVE job' \in [Jobs -> Rec]
        BY <1>0, <2>3, EndWritten DEF HandleNotice, Writes, Results
    <2>4. CASE RollHeld
        BY <2>4, HeldWritten DEF Writes
    <2>5. CASE AskAuto
        <3>1. CASE pos["old"] > 0
            BY <2>5, <3>1, AutoWritten
        <3>2. CASE ~(pos["old"] > 0)
            BY <1>0, <2>5, <3>2, EndWritten DEF AskAuto, Writes, Results
        <3> QED
            BY <3>1, <3>2
    <2>6. CASE NotMoved \/ BoughtBack \/ Fails \/ CarryOver
        <3>1. job' = Ended("notice", job["auto"].result)
            BY <2>6 DEF NotMoved, BoughtBack, Fails, CarryOver, Answered
        <3> QED
            BY <1>0, <3>1, ResultIn, EndWritten DEF Writes
    <2> QED
        BY <2>1, <2>2, <2>3, <2>4, <2>5, <2>6 DEF Notice
<1>3. line' \in Seq(Jobs)
    <2>1. CASE UNCHANGED line
        BY <2>1 DEF TypeInv
    <2>2. CASE line' = Append(line, "notice") \/ line' = Append(line, "auto")
        BY <1>0, <2>2, JoinType
    <2>3. CASE job["notice"].step \in {"handling", "asking", "waiting"} /\ LeaveLine
        BY <2>3, LeaveType
    <2>4. CASE TakeNotice /\ LeaveLine
        BY <2>4, TailType DEF TakeNotice, LeaveLine, Free, Runs, TypeInv
    <2> QED
        BY <2>1, <2>2, <2>3, <2>4 DEF Announce, SeenLapses, Notice, TakeNotice, HandleNotice, RollHeld, AskAuto,
            NotMoved, BoughtBack, Fails, CarryOver, Answered
<1>4. UNCHANGED <<pos, rest, used, ghost>>
    BY DEF Announce, SeenLapses, Notice, TakeNotice, HandleNotice, RollHeld, AskAuto, NotMoved, BoughtBack,
        Fails, CarryOver, Answered, venue, book
<1>5. stop' \in [Contracts -> SUBSET {"user", "bot"}] /\ faults' \in 0..MaxFaults /\ ways' \subseteq Ways
    <2>1. ASSUME NEW c \in Contracts, NEW ws \in SUBSET Ways, Rearm(c, ws)
          PROVE stop' \in [Contracts -> SUBSET {"user", "bot"}] /\ faults' \in 0..MaxFaults /\ ways' \subseteq Ways
        <3>1. stop' = stop \/ stop' = [stop EXCEPT ![c] = @ \cup {"bot"}]
            BY <2>1 DEF Rearm
        <3>2. Fault \/ NoFault
            BY <2>1 DEF Rearm
        <3>3. ways' \subseteq Ways
            BY <2>1 DEF Rearm, Spoil, Way, TypeInv, Ways
        <3>4. stop \in [Contracts -> SUBSET {"user", "bot"}]
            BY DEF TypeInv
        <3>5. stop' \in [Contracts -> SUBSET {"user", "bot"}]
            BY <3>1, <3>4
        <3>6. faults' \in 0..MaxFaults
            BY <3>2, FaultType
        <3> QED
            BY <3>3, <3>5, <3>6
    <2>2. CASE NotMoved \/ BoughtBack
        BY <2>1, <2>2 DEF NotMoved, BoughtBack, Contracts, Ways
    <2>3. CASE CarryOver
        <3>1. Way("mixed", job["auto"].qty > Entries) \cup Way("split", job["auto"].closed < Entries) \subseteq Ways
            BY DEF Way, Ways
        <3> QED
            BY <2>1, <2>3, <3>1 DEF CarryOver, Contracts
    <2>4. CASE RollHeld
        BY <2>4 DEF RollHeld, TypeInv
    <2>5. CASE AskAuto \/ Fails
        BY <2>5 DEF AskAuto, Fails, Answered, venue, Spoil, Way, TypeInv, Ways
    <2>6. CASE Announce \/ SeenLapses \/ TakeNotice \/ \E result \in {"not_held", "reported"} : HandleNotice(result)
        BY <2>6 DEF Announce, SeenLapses, TakeNotice, HandleNotice, venue, TypeInv
    <2> QED
        BY <2>2, <2>3, <2>4, <2>5, <2>6 DEF Notice
<1>6. marker' \in [Contracts -> Nat] /\ exec' \in [on : Contracts, qty : Nat] /\ exec'.qty <= story.bot
    <2>1. CASE CarryOver
        <3>1. marker' = marker \/ marker' = Reduced("new", job["auto"].opened)
            BY <2>1 DEF CarryOver
        <3>2. exec' = exec \/ exec' = [exec EXCEPT !.on = "new"]
            BY <2>1 DEF CarryOver
        <3> QED
            BY <3>1, <3>2, MovedType, ReducedType, Names DEF TypeInv, Contracts
    <2>2. CASE UNCHANGED <<marker, exec>>
        BY <2>2 DEF TypeInv
    <2> QED
        BY <2>1, <2>2 DEF Announce, SeenLapses, Notice, TakeNotice, HandleNotice, RollHeld, AskAuto, NotMoved,
            BoughtBack, Fails, book
<1>7. seen' \in BOOLEAN /\ notices' \in 0..MaxNotices
    <2>1. CASE Announce
        BY <2>1, ContractRollAssumption DEF Announce, TypeInv
    <2>2. CASE TakeNotice \/ SeenLapses
        BY <2>2 DEF TakeNotice, SeenLapses, TypeInv
    <2>3. CASE UNCHANGED <<seen, notices>>
        BY <2>3 DEF TypeInv
    <2> QED
        BY <2>1, <2>2, <2>3 DEF Notice, HandleNotice, RollHeld, AskAuto, NotMoved, BoughtBack, Fails, CarryOver, Answered
<1>8. {Key(x) : x \in Rolls}' = {Key(x) : x \in Rolls}
    BY <1>1 DEF Key
<1> QED
    BY <1>1, <1>2, <1>3, <1>4, <1>5, <1>6, <1>7, <1>8 DEF TypeInv, ghost

(* What the bot's close comes to: it sells n contracts.                    *)
CloseSells(n) ==
    /\ n <= exec.qty /\ n <= Positive(pos[exec.on])
    /\ n = exec.qty \/ n = Positive(pos[exec.on])
    /\ pos' = Plus(pos, exec.on, -n)
    /\ sold' = sold + n
    /\ exec' = [exec EXCEPT !.qty = exec'.qty]
    /\ exec'.qty = IF Positive(pos[exec.on]) = 0 THEN 0 ELSE exec.qty - n
    /\ stop' = IF exec'.qty = 0 THEN [stop EXCEPT ![exec.on] = @ \ {"bot"}] ELSE stop

LEMMA CloseDoes == ASSUME TypeInv, ClosePosition PROVE \E n \in Nat : CloseSells(n)
<1>1. exec.on \in Contracts /\ exec.qty \in Nat /\ exec \in [on : Contracts, qty : Nat]
    BY DEF TypeInv
<1>2. PICK held \in Nat : held = Positive(pos[exec.on])
    BY <1>1 DEF TypeInv, Positive
<1>3. PICK n \in Nat : n = IF exec.qty <= held THEN exec.qty ELSE held
    BY <1>1
<1>4. /\ pos' = Plus(pos, exec.on, -n) /\ sold' = sold + n
      /\ exec' = [exec EXCEPT !.qty = IF held = 0 THEN 0 ELSE @ - n]
      /\ stop' = IF n = exec.qty \/ held = 0 THEN [stop EXCEPT ![exec.on] = @ \ {"bot"}] ELSE stop
    BY <1>2, <1>3 DEF ClosePosition
<1>5. PICK q \in Nat : q = IF held = 0 THEN 0 ELSE exec.qty - n
    BY <1>1, <1>3
<1>6. exec' = [exec EXCEPT !.qty = q] /\ exec'.qty = q
    BY <1>1, <1>4, <1>5
<1>7. q = 0 <=> n = exec.qty \/ held = 0
    BY <1>1, <1>3, <1>5
<1> QED
    BY <1>1, <1>2, <1>3, <1>4, <1>5, <1>6, <1>7 DEF CloseSells

LEMMA TypeRest ==
    ASSUME TypeInv, LegInv, LineInv,
           \/ \E r \in Requests : Ask(r)
           \/ CloseArrives \/ ClosePosition \/ Restart
           \/ \E o \in rest : RestFills(o)
    PROVE TypeInv'
<1>1. ASSUME NEW r \in Requests, Ask(r) PROVE TypeInv'
    <2>1. r \in Jobs /\ pos["old"] \in Nat
        BY <1>1, Names DEF Ask, TypeInv, Contracts
    <2>2. job' \in [Jobs -> Rec]
        BY <1>1, <2>1, QueueWritten DEF Ask, Writes
    <2>3. line' \in Seq(Jobs)
        BY <1>1, <2>1, JoinType DEF Ask
    <2> QED
        BY <1>1, <2>2, <2>3 DEF Ask, venue, book, ghost, TypeInv, Key
<1>2. CASE CloseArrives
    <2>1. job' \in [Jobs -> Rec]
        BY <1>2, Names, StepWritten DEF CloseArrives, Writes, Steps
    <2>2. line' \in Seq(Jobs)
        BY <1>2, Names, JoinType DEF CloseArrives
    <2> QED
        BY <1>2, <2>1, <2>2 DEF CloseArrives, venue, book, ghost, TypeInv, Key
<1>3. CASE ClosePosition
    <2>1. job' \in [Jobs -> Rec]
        BY <1>3, Names, StepWritten DEF ClosePosition, Writes, Steps
    <2>2. line' \in Seq(Jobs)
        BY <1>3, TailType DEF ClosePosition, Runs, Free
    <2>3. PICK n \in Nat : CloseSells(n)
        BY <1>3, CloseDoes
    <2>4. exec.on \in Contracts /\ exec.qty \in Nat /\ n <= exec.qty /\ exec.qty <= story.bot /\ story.bot \in Nat
        BY <2>3, StoryType DEF TypeInv, CloseSells
    <2>5. pos' \in [Contracts -> Int]
        BY <2>3, <2>4 DEF TypeInv, CloseSells, Plus
    <2>6. exec'.on = exec.on /\ exec'.qty \in Nat /\ exec'.qty <= exec.qty /\ exec' \in [on : Contracts, qty : Nat]
        <3>1. exec' = [exec EXCEPT !.qty = exec'.qty] /\ exec'.qty \in {0, exec.qty - n}
            BY <2>3 DEF CloseSells
        <3>2. PICK q \in Nat : q <= exec.qty /\ exec' = [exec EXCEPT !.qty = q]
            BY <2>3, <2>4, <3>1
        <3>3. exec \in [on : Contracts, qty : Nat]
            BY DEF TypeInv
        <3> QED
            BY <2>4, <3>2, <3>3
    <2>7. stop' \in [Contracts -> SUBSET {"user", "bot"}]
        BY <2>3, <2>4 DEF TypeInv, CloseSells
    <2>8. exec'.qty <= story.bot
        BY <2>4, <2>6
    <2>9. sold' \in Nat
        BY <2>3 DEF TypeInv, CloseSells
    <2>10. UNCHANGED <<story, rest, marker, used, seen, notices, faults, lost, ways>>
        BY <1>3 DEF ClosePosition
    <2> QED
        BY <2>1, <2>2, <2>5, <2>6, <2>7, <2>8, <2>9, <2>10 DEF TypeInv, Key
<1>4. CASE Restart
    <2>1. job' \in [Jobs -> Rec] /\ faults' \in 0..MaxFaults /\ line' = << >> /\ seen' = FALSE
        BY <1>4, RestartWritten, FaultType DEF Restart
    <2>2. ways' \subseteq Ways
        BY <1>4 DEF Restart, Spoil, Way, TypeInv, Ways
    <2>3. UNCHANGED <<story, pos, rest, stop, marker, exec, used, notices, sold, lost>>
        BY <1>4 DEF Restart, venue, book, ghost
    <2>4. line' \in Seq(Jobs)
        <3>1. line' = << >>
            BY <2>1
        <3> QED
            BY <3>1
    <2>5. seen' \in BOOLEAN
        BY <2>1
    <2> QED
        BY <2>1, <2>2, <2>3, <2>4, <2>5 DEF TypeInv, Key
<1>5. ASSUME NEW o \in rest, RestFills(o) PROVE TypeInv'
    <2>1. o.on \in Contracts /\ o.n \in Int
        BY DEF TypeInv
    <2>2. pos' \in [Contracts -> Int]
        <3>1. pos' = pos \/ pos' = [pos EXCEPT ![o.on] = @ + o.n]
            BY <1>5 DEF RestFills, Plus
        <3>2. pos \in [Contracts -> Int]
            BY DEF TypeInv
        <3> QED
            BY <2>1, <3>1, <3>2
    <2>3. ways' \subseteq Ways
        BY <1>5 DEF RestFills, Spoil, TypeInv, Ways
    <2>4. rest' = rest \ {o} /\ UNCHANGED <<story, stop, marker, exec, used, line, job, seen, notices, faults, sold, lost>>
        BY <1>5 DEF RestFills, book, ghost
    <2> QED
        BY <2>2, <2>3, <2>4 DEF TypeInv, Key
<1> QED
    BY <1>1, <1>2, <1>3, <1>4, <1>5

LEMMA TypeStep == ASSUME TypeInv, LegInv, LineInv, [Next]_vars PROVE TypeInv'
<1>1. CASE UNCHANGED vars
    BY <1>1 DEF vars, venue, book, ghost, TypeInv, Key
<1> QED
    BY <1>1, Names, TypeRoll, TypeNotice, TypeRest DEF Next

----------------------------------------------------------------------------
(* Every step keeps each roll's quantities in order.                       *)
LEMMA LegKept ==
    ASSUME LegInv, NEW r \in Rolls, \A j \in Jobs : j # r => job'[j] = job[j], Leg1(r)'
    PROVE LegInv'
<1>1. r \notin {"notice", "close"} /\ Rolls \subseteq Jobs /\ {"notice", "close"} \subseteq Jobs
    BY Names
<1>2. ASSUME NEW x \in Rolls PROVE Leg1(x)'
    <2>1. CASE x = r
        BY <2>1
    <2>2. CASE x # r
        <3>1. job'[x] = job[x] /\ Leg1(x)
            BY <1>1, <2>2 DEF LegInv
        <3> QED
            BY <3>1 DEF Leg1
    <2> QED
        BY <2>1, <2>2
<1>3. job'["notice"] = job["notice"] /\ job'["close"] = job["close"]
    BY <1>1
<1> QED
    BY <1>2, <1>3 DEF LegInv

LEMMA NoticeKept ==
    ASSUME LegInv, \A j \in Jobs : j # "notice" => job'[j] = job[j],
           job'["notice"].step \in {"idle", "queued", "handling", "asking", "waiting", "done"},
           job'["notice"].opened = 0, job'["notice"].closed = 0
    PROVE LegInv'
<1>1. Rolls \subseteq Jobs /\ "notice" \notin Rolls /\ "close" \in Jobs
    BY Names
<1>2. \A x \in Rolls : job'[x] = job[x]
    BY <1>1
<1>3. \A x \in Rolls : Leg1(x)'
    BY <1>2 DEF LegInv, Leg1
<1> QED
    BY <1>1, <1>3 DEF LegInv

LEMMA LegRoll == ASSUME TypeInv, LegInv, NEW r \in Rolls, Execute(r) PROVE LegInv'
<1>0. r \in Jobs /\ Leg1(r) /\ job[r] \in Rec
    BY Names, JobType DEF LegInv
<1>t. /\ job[r].qty \in Nat /\ job[r].closed \in Nat /\ job[r].opened \in Nat /\ job[r].told.n \in Nat
      /\ job[r].told.st \in Told
    BY <1>0, RecType
<1>1. CASE Duplicate(r)
    <2>1. Writes(r, [job[r] EXCEPT !.step = "done", !.result = "duplicate"]) /\ job[r].step = "queued"
        BY <1>1, EndsWritten DEF Duplicate
    <2>2. Leg1(r)'
        BY <1>0, <2>1 DEF Writes, Leg1, Rec, Live, Before, After
    <2> QED
        BY <2>1, <2>2, LegKept DEF Writes
<1>2. CASE Throws(r)
    <2>1. /\ Writes(r, [job[r] EXCEPT !.step = "done", !.result = "failed"])
          /\ job[r].step \in {"closing", "opening", "marketing", "restoring"}
        BY <1>2, EndsWritten DEF Throws
    <2>2. Leg1(r)'
        BY <1>0, <2>1 DEF Writes, Leg1, Rec, Live, Before, After
    <2> QED
        BY <2>1, <2>2, LegKept DEF Writes
<1>3. CASE CloseFails(r)
    <2>1. Writes(r, [job[r] EXCEPT !.step = "done", !.result = "aborted"]) /\ job[r].step = "closing"
        BY <1>3, EndsWritten DEF CloseFails
    <2>2. Leg1(r)'
        BY <1>0, <2>1 DEF Writes, Leg1, Rec, Live, Before, After
    <2> QED
        BY <2>1, <2>2, LegKept DEF Writes
<1>4. CASE Restored(r) \/ Incomplete(r)
    <2>1. PICK x \in {"restored", "incomplete"} :
            Writes(r, [job[r] EXCEPT !.step = "done", !.result = x]) /\ job[r].step = "restoring"
        BY <1>4, EndsWritten DEF Restored, Incomplete
    <2>2. Leg1(r)'
        BY <1>0, <2>1 DEF Writes, Leg1, Rec, Live, Before, After
    <2> QED
        BY <2>1, <2>2, LegKept DEF Writes
<1>5. CASE Retire(r)
    <2>1. Writes(r, [job[r] EXCEPT !.step = "close"]) /\ job[r].step = "queued"
        BY <1>0, <1>5, StepWritten DEF Retire, Steps, Live
    <2>2. Leg1(r)'
        BY <1>0, <2>1 DEF Writes, Leg1, Rec, Live, Before, After
    <2> QED
        BY <2>1, <2>2, LegKept DEF Writes
<1>6. CASE OpenRejected(r)
    <2>1. /\ Writes(r, [job[r] EXCEPT !.step = "restore"]) /\ job[r].step \in {"opening", "marketing"}
          /\ job[r].told.st = "rejected" /\ Opened(r) = 0
        BY <1>0, <1>6, StepWritten DEF OpenRejected, Steps, Live
    <2>2. job[r].told.n = 0 /\ (job[r].step = "marketing" => job[r].opened = 0)
        BY <1>0, <1>t, <2>1 DEF Leg1, Opened
    <2>3. Leg1(r)'
        BY <1>0, <2>1, <2>2 DEF Writes, Leg1, Rec, Live, Before, After
    <2> QED
        BY <2>1, <2>3, LegKept DEF Writes
<1>7. CASE Place(r)
    <2>1. PICK st \in Told, d \in 0..Leg(r).qty : (d > 0 <=> st \in {"filled", "partially_filled"}) /\ Settles(r, st, d)
        BY <1>0, <1>7, PlaceDoes
    <2>2. PICK told : told = [st |-> st, n |-> d]
        OBVIOUS
    <2>3. PICK next \in Live : next = Leg(r).next
        BY <1>0, <1>7, LegType DEF Place
    <2>4. Writes(r, [job[r] EXCEPT !.step = next, !.told = told])
        BY <2>1, <2>2, <2>3 DEF Settles
    <2>5. /\ job'[r].step = next /\ job'[r].told = told /\ job'[r].qty = job[r].qty /\ job'[r].closed = job[r].closed
          /\ job'[r].opened = job[r].opened
        BY <1>0, <2>4 DEF Writes, Rec
    <2>6. told.n = d /\ told.st = st /\ d \in Nat /\ Leg(r).qty \in Nat /\ d <= Leg(r).qty
        BY <1>0, <1>7, <2>1, <2>2, LegType DEF Place
    <2>7. CASE job[r].step = "close"
        <3>1. next = "closing" /\ Leg(r).qty = job[r].qty
            BY <2>3, <2>7, LegIs
        <3>2. Leg1(r)'
            BY <1>0, <1>t, <2>1, <2>5, <2>6, <2>7, <3>1 DEF Leg1, Live, Before, After
        <3> QED
            BY <2>4, <3>2, LegKept DEF Writes
    <2>8. CASE job[r].step = "open"
        <3>1. next = "opening" /\ Leg(r).qty = job[r].closed
            BY <2>3, <2>8, LegIs
        <3>2. Leg1(r)'
            BY <1>0, <1>t, <2>1, <2>5, <2>6, <2>8, <3>1 DEF Leg1, Live, Before, After
        <3> QED
            BY <2>4, <3>2, LegKept DEF Writes
    <2>9. CASE job[r].step = "market"
        <3>1. next = "marketing" /\ Leg(r).qty = job[r].closed - job[r].opened
            BY <2>3, <2>9, LegIs
        <3>2. Leg1(r)'
            BY <1>0, <1>t, <2>1, <2>5, <2>6, <2>9, <3>1 DEF Leg1, Live, Before, After
        <3> QED
            BY <2>4, <3>2, LegKept DEF Writes
    <2>10. CASE job[r].step = "restore"
        <3>1. next = "restoring" /\ Leg(r).qty = job[r].closed
            BY <2>3, <2>10, LegIs
        <3>2. Leg1(r)'
            BY <1>0, <1>t, <2>1, <2>5, <2>6, <2>10, <3>1 DEF Leg1, Live, Before, After
        <3> QED
            BY <2>4, <3>2, LegKept DEF Writes
    <2> QED
        BY <1>7, <2>7, <2>8, <2>9, <2>10 DEF Place
<1>8. CASE Closed(r)
    <2>1. /\ Writes(r, [job[r] EXCEPT !.step = "open", !.closed = job[r].told.n])
          /\ job[r].step = "closing" /\ Got(r)
        BY <1>8, ClosedWritten DEF Closed
    <2>2. /\ job'[r].step = "open" /\ job'[r].told = job[r].told /\ job'[r].qty = job[r].qty
          /\ job'[r].closed = job[r].told.n /\ job'[r].opened = job[r].opened
        BY <1>0, <2>1 DEF Writes, Rec
    <2>3. Leg1(r)'
        BY <1>0, <1>t, <2>1, <2>2 DEF Leg1, Live, Before, After, Got
    <2> QED
        BY <2>1, <2>3, LegKept DEF Writes
<1>9. CASE Complete(r)
    <2>1. /\ Writes(r, [job[r] EXCEPT !.step = "market", !.opened = job[r].told.n])
          /\ job[r].step = "opening" /\ job[r].told.n < job[r].closed
        BY <1>9, CompleteWritten DEF Complete
    <2>2. /\ job'[r].step = "market" /\ job'[r].told = job[r].told /\ job'[r].qty = job[r].qty
          /\ job'[r].opened = job[r].told.n /\ job'[r].closed = job[r].closed
        BY <1>0, <2>1 DEF Writes, Rec
    <2>3. Leg1(r)'
        BY <1>0, <1>t, <2>1, <2>2 DEF Leg1, Live, Before, After
    <2> QED
        BY <2>1, <2>3, LegKept DEF Writes
<1>10. CASE Rolled(r)
    <2>1. /\ Writes(r, [job[r] EXCEPT !.step = "done", !.result = "rolled", !.opened = Moved(r)])
          /\ job[r].step \in {"opening", "marketing"}
        BY <1>10, RolledWritten DEF Rolled
    <2>2. /\ job'[r].step = "done" /\ job'[r].told = job[r].told /\ job'[r].qty = job[r].qty
          /\ job'[r].opened = Moved(r) /\ job'[r].closed = job[r].closed /\ job'[r].result = "rolled"
        BY <1>0, <2>1 DEF Writes, Rec
    <2>3. Moved(r) <= job[r].closed /\ job[r].closed > 0
        BY <1>0, <1>t, <2>1 DEF Moved, Opened, Leg1, After, Before, Live
    <2>4. Leg1(r)'
        BY <1>0, <1>t, <2>1, <2>2, <2>3, MovedType DEF Leg1, Live, Before, After
    <2> QED
        BY <2>1, <2>4, LegKept DEF Writes
<1> QED
    BY <1>1, <1>2, <1>3, <1>4, <1>5, <1>6, <1>7, <1>8, <1>9, <1>10 DEF Execute

LEMMA NoticeIs == ASSUME TypeInv PROVE job["notice"] \in Rec /\ job["notice"].step \in Steps
BY Names, JobType, RecType

LEMMA LegNotice == ASSUME TypeInv, LegInv, LineInv, Announce \/ SeenLapses \/ Notice PROVE LegInv'
<1>0. {"notice", "auto"} \subseteq Jobs /\ job["notice"] \in Rec /\ "auto" \in Rolls
    BY Names, JobType
<1>1. CASE Announce \/ TakeNotice
    <2>1. PICK s \in {"queued", "done", "handling"} : Becomes("notice", s)
        BY <1>1 DEF Announce, TakeNotice
    <2>2. Writes("notice", [job["notice"] EXCEPT !.step = s])
        BY <1>0, <2>1, StepWritten DEF Steps
    <2> QED
        BY <1>0, <2>2, NoticeKept DEF Writes, Rec, LegInv
<1>2. CASE SeenLapses
    BY <1>2 DEF SeenLapses, LegInv, Leg1
<1>3. ASSUME NEW result \in Results, job' = Ended("notice", result) PROVE LegInv'
    <2>1. Writes("notice", [job["notice"] EXCEPT !.step = "done", !.result = result])
        BY <1>0, <1>3, EndWritten
    <2> QED
        BY <1>0, <2>1, NoticeKept DEF Writes, Rec, LegInv
<1>4. CASE RollHeld
    <2>1. Writes("notice", [job["notice"] EXCEPT !.step = "asking", !.qty = Lineage])
        BY <1>4, HeldWritten
    <2> QED
        BY <1>0, <2>1, NoticeKept DEF Writes, Rec, LegInv
<1>5. CASE AskAuto
    <2>1. CASE pos["old"] > 0
        <3>1. /\ job'["auto"] = [Idle EXCEPT !.step = "queued", !.qty = pos["old"]]
              /\ job'["notice"] = [job["notice"] EXCEPT !.step = "waiting"]
              /\ \A j \in Jobs : j \notin {"auto", "notice"} => job'[j] = job[j]
            BY <1>5, <2>1, AutoWritten
        <3>2. pos["old"] \in Nat
            BY <2>1 DEF TypeInv, Contracts
        <3>3. /\ job'["auto"].step = "queued" /\ job'["auto"].qty = pos["old"] /\ job'["auto"].closed = 0
              /\ job'["auto"].opened = 0 /\ job'["auto"].told = [st |-> "none", n |-> 0]
            BY <3>1 DEF Idle
        <3>4. job'["auto"].told.n = 0 /\ job'["auto"].told.st = "none"
            BY <3>3
        <3>5. Leg1("auto")'
            BY <2>1, <3>2, <3>3, <3>4 DEF Leg1, Live, Before, After
        <3>6. \A x \in Rolls : x # "auto" => job'[x] = job[x]
            BY <3>1, Names
        <3>7. \A x \in Rolls : x # "auto" => Leg1(x)'
            BY <3>6 DEF LegInv, Leg1
        <3>8. job'["close"] = job["close"]
            BY <3>1, Names, ContractRollAssumption DEF Jobs
        <3>9. job'["notice"].step = "waiting" /\ job'["notice"].opened = 0 /\ job'["notice"].closed = 0
            BY <1>0, <3>1 DEF Rec, LegInv
        <3> QED
            BY <3>5, <3>7, <3>8, <3>9 DEF LegInv
    <2>2. CASE ~(pos["old"] > 0)
        BY <1>3, <1>5, <2>2 DEF AskAuto, Results
    <2> QED
        BY <2>1, <2>2
<1>6. CASE \E result \in {"not_held", "reported"} : HandleNotice(result)
    BY <1>3, <1>6 DEF HandleNotice, Results
<1>7. CASE NotMoved \/ BoughtBack \/ Fails \/ CarryOver
    BY <1>0, <1>3, <1>7, ResultIn DEF NotMoved, BoughtBack, Fails, CarryOver, Answered
<1> QED
    BY <1>1, <1>2, <1>4, <1>5, <1>6, <1>7 DEF Notice

LEMMA LegStep == ASSUME TypeInv, LegInv, LineInv, [Next]_vars PROVE LegInv'
<1>0. Rolls \subseteq Jobs /\ Requests \subseteq Rolls /\ {"notice", "close"} \subseteq Jobs /\ {"notice", "close"} \cap Rolls = {}
    BY Names
<1>1. CASE UNCHANGED job
    BY <1>1 DEF LegInv, Leg1
<1>2. ASSUME NEW r \in Requests, Ask(r) PROVE LegInv'
    <2>1. pos["old"] \in Nat /\ pos["old"] > 0
        BY <1>2 DEF Ask, TypeInv, Contracts
    <2>2. Writes(r, [Idle EXCEPT !.step = "queued", !.qty = pos["old"]])
        BY <1>0, <1>2, <2>1, QueueWritten DEF Ask
    <2>3. /\ job'[r].step = "queued" /\ job'[r].qty = pos["old"] /\ job'[r].closed = 0
          /\ job'[r].opened = 0 /\ job'[r].told = [st |-> "none", n |-> 0]
        BY <2>2 DEF Idle, Writes
    <2>4. job'[r].told.n = 0 /\ job'[r].told.st = "none"
        BY <2>3
    <2>5. Leg1(r)'
        BY <2>1, <2>3, <2>4 DEF Leg1, Live, Before, After
    <2> QED
        BY <1>0, <2>2, <2>5, LegKept DEF Writes
<1>3. CASE CloseArrives \/ ClosePosition
    <2>1. PICK s \in {"queued", "done"} : Becomes("close", s)
        BY <1>3 DEF CloseArrives, ClosePosition
    <2>2. Writes("close", [job["close"] EXCEPT !.step = s])
        BY <1>0, <2>1, StepWritten DEF Steps
    <2>3. \A x \in Rolls : Leg1(x)'
        <3>1. \A x \in Rolls : job'[x] = job[x]
            BY <1>0, <2>2 DEF Writes
        <3> QED
            BY <3>1 DEF LegInv, Leg1
    <2>4. job["close"] \in Rec
        BY <1>0, JobType
    <2>5. job'["notice"] = job["notice"]
        BY <1>0, <2>2, Names DEF Writes
    <2>6. job'["close"].step = s /\ job'["close"].opened = 0 /\ job'["close"].closed = 0
        BY <2>2, <2>4 DEF Writes, Rec, LegInv
    <2> QED
        BY <2>3, <2>5, <2>6 DEF LegInv
<1>4. CASE Restart
    <2>1. /\ \A j \in Jobs : job[j].step \in {"idle", "done"} => job'[j] = job[j]
          /\ \A j \in Jobs : job[j].step \notin {"idle", "done"} =>
                IF j = "close" THEN job'[j] = Idle
                ELSE job'[j] = [job[j] EXCEPT !.step = "done", !.result = "failed"]
        BY <1>4, RestartWritten
    <2>2. ASSUME NEW x \in Rolls PROVE Leg1(x)'
        <3>1. CASE job[x].step \in {"idle", "done"}
            BY <1>0, <2>1, <3>1 DEF LegInv, Leg1
        <3>2. CASE job[x].step \notin {"idle", "done"}
            <4>1. job'[x] = [job[x] EXCEPT !.step = "done", !.result = "failed"]
                BY <1>0, <2>1, <3>2
            <4>2. job[x] \in Rec /\ Leg1(x)
                BY <1>0, JobType DEF LegInv
            <4> QED
                BY <4>1, <4>2 DEF Leg1, Rec, Live, Before, After
        <3> QED
            BY <3>1, <3>2
    <2>3. job["notice"] \in Rec
        BY <1>0, JobType
    <2>4. job'["notice"].step \in {"idle", "done"} /\ job'["notice"].opened = 0 /\ job'["notice"].closed = 0
        <3>1. CASE job["notice"].step \in {"idle", "done"}
            BY <1>0, <2>1, <3>1 DEF LegInv
        <3>2. CASE job["notice"].step \notin {"idle", "done"}
            <4>1. job'["notice"] = [job["notice"] EXCEPT !.step = "done", !.result = "failed"]
                BY <1>0, <2>1, <3>2
            <4> QED
                BY <2>3, <4>1 DEF LegInv, Rec
        <3> QED
            BY <3>1, <3>2
    <2>5. job'["close"].step \in {"idle", "done"} /\ job'["close"].opened = 0 /\ job'["close"].closed = 0
        <3>1. CASE job["close"].step \in {"idle", "done"}
            BY <1>0, <2>1, <3>1 DEF LegInv
        <3>2. CASE job["close"].step \notin {"idle", "done"}
            <4>1. job'["close"] = Idle
                BY <1>0, <2>1, <3>2
            <4> QED
                BY <4>1 DEF Idle
        <3> QED
            BY <3>1, <3>2
    <2> QED
        BY <2>2, <2>4, <2>5 DEF LegInv
<1>5. CASE \E o \in rest : RestFills(o)
    BY <1>1, <1>5 DEF RestFills
<1> QED
    BY <1>1, <1>2, <1>3, <1>4, <1>5, LegRoll, LegNotice DEF Next, vars

----------------------------------------------------------------------------
(* Every step keeps the line in order.                                     *)
LEMMA StorySame == ASSUME [Next]_vars PROVE story' = story
<1>1. CASE \E r \in Rolls : Execute(r)
    BY <1>1, RollFrame
<1> QED
    BY <1>1 DEF Next, vars, Ask, Announce, SeenLapses, Notice, TakeNotice, HandleNotice, RollHeld, AskAuto, NotMoved,
        BoughtBack, Fails, CarryOver, Answered, CloseArrives, ClosePosition, RestFills, Restart

LEMMA SameStand ==
    ASSUME story' = story, NEW j, job'[j] = job[j]
    PROVE (Stands(j)' <=> Stands(j)) /\ (Holds(j)' <=> Holds(j))
BY DEF Stands, Holds

(* A roll that works as the head goes on, or is over and leaves.           *)
LEMMA RollGoesOn ==
    ASSUME TypeInv, LineInv, NEW r \in Rolls, Runs(r), job[r].step \in Live \cup {"queued"},
           story' = story, line' = line, \A j \in Jobs : j # r => job'[j] = job[j], job'[r].step \in Live
    PROVE LineInv'
<1>1. r \in Jobs /\ {"notice", "auto"} \subseteq Jobs /\ r # "notice"
    BY Names
<1>2. \A j \in Jobs : j # r => (Stands(j)' <=> Stands(j)) /\ (Holds(j)' => Runs(j))
    BY SameStand DEF LineInv
<1>3. Stands(r) /\ Stands(r)'
    BY <1>1 DEF Stands, Holds
<1>4. job'["auto"].step \notin {"idle", "done"} => job'["notice"].step = "waiting"
    BY <1>1 DEF LineInv, Live
<1> QED
    BY <1>2, <1>3, <1>4, LineStayed

LEMMA RollLeaves ==
    ASSUME TypeInv, LineInv, NEW r \in Rolls, Runs(r), story' = story, Free,
           \A j \in Jobs : j # r => job'[j] = job[j], job'[r].step = "done"
    PROVE LineInv'
<1>1. r \in Jobs /\ {"notice", "auto"} \subseteq Jobs /\ r # "notice"
    BY Names
<1>2. \A j \in Jobs : j # r => (Stands(j)' <=> Stands(j)) /\ (Holds(j)' => Holds(j))
    BY SameStand
<1>3. ~Stands(r)'
    BY <1>1 DEF Stands, Holds, Live
<1>4. job'["auto"].step \notin {"idle", "done"} => job'["notice"].step = "waiting"
    BY <1>1 DEF LineInv
<1> QED
    BY <1>1, <1>2, <1>3, <1>4, LineLeft DEF Free

LEMMA RollSteps ==
    ASSUME TypeInv, LegInv, NEW r \in Rolls
    PROVE /\ Retire(r) \/ Place(r) \/ Closed(r) \/ Complete(r) \/ OpenRejected(r) =>
                /\ job[r].step \in Live \cup {"queued"} /\ job'[r].step \in Live /\ line' = line
                /\ \A j \in Jobs : j # r => job'[j] = job[j]
          /\ Duplicate(r) \/ Throws(r) \/ CloseFails(r) \/ Rolled(r) \/ Restored(r) \/ Incomplete(r) =>
                /\ job'[r].step = "done" /\ Free
                /\ Runs(r) \/ job[r].step \in Live
                /\ \A j \in Jobs : j # r => job'[j] = job[j]
<1>0. r \in Jobs /\ job[r] \in Rec /\ Leg1(r)
    BY Names, JobType DEF LegInv
<1>1. ASSUME NEW new, Writes(r, new) PROVE job'[r] = new /\ \A j \in Jobs : j # r => job'[j] = job[j]
    BY <1>1 DEF Writes
<1>2. CASE Retire(r) \/ OpenRejected(r)
    <2>1. PICK s \in {"close", "restore"} : Writes(r, [job[r] EXCEPT !.step = s])
        BY <1>0, <1>2, StepWritten DEF Retire, OpenRejected, Steps, Live
    <2>2. job'[r].step = s
        BY <1>0, <2>1 DEF Writes, Rec
    <2> QED
        BY <1>1, <1>2, <2>1, <2>2 DEF Retire, OpenRejected, Live, venue, book, Duplicate, Throws, CloseFails, Rolled,
            Restored, Incomplete
<1>3. CASE Place(r)
    <2>1. PICK st \in Told, d \in 0..Leg(r).qty : Settles(r, st, d)
        BY <1>0, <1>3, PlaceDoes
    <2>2. PICK next \in Live : next = Leg(r).next
        BY <1>0, <1>3, LegType DEF Place
    <2>3. Writes(r, [job[r] EXCEPT !.step = next, !.told = [st |-> st, n |-> d]])
        BY <2>1, <2>2 DEF Settles
    <2>4. job'[r].step = next
        BY <1>0, <2>3 DEF Writes, Rec
    <2> QED
        BY <1>1, <1>3, <2>2, <2>3, <2>4 DEF Place, Live, Duplicate, Throws, CloseFails, Rolled, Restored, Incomplete
<1>4. CASE Closed(r)
    <2>1. job'[r].step = "open"
        BY <1>0, <1>4, ClosedWritten DEF Writes, Rec
    <2> QED
        BY <1>1, <1>4, <2>1, ClosedWritten DEF Closed, Live, Duplicate, Throws, CloseFails, Rolled, Restored, Incomplete, Got
<1>5. CASE Complete(r)
    <2>1. job'[r].step = "market"
        BY <1>0, <1>5, CompleteWritten DEF Writes, Rec
    <2> QED
        BY <1>1, <1>5, <2>1, CompleteWritten DEF Complete, Live, Duplicate, Throws, CloseFails, Rolled, Restored, Incomplete
<1>6. CASE Duplicate(r) \/ Throws(r) \/ CloseFails(r) \/ Restored(r) \/ Incomplete(r)
    <2>1. PICK x \in Results : Writes(r, [job[r] EXCEPT !.step = "done", !.result = x])
        BY <1>6, EndsWritten DEF Results
    <2>2. job'[r].step = "done"
        BY <1>0, <2>1 DEF Writes, Rec
    <2> QED
        BY <1>1, <1>6, <2>1, <2>2 DEF Duplicate, Throws, CloseFails, Restored, Incomplete, Live, Retire, Place, Closed,
            Complete, OpenRejected, Got
<1>7. CASE Rolled(r)
    <2>1. job'[r].step = "done"
        <3>1. PICK m : Writes(r, [job[r] EXCEPT !.step = "done", !.result = "rolled", !.opened = m])
            BY <1>7, RolledWritten
        <3>2. job'[r] = [job[r] EXCEPT !.step = "done", !.result = "rolled", !.opened = m]
            BY <3>1 DEF Writes
        <3> QED
            BY <1>0, <3>2 DEF Rec
    <2> QED
        BY <1>1, <1>7, <2>1, RolledWritten DEF Rolled, Live, Retire, Place, Closed, Complete, OpenRejected
<1> QED
    BY <1>2, <1>3, <1>4, <1>5, <1>6, <1>7

LEMMA LineRoll == ASSUME TypeInv, LegInv, LineInv, NEW r \in Rolls, Execute(r) PROVE LineInv'
<1>1. story' = story
    BY RollFrame
<1>2. CASE Duplicate(r) \/ Throws(r) \/ CloseFails(r) \/ Rolled(r) \/ Restored(r) \/ Incomplete(r)
    BY <1>1, <1>2, RollSteps, RollLeaves, LiveRuns
<1>3. CASE Retire(r) \/ Place(r) \/ Closed(r) \/ Complete(r) \/ OpenRejected(r)
    <2>1. Runs(r)
        BY <1>3, LiveRuns DEF Retire, Place, Closed, Complete, OpenRejected, Live
    <2> QED
        BY <1>1, <1>3, <2>1, RollSteps, RollGoesOn
<1> QED
    BY <1>2, <1>3 DEF Execute

(* The notice is done: it leaves the line it is in, if it is in one.       *)
LEMMA NoticeLeaves ==
    ASSUME TypeInv, LineInv, story' = story, LeaveLine, story.apart \/ Runs("notice"),
           \A j \in Jobs : j # "notice" => job'[j] = job[j], job'["notice"].step = "done",
           job["auto"].step \in {"idle", "done"},
           job["notice"].step \in {"queued", "handling", "asking", "waiting"}
    PROVE LineInv'
<1>1. {"notice", "auto"} \subseteq Jobs /\ "notice" # "auto"
    BY Names
<1>2. \A j \in Jobs : j # "notice" => (Stands(j)' <=> Stands(j)) /\ (Holds(j)' <=> Holds(j))
    BY SameStand
<1>3. ~Stands("notice")' /\ ~Holds("notice")'
    BY DEF Stands, Holds, Live
<1>4. job'["auto"].step \in {"idle", "done"}
    BY <1>1
<1>5. CASE story.apart
    <2>1. ~Stands("notice") /\ line' = line
        BY <1>5 DEF Stands, Holds, Live, LeaveLine
    <2>2. \A j \in Jobs : (Stands(j)' <=> Stands(j)) /\ (Holds(j)' => Runs(j))
        BY <1>2, <1>3, <2>1 DEF LineInv
    <2> QED
        BY <1>4, <2>1, <2>2, LineStayed
<1>6. CASE ~story.apart
    BY <1>1, <1>2, <1>3, <1>4, <1>6, LineLeft DEF LeaveLine, Free
<1> QED
    BY <1>5, <1>6

LEMMA NoticeRuns ==
    ASSUME LineInv, job["notice"].step \in {"handling", "asking", "waiting"}
    PROVE story.apart \/ Runs("notice")
BY Names DEF LineInv, Holds

LEMMA NoticeEnded ==
    ASSUME TypeInv, LineInv, NEW result \in Results, job' = Ended("notice", result), LeaveLine,
           story' = story, job["auto"].step \in {"idle", "done"},
           job["notice"].step \in {"handling", "asking", "waiting"}
    PROVE LineInv'
<1>1. Writes("notice", [job["notice"] EXCEPT !.step = "done", !.result = result])
    BY Names, EndWritten
<1>2. job'["notice"].step = "done"
    BY <1>1, NoticeIs DEF Writes, Rec
<1> QED
    BY <1>1, <1>2, NoticeRuns, NoticeLeaves DEF Writes

LEMMA LineNotice == ASSUME TypeInv, LegInv, LineInv, Announce \/ SeenLapses \/ Notice, story' = story PROVE LineInv'
<1>0. {"notice", "auto"} \subseteq Jobs /\ "notice" # "auto" /\ job["notice"] \in Rec
    BY Names, JobType
<1>1. CASE Announce
    <2>1. Writes("notice", [job["notice"] EXCEPT !.step = "queued"])
        BY <1>0, <1>1, StepWritten DEF Announce, Steps
    <2>2. job'["notice"].step = "queued" /\ \A j \in Jobs : j # "notice" => job'[j] = job[j]
        BY <1>0, <2>1 DEF Writes, Rec
    <2>3. ~Stands("notice") /\ ~Holds("notice")' /\ (Stands("notice")' <=> ~story.apart)
        BY <1>1, <2>2 DEF Announce, Stands, Holds, Live
    <2>4. job'["auto"].step \in {"idle", "done"}
        BY <1>0, <1>1, <2>2 DEF LineInv, Announce
    <2>5. \A j \in Jobs : j # "notice" => (Stands(j)' <=> Stands(j)) /\ (Holds(j)' <=> Holds(j))
        BY <2>2, SameStand
    <2>6. CASE story.apart
        <3>1. \A j \in Jobs : (Stands(j)' <=> Stands(j)) /\ (Holds(j)' => Runs(j))
            BY <2>3, <2>5, <2>6 DEF LineInv
        <3> QED
            BY <1>1, <2>4, <2>6, <3>1, LineStayed DEF Announce
    <2>7. CASE ~story.apart
        BY <1>0, <1>1, <2>3, <2>4, <2>5, <2>7, LineJoined DEF Announce
    <2> QED
        BY <2>6, <2>7
<1>2. CASE SeenLapses
    BY <1>2, SameStand, LineStayed DEF SeenLapses, LineInv
<1>3. CASE TakeNotice
    <2>1. job["auto"].step \in {"idle", "done"}
        BY <1>3 DEF TakeNotice, LineInv
    <2>2. CASE seen
        <3>1. Writes("notice", [job["notice"] EXCEPT !.step = "done"])
            BY <1>0, <1>3, <2>2, StepWritten DEF TakeNotice, Steps
        <3>2. job'["notice"].step = "done"
            BY <1>0, <3>1 DEF Writes, Rec
        <3> QED
            BY <1>3, <2>1, <2>2, <3>1, <3>2, NoticeLeaves DEF TakeNotice, Writes
    <2>3. CASE ~seen
        <3>1. Writes("notice", [job["notice"] EXCEPT !.step = "handling"])
            BY <1>0, <1>3, <2>3, StepWritten DEF TakeNotice, Steps
        <3>2. job'["notice"].step = "handling" /\ \A j \in Jobs : j # "notice" => job'[j] = job[j]
            BY <1>0, <3>1 DEF Writes, Rec
        <3>3. \A j \in Jobs : j # "notice" => (Stands(j)' <=> Stands(j)) /\ (Holds(j)' => Runs(j))
            BY <3>2, SameStand DEF LineInv
        <3>4. (Stands("notice")' <=> Stands("notice")) /\ (Holds("notice")' => Runs("notice"))
            BY <1>3, <3>2 DEF TakeNotice, Stands, Holds, Live
        <3>5. job'["auto"].step \in {"idle", "done"}
            BY <1>0, <2>1, <3>2
        <3> QED
            BY <1>3, <2>3, <3>3, <3>4, <3>5, LineStayed DEF TakeNotice
    <2> QED
        BY <2>2, <2>3
<1>4. CASE \E result \in {"not_held", "reported"} : HandleNotice(result)
    <2>1. job["auto"].step \in {"idle", "done"}
        BY <1>4 DEF HandleNotice, LineInv
    <2> QED
        BY <1>4, <2>1, NoticeEnded DEF HandleNotice, Results
<1>5. CASE RollHeld
    <2>1. Writes("notice", [job["notice"] EXCEPT !.step = "asking", !.qty = Lineage])
        BY <1>5, HeldWritten
    <2>2. job'["notice"].step = "asking" /\ \A j \in Jobs : j # "notice" => job'[j] = job[j]
        BY <1>0, <2>1 DEF Writes, Rec
    <2>3. \A j \in Jobs : j # "notice" => (Stands(j)' <=> Stands(j)) /\ (Holds(j)' => Runs(j))
        BY <2>2, SameStand DEF LineInv
    <2>4. (Stands("notice")' <=> Stands("notice")) /\ (Holds("notice")' <=> Holds("notice"))
        BY <1>5, <2>2 DEF RollHeld, Stands, Holds, Live
    <2>5. job'["auto"].step \in {"idle", "done"}
        BY <1>0, <1>5, <2>2 DEF RollHeld, LineInv
    <2> QED
        BY <1>0, <1>5, <2>3, <2>4, <2>5, LineStayed DEF RollHeld, LineInv
<1>6. CASE AskAuto
    <2>0. job["auto"].step \in {"idle", "done"}
        BY <1>6 DEF AskAuto, LineInv
    <2>1. CASE pos["old"] > 0
        <3>1. /\ job'["auto"] = [Idle EXCEPT !.step = "queued", !.qty = pos["old"]]
              /\ job'["notice"] = [job["notice"] EXCEPT !.step = "waiting"]
              /\ \A j \in Jobs : j \notin {"auto", "notice"} => job'[j] = job[j]
            BY <1>6, <2>1, AutoWritten
        <3>2. job'["auto"].step = "queued" /\ job'["notice"].step = "waiting"
            BY <1>0, <3>1 DEF Idle, Rec
        <3>3. ~Stands("auto") /\ Stands("auto")' /\ ~Holds("auto")'
            BY <2>0, <3>2 DEF Stands, Holds, Live
        <3>4. \A j \in Jobs : j \notin {"auto", "notice"} => (Stands(j)' <=> Stands(j)) /\ (Holds(j)' <=> Holds(j))
            BY <3>1, SameStand
        <3>5. (Stands("notice")' <=> Stands("notice")) /\ (Holds("notice")' <=> Holds("notice"))
            BY <1>6, <3>2 DEF AskAuto, Stands, Holds, Live
        <3>6. \A j \in Jobs : j # "auto" => (Stands(j)' <=> Stands(j)) /\ (Holds(j)' => Holds(j))
            BY <3>4, <3>5
        <3>7. line' = Append(line, "auto")
            BY <1>6, <2>1 DEF AskAuto
        <3> QED
            BY <1>0, <3>2, <3>3, <3>6, <3>7, LineJoined
    <2>2. CASE ~(pos["old"] > 0)
        BY <1>6, <2>0, <2>2, NoticeEnded DEF AskAuto, Results
    <2> QED
        BY <2>1, <2>2
<1>7. CASE NotMoved \/ BoughtBack \/ Fails \/ CarryOver
    <2>1. /\ job["auto"].step = "done" /\ job["notice"].step = "waiting" /\ LeaveLine
          /\ job' = Ended("notice", job["auto"].result)
        BY <1>7 DEF NotMoved, BoughtBack, Fails, CarryOver, Answered
    <2> QED
        BY <1>0, <2>1, ResultIn, NoticeEnded
<1> QED
    BY <1>1, <1>2, <1>3, <1>4, <1>5, <1>6, <1>7 DEF Notice

LEMMA RestartStops == ASSUME TypeInv, Restart PROVE \A j \in Jobs : job'[j].step \in {"idle", "done"}
<1>1. ASSUME NEW j \in Jobs, job[j].step \in {"idle", "done"} PROVE job'[j].step \in {"idle", "done"}
    BY <1>1, RestartWritten
<1>2. ASSUME NEW j \in Jobs, job[j].step \notin {"idle", "done"}, j # "close" PROVE job'[j].step \in {"idle", "done"}
    <2>1. job'[j] = [job[j] EXCEPT !.step = "done", !.result = "failed"] /\ job[j] \in Rec
        BY <1>2, RestartWritten, JobType
    <2> QED
        BY <2>1 DEF Rec
<1>3. ASSUME job["close"].step \notin {"idle", "done"} PROVE job'["close"].step \in {"idle", "done"}
    <2>1. job'["close"] = Idle
        BY <1>3, Names, RestartWritten
    <2> QED
        BY <2>1 DEF Idle
<1> QED
    BY <1>1, <1>2, <1>3

LEMMA LineStep == ASSUME TypeInv, LegInv, LineInv, [Next]_vars PROVE LineInv'
<1>0. story' = story /\ {"notice", "auto", "close"} \subseteq Jobs /\ Requests \subseteq Jobs /\ "close" # "auto"
    BY StorySame, Names
<1>1. CASE UNCHANGED <<job, line>>
    BY <1>0, <1>1, SameStand, LineStayed DEF LineInv
<1>2. ASSUME NEW r \in Requests, Ask(r) PROVE LineInv'
    <2>1. pos["old"] \in Nat /\ r \in Jobs /\ r # "auto" /\ r # "notice"
        BY <1>2, Names DEF Ask, TypeInv, Contracts
    <2>2. Writes(r, [Idle EXCEPT !.step = "queued", !.qty = pos["old"]])
        BY <1>2, <2>1, QueueWritten DEF Ask
    <2>3. job'[r].step = "queued" /\ \A j \in Jobs : j # r => job'[j] = job[j]
        BY <2>2 DEF Idle, Writes
    <2>4. ~Stands(r) /\ Stands(r)' /\ ~Holds(r)'
        BY <1>2, <2>1, <2>3 DEF Ask, Stands, Holds, Live
    <2>5. \A j \in Jobs : j # r => (Stands(j)' <=> Stands(j)) /\ (Holds(j)' => Holds(j))
        BY <1>0, <2>3, SameStand
    <2>6. job'["auto"].step \notin {"idle", "done"} => job'["notice"].step = "waiting"
        BY <1>0, <2>1, <2>3 DEF LineInv
    <2>7. line' = Append(line, r)
        BY <1>2 DEF Ask
    <2> QED
        BY <2>1, <2>4, <2>5, <2>6, <2>7, LineJoined
<1>3. CASE CloseArrives
    <2>1. Writes("close", [job["close"] EXCEPT !.step = "queued"])
        BY <1>0, <1>3, StepWritten DEF CloseArrives, Steps
    <2>2. job'["close"].step = "queued" /\ \A j \in Jobs : j # "close" => job'[j] = job[j]
        BY <1>0, <2>1, JobType DEF Writes, Rec
    <2>3. ~Stands("close") /\ Stands("close")' /\ ~Holds("close")'
        BY <1>3, <2>2 DEF CloseArrives, Stands, Holds, Live
    <2>4. \A j \in Jobs : j # "close" => (Stands(j)' <=> Stands(j)) /\ (Holds(j)' => Holds(j))
        BY <1>0, <2>2, SameStand
    <2>5. job'["auto"].step \notin {"idle", "done"} => job'["notice"].step = "waiting"
        BY <1>0, <2>2 DEF LineInv
    <2>6. line' = Append(line, "close")
        BY <1>3 DEF CloseArrives
    <2> QED
        BY <1>0, <2>3, <2>4, <2>5, <2>6, LineJoined
<1>4. CASE ClosePosition
    <2>1. Writes("close", [job["close"] EXCEPT !.step = "done"])
        BY <1>0, <1>4, StepWritten DEF ClosePosition, Steps
    <2>2. job'["close"].step = "done" /\ \A j \in Jobs : j # "close" => job'[j] = job[j]
        BY <1>0, <2>1, JobType DEF Writes, Rec
    <2>3. ~Stands("close")'
        BY <2>2 DEF Stands, Holds, Live
    <2>4. \A j \in Jobs : j # "close" => (Stands(j)' <=> Stands(j)) /\ (Holds(j)' => Holds(j))
        BY <1>0, <2>2, SameStand
    <2>5. job'["auto"].step \notin {"idle", "done"} => job'["notice"].step = "waiting"
        BY <1>0, <2>2 DEF LineInv
    <2>6. line' = Tail(line) /\ Runs("close")
        BY <1>4 DEF ClosePosition, Free
    <2> QED
        BY <1>0, <2>3, <2>4, <2>5, <2>6, LineLeft
<1>5. CASE Restart
    <2>1. \A j \in Jobs : job'[j].step \in {"idle", "done"}
        BY <1>5, RestartStops
    <2>2. \A j \in Jobs : ~Stands(j)' /\ ~Holds(j)'
        <3>1. ASSUME NEW j \in Jobs PROVE ~Stands(j)' /\ ~Holds(j)'
            <4>1. job'[j].step \in {"idle", "done"}
                BY <2>1
            <4> QED
                BY <4>1 DEF Stands, Holds, Live
        <3> QED
            BY <3>1
    <2>3. line' = << >>
        BY <1>5 DEF Restart
    <2>4. IsInjective(line') /\ \A j \in Jobs : j \notin ToSet(line')
        BY <2>3 DEF IsInjective, ToSet
    <2>5. job'["auto"].step \in {"idle", "done"}
        BY <1>0, <2>1
    <2> QED
        BY <2>2, <2>4, <2>5 DEF LineInv
<1>6. CASE \E o \in rest : RestFills(o)
    BY <1>1, <1>6 DEF RestFills
<1> QED
    BY <1>0, <1>1, <1>2, <1>3, <1>4, <1>5, <1>6, LineRoll, LineNotice DEF Next, vars

LEMMA LegLineInit == Init => LegInv /\ LineInv
<1> SUFFICES ASSUME Init PROVE LegInv /\ LineInv
    OBVIOUS
<1>1. job = [j \in Jobs |-> Idle] /\ line = << >>
    BY DEF Init
<1>2. \A j \in Jobs : /\ job[j].step = "idle" /\ job[j].qty = 0 /\ job[j].closed = 0 /\ job[j].opened = 0
                      /\ job[j].told = [st |-> "none", n |-> 0] /\ job[j].result = "none"
    BY <1>1 DEF Idle
<1>3. \A j \in Jobs : job[j].told.st = "none" /\ job[j].told.n = 0
    BY <1>2
<1>4. \A r \in Rolls : Leg1(r)
    BY <1>2, <1>3, Names DEF Leg1, Live, Before, After
<1>5. LegInv
    BY <1>2, <1>4, Names DEF LegInv
<1>6. \A j \in Jobs : ~Stands(j) /\ ~Holds(j)
    BY <1>2 DEF Stands, Holds, Live
<1>7. IsInjective(line) /\ \A j \in Jobs : j \notin ToSet(line)
    BY <1>1 DEF IsInjective, ToSet
<1> QED
    BY <1>2, <1>5, <1>6, <1>7, Names DEF LineInv

LEMMA TypeGives == ASSUME TypeInv, LegInv, LineInv PROVE TypeOK
<1>1. ToSet(line) \subseteq Jobs
    BY DEF TypeInv, ToSet
<1>2. ASSUME NEW j \in Jobs
      PROVE /\ job[j].step \in Live \cup {"idle", "queued", "handling", "asking", "waiting", "done"}
            /\ job[j].opened <= job[j].closed /\ job[j].closed <= job[j].qty
            /\ job[j].result \in Results
            /\ job[j].step \in Live => line # << >> /\ Head(line) = j
    <2>1. job[j].step \in Steps /\ job[j].qty \in Nat /\ job[j].result \in Results
        BY JobType, RecType
    <2>2. job[j].opened <= job[j].closed /\ job[j].closed <= job[j].qty
        BY <2>1 DEF LegInv, Leg1, Jobs
    <2> QED
        BY <2>1, <2>2 DEF Steps, LineInv, Holds, Runs
<1>3. exec.on \in Contracts /\ exec.qty \in 0..story.bot
    BY StoryType DEF TypeInv
<1> QED
    BY <1>1, <1>2, <1>3 DEF TypeInv, TypeOK, LineInv

----------------------------------------------------------------------------
(* Between the two owners: the notice that asked for the automatic roll    *)
(* waits, and the bot's entries have left the old contract without being   *)
(* booked on the new one.                                                  *)
Asked    == job["notice"].step \in {"asking", "waiting"}
Waits    == job["notice"].step = "waiting"
Carrying == Waits /\ Entries > 0 /\ job["auto"].closed > 0

(* The notice waits for an answer it can only make a mess of: the bot's    *)
(* execution has changed since its entries were read, the roll moves       *)
(* something else than them, or it has failed with their stop cancelled.   *)
Doomed ==
    /\ Waits /\ Entries > 0
    /\ \/ exec.qty # Entries
       \/ job["auto"].closed > 0 /\ ~(job["auto"].qty = Entries /\ job["auto"].closed = Entries)
       \/ job["auto"].step = "done" /\ job["auto"].result \in {"restored", "incomplete", "failed"}

(* The entries the notice read are still on the old contract, if closed in *)
(* part.                                                                   *)
LineageInv ==
    /\ Asked => Lineage <= Entries
    /\ Asked /\ Entries > 0 => exec.on = "old"

LEMMA Numbers ==
    ASSUME TypeInv
    PROVE /\ pos["old"] \in Int /\ pos["new"] \in Int /\ marker["old"] \in Nat /\ marker["new"] \in Nat
          /\ exec.on \in Contracts /\ exec.qty \in Nat /\ Lineage \in Nat /\ Entries \in Nat
          /\ sold \in Nat /\ lost \in Nat /\ story.user \in Nat /\ story.bot \in Nat
<1>1. job["notice"].qty \in Nat
    BY Names, JobType, RecType
<1> QED
    BY <1>1, StoryType, LineageType DEF TypeInv, Contracts, Entries

LEMMA WaysGrow == ASSUME [Next]_vars PROVE ways \subseteq ways'
<1>1. ASSUME NEW r \in Rolls, Execute(r) PROVE ways \subseteq ways'
    BY <1>1 DEF Execute, Duplicate, Retire, Place, Throws, CloseFails, Closed, Complete, OpenRejected, Rolled, Restored,
        Incomplete, Spoil
<1>2. ASSUME Notice PROVE ways \subseteq ways'
    BY <1>2 DEF Notice, TakeNotice, HandleNotice, RollHeld, AskAuto, NotMoved, BoughtBack, Fails, CarryOver, Rearm, Spoil
<1>3. ASSUME NEW o, RestFills(o) PROVE ways \subseteq ways'
    BY <1>3 DEF RestFills, Spoil
<1> QED
    BY <1>1, <1>2, <1>3 DEF Next, vars, Ask, Announce, SeenLapses, CloseArrives, ClosePosition, Restart, Spoil

(* A roll leaves the notice, the execution and the other rolls alone.      *)
LEMMA RollAlone ==
    ASSUME TypeInv, LegInv, NEW r \in Rolls, Execute(r)
    PROVE /\ \A j \in Jobs : j # r => job'[j] = job[j]
          /\ job'["notice"] = job["notice"] /\ job'["close"] = job["close"] /\ exec' = exec
          /\ Entries' = Entries /\ Lineage' = Lineage /\ (Asked' <=> Asked) /\ (Waits' <=> Waits)
<1>1. \A j \in Jobs : j # r => job'[j] = job[j]
    BY RollSteps DEF Execute
<1>2. exec' = exec
    BY RollFrame
<1>3. job'["notice"] = job["notice"] /\ job'["close"] = job["close"]
    BY <1>1, Names
<1> QED
    BY <1>1, <1>2, <1>3 DEF Entries, Lineage, Asked, Waits

(* What a step of the bot's close leaves of its execution.                 *)
LEMMA CloseFrame ==
    ASSUME TypeInv, ClosePosition
    PROVE /\ exec'.on = exec.on /\ exec'.qty \in Nat /\ exec'.qty <= exec.qty
          /\ job'["notice"] = job["notice"] /\ \A r \in Rolls : job'[r] = job[r]
<1>1. PICK n \in Nat : CloseSells(n)
    BY CloseDoes
<1>2. exec \in [on : Contracts, qty : Nat]
    BY DEF TypeInv
<1>3. exec'.qty \in Nat /\ exec'.qty <= exec.qty
    BY <1>1, <1>2 DEF CloseSells
<1>4. exec'.on = exec.on
    <2>1. PICK q : q = exec'.qty
        OBVIOUS
    <2>2. exec' = [exec EXCEPT !.qty = q]
        BY <1>1, <2>1 DEF CloseSells
    <2> QED
        BY <1>2, <2>2
<1>5. Writes("close", [job["close"] EXCEPT !.step = "done"])
    BY Names, StepWritten DEF ClosePosition, Steps
<1> QED
    BY <1>3, <1>4, <1>5, Names DEF Writes

LEMMA NoticeBecomes ==
    ASSUME TypeInv, NEW s \in Steps, Becomes("notice", s)
    PROVE /\ job'["notice"].step = s /\ job'["notice"].qty = job["notice"].qty
          /\ \A j \in Jobs : j # "notice" => job'[j] = job[j]
<1>1. Writes("notice", [job["notice"] EXCEPT !.step = s])
    BY Names, StepWritten
<1> QED
    BY <1>1, NoticeIs DEF Writes, Rec

LEMMA NoticeEnds ==
    ASSUME TypeInv, NEW result \in Results, job' = Ended("notice", result)
    PROVE job'["notice"].step = "done" /\ \A j \in Jobs : j # "notice" => job'[j] = job[j]
<1>1. Writes("notice", [job["notice"] EXCEPT !.step = "done", !.result = result])
    BY Names, EndWritten
<1> QED
    BY <1>1, NoticeIs DEF Writes, Rec

LEMMA LineageStep == ASSUME TypeInv, LegInv, LineInv, LineageInv, [Next]_vars PROVE LineageInv'
<1>n. /\ {"notice", "auto", "close"} \subseteq Jobs /\ "notice" # "auto" /\ "notice" \notin Rolls
      /\ job["notice"] \in Rec /\ Requests \subseteq Rolls
    BY Names, JobType
<1>1. CASE UNCHANGED <<exec, job>>
    BY <1>1 DEF LineageInv, Asked, Lineage, Entries
<1>2. ASSUME NEW r \in Rolls, Execute(r) PROVE LineageInv'
    BY <1>2, RollAlone DEF LineageInv
<1>3. ASSUME exec' = exec, job'["notice"] = job["notice"] PROVE LineageInv'
    BY <1>3 DEF LineageInv, Asked, Lineage, Entries
<1>4. ASSUME NEW r \in Requests, Ask(r) PROVE LineageInv'
    <2>1. pos["old"] \in Nat
        BY <1>4, Numbers DEF Ask
    <2>2. Writes(r, [Idle EXCEPT !.step = "queued", !.qty = pos["old"]])
        BY <1>4, <2>1, Names, QueueWritten DEF Ask
    <2> QED
        BY <1>3, <1>4, <1>n, <2>2 DEF Ask, Writes, book
<1>5. CASE CloseArrives
    <2>1. Writes("close", [job["close"] EXCEPT !.step = "queued"])
        BY <1>5, <1>n, StepWritten DEF CloseArrives, Steps
    <2> QED
        BY <1>3, <1>5, <1>n, <2>1 DEF CloseArrives, Writes, book
<1>6. CASE ClosePosition
    <2>1. /\ exec'.on = exec.on /\ exec'.qty \in Nat /\ exec'.qty <= exec.qty
          /\ job'["notice"] = job["notice"]
        BY <1>6, CloseFrame
    <2>2. Lineage' <= Lineage /\ Lineage' \in Nat /\ Lineage \in Nat /\ Entries \in Nat
        BY <2>1, Numbers DEF Lineage
    <2> QED
        BY <2>1, <2>2 DEF LineageInv, Asked, Entries
<1>7. ASSUME ~Asked' PROVE LineageInv'
    BY <1>7 DEF LineageInv
<1>8. CASE Announce \/ TakeNotice
    <2>1. PICK s \in {"queued", "done", "handling"} : Becomes("notice", s)
        BY <1>8 DEF Announce, TakeNotice
    <2>2. job'["notice"].step = s
        BY <2>1, NoticeBecomes DEF Steps
    <2> QED
        BY <1>7, <2>2 DEF Asked
<1>9. ASSUME NEW result \in Results, job' = Ended("notice", result) PROVE LineageInv'
    <2>1. job'["notice"].step = "done"
        BY <1>9, NoticeEnds
    <2> QED
        BY <1>7, <2>1 DEF Asked
<1>10. CASE RollHeld
    <2>1. Writes("notice", [job["notice"] EXCEPT !.step = "asking", !.qty = Lineage]) /\ exec' = exec
        BY <1>10, HeldWritten DEF RollHeld, book
    <2>2. Entries' = Lineage /\ Lineage' = Lineage /\ Lineage \in Nat
        BY <1>n, <2>1, Numbers DEF Writes, Rec, Entries, Lineage
    <2>3. Entries' > 0 => exec'.on = "old"
        BY <2>1, <2>2 DEF Lineage
    <2> QED
        BY <2>2, <2>3 DEF LineageInv
<1>11. CASE AskAuto
    <2>1. CASE pos["old"] > 0
        <3>1. job'["notice"] = [job["notice"] EXCEPT !.step = "waiting"] /\ exec' = exec /\ job["notice"].step = "asking"
            BY <1>11, <2>1, AutoWritten DEF AskAuto, book
        <3>2. job'["notice"].qty = job["notice"].qty
            BY <1>n, <3>1 DEF Rec
        <3> QED
            BY <3>1, <3>2 DEF LineageInv, Asked, Entries, Lineage
    <2>2. CASE ~(pos["old"] > 0)
        BY <1>9, <1>11, <2>2 DEF AskAuto, Results
    <2> QED
        BY <2>1, <2>2
<1>12. CASE \E result \in {"not_held", "reported"} : HandleNotice(result)
    BY <1>9, <1>12 DEF HandleNotice, Results
<1>13. CASE NotMoved \/ BoughtBack \/ Fails \/ CarryOver
    BY <1>9, <1>13, <1>n, ResultIn DEF NotMoved, BoughtBack, Fails, CarryOver, Answered
<1>14. CASE Restart
    <2>1. ~Asked'
        <3>1. CASE job["notice"].step \in {"idle", "done"}
            BY <1>14, <1>n, <3>1, RestartWritten DEF Asked
        <3>2. CASE job["notice"].step \notin {"idle", "done"}
            <4>1. job'["notice"] = [job["notice"] EXCEPT !.step = "done", !.result = "failed"]
                BY <1>14, <1>n, <3>2, RestartWritten
            <4> QED
                BY <1>n, <4>1 DEF Asked, Rec
        <3> QED
            BY <3>1, <3>2
    <2> QED
        BY <1>7, <2>1
<1>15. CASE SeenLapses \/ \E o \in rest : RestFills(o)
    BY <1>1, <1>15 DEF SeenLapses, RestFills, book
<1> QED
    BY <1>1, <1>2, <1>4, <1>5, <1>6, <1>8, <1>10, <1>11, <1>12, <1>13, <1>14, <1>15 DEF Next, Notice, vars, book

(* What a roll sets out to move is what it read, and what it closed is     *)
(* known when its close is settled.                                        *)
LEMMA RollKeepsQty ==
    ASSUME TypeInv, LegInv, NEW r \in Rolls, Execute(r)
    PROVE /\ job'[r].qty = job[r].qty
          /\ job[r].step # "closing" => job'[r].closed = job[r].closed
<1>0. r \in Jobs /\ job[r] \in Rec /\ Leg1(r)
    BY Names, JobType DEF LegInv
<1>1. CASE Duplicate(r) \/ Throws(r) \/ CloseFails(r) \/ Restored(r) \/ Incomplete(r)
    <2>1. PICK x \in Results : Writes(r, [job[r] EXCEPT !.step = "done", !.result = x])
        BY <1>1, EndsWritten DEF Results
    <2> QED
        BY <1>0, <2>1 DEF Writes, Rec
<1>2. CASE Retire(r) \/ OpenRejected(r)
    <2>1. PICK s \in {"close", "restore"} : Writes(r, [job[r] EXCEPT !.step = s])
        BY <1>0, <1>2, StepWritten DEF Retire, OpenRejected, Steps, Live
    <2> QED
        BY <1>0, <2>1 DEF Writes, Rec
<1>3. CASE Place(r)
    <2>1. PICK st \in Told, d \in 0..Leg(r).qty : Settles(r, st, d)
        BY <1>0, <1>3, PlaceDoes
    <2>2. PICK next \in Live : next = Leg(r).next
        BY <1>0, <1>3, LegType DEF Place
    <2>3. PICK told : told = [st |-> st, n |-> d]
        OBVIOUS
    <2>4. Writes(r, [job[r] EXCEPT !.step = next, !.told = told])
        BY <2>1, <2>2, <2>3 DEF Settles
    <2> QED
        BY <1>0, <2>4 DEF Writes, Rec
<1>4. CASE Closed(r)
    <2>1. Writes(r, [job[r] EXCEPT !.step = "open", !.closed = job[r].told.n]) /\ job[r].step = "closing"
        BY <1>4, ClosedWritten DEF Closed
    <2> QED
        BY <1>0, <2>1 DEF Writes, Rec
<1>5. CASE Complete(r)
    <2>1. Writes(r, [job[r] EXCEPT !.step = "market", !.opened = job[r].told.n])
        BY <1>5, CompleteWritten
    <2>2. PICK n : n = job[r].told.n
        OBVIOUS
    <2>3. job'[r] = [job[r] EXCEPT !.step = "market", !.opened = n] /\ \A j \in Jobs : j # r => job'[j] = job[j]
        BY <2>1, <2>2 DEF Writes
    <2> QED
        BY <1>0, <1>5, <2>3 DEF Rec
<1>6. CASE Rolled(r)
    <2>1. Writes(r, [job[r] EXCEPT !.step = "done", !.result = "rolled", !.opened = Moved(r)])
        BY <1>6, RolledWritten
    <2>2. job[r].step # "closing"
        BY <1>6 DEF Rolled
    <2> QED
        BY <1>0, <2>1, <2>2 DEF Writes, Rec
<1> QED
    BY <1>1, <1>2, <1>3, <1>4, <1>5, <1>6 DEF Execute

(* There is no way back from there but a roll that comes apart.            *)
LEMMA DoomedStays ==
    ASSUME TypeInv, LegInv, LineInv, LineageInv, Doomed, [Next]_vars, ways' = {}
    PROVE Doomed'
<1>n. /\ {"notice", "auto", "close"} \subseteq Jobs /\ "notice" # "auto" /\ "auto" \in Rolls
      /\ Leg1("auto") /\ job["auto"] \in Rec
    BY Names, JobType DEF LegInv
<1>t. /\ job["auto"].qty \in Nat /\ job["auto"].closed \in Nat /\ exec.qty \in Nat /\ Entries \in Nat
      /\ job["auto"].closed <= job["auto"].qty
    BY <1>n, Numbers, RecType DEF Leg1
<1>1. ASSUME exec' = exec, job'["notice"] = job["notice"], job'["auto"] = job["auto"] PROVE Doomed'
    BY <1>1 DEF Doomed, Waits, Entries
<1>2. ASSUME NEW r \in Rolls, Execute(r) PROVE Doomed'
    <2>1. CASE r # "auto"
        BY <1>1, <1>2, <1>n, <2>1, RollAlone
    <2>2. CASE r = "auto"
        <3>1. Waits' /\ Entries' = Entries /\ exec' = exec
            BY <1>2, RollAlone DEF Doomed
        <3>2. job["auto"].step # "done"
            BY <1>2, <2>2 DEF Execute, Duplicate, Retire, Place, Throws, CloseFails, Closed, Complete, OpenRejected,
                Rolled, Restored, Incomplete
        <3>3. CASE exec.qty # Entries
            BY <3>1, <3>3 DEF Doomed
        <3>4. CASE job["auto"].closed > 0 /\ ~(job["auto"].qty = Entries /\ job["auto"].closed = Entries)
            <4>1. job["auto"].step # "closing"
                BY <1>n, <1>t, <3>4 DEF Leg1, Before
            <4>2. job'["auto"].qty = job["auto"].qty /\ job'["auto"].closed = job["auto"].closed
                BY <1>2, <2>2, <4>1, RollKeepsQty
            <4> QED
                BY <3>1, <3>4, <4>2 DEF Doomed
        <3> QED
            BY <3>2, <3>3, <3>4 DEF Doomed
    <2> QED
        BY <2>1, <2>2
<1>3. ASSUME NEW r \in Requests, Ask(r) PROVE Doomed'
    <2>1. pos["old"] \in Nat
        BY <1>3, Numbers DEF Ask
    <2>2. Writes(r, [Idle EXCEPT !.step = "queued", !.qty = pos["old"]])
        BY <1>3, <2>1, Names, QueueWritten DEF Ask
    <2> QED
        BY <1>1, <1>3, <1>n, <2>2, Names DEF Ask, Writes, book
<1>4. ASSUME Announce \/ SeenLapses \/ TakeNotice \/ RollHeld \/ AskAuto \/ \E x \in {"not_held", "reported"} : HandleNotice(x)
      PROVE FALSE
    BY <1>4 DEF Doomed, Waits, Announce, SeenLapses, TakeNotice, RollHeld, AskAuto, HandleNotice
<1>5. ASSUME NEW c, NEW ws, Rearm(c, ws) PROVE exec.qty = Entries /\ ws = {}
    BY <1>5, <1>t DEF Rearm, Spoil, Way, Doomed
<1>6. ASSUME NotMoved PROVE FALSE
    <2>1. job["auto"].step = "done" /\ job["auto"].result \in {"aborted", "duplicate"} /\ exec.qty = Entries
        BY <1>5, <1>6 DEF NotMoved, Answered
    <2>2. job["auto"].closed = 0
        BY <1>n, <2>1 DEF Leg1
    <2> QED
        BY <2>1, <2>2 DEF Doomed
<1>7. ASSUME BoughtBack PROVE FALSE
    BY <1>5, <1>7 DEF BoughtBack
<1>8. ASSUME Fails PROVE FALSE
    BY <1>8 DEF Fails, Spoil, Way, Doomed
<1>9. ASSUME CarryOver PROVE FALSE
    <2>1. job["auto"].step = "done" /\ job["auto"].result = "rolled"
        BY <1>9 DEF CarryOver, Answered
    <2>2. /\ exec.qty = Entries
          /\ Way("mixed", job["auto"].qty > Entries) \cup Way("split", job["auto"].closed < Entries) = {}
        BY <1>5, <1>9 DEF CarryOver
    <2>3. ~(job["auto"].qty > Entries) /\ ~(job["auto"].closed < Entries)
        BY <2>2 DEF Way
    <2> QED
        BY <1>t, <2>1, <2>2, <2>3 DEF Doomed
<1>10. CASE CloseArrives
    <2>1. Writes("close", [job["close"] EXCEPT !.step = "queued"])
        BY <1>10, <1>n, StepWritten DEF CloseArrives, Steps
    <2> QED
        BY <1>1, <1>10, <1>n, <2>1, Names DEF CloseArrives, Writes, book
<1>11. CASE ClosePosition
    <2>1. /\ exec'.on = exec.on /\ exec'.qty \in Nat /\ exec'.qty <= exec.qty
          /\ job'["notice"] = job["notice"] /\ job'["auto"] = job["auto"]
        BY <1>11, <1>n, CloseFrame
    <2>2. exec.qty <= Entries
        BY DEF LineageInv, Lineage, Doomed, Waits, Asked
    <2>3. exec.qty # Entries => exec'.qty # Entries
        BY <1>t, <2>1, <2>2
    <2> QED
        BY <2>1, <2>3 DEF Doomed, Waits, Entries
<1>12. ASSUME Restart PROVE FALSE
    BY <1>12 DEF Restart, Spoil, Way, Doomed, Waits
<1>13. CASE \E o \in rest : RestFills(o)
    BY <1>1, <1>13 DEF RestFills, book
<1>14. CASE UNCHANGED vars
    BY <1>1, <1>14 DEF vars, book
<1> QED
    BY <1>2, <1>3, <1>4, <1>6, <1>7, <1>8, <1>9, <1>10, <1>11, <1>12, <1>13, <1>14 DEF Next, Notice

----------------------------------------------------------------------------
(* What a roll in progress has taken off the old contract without putting  *)
(* it anywhere, what of it the markers still count as held, and what it    *)
(* has bought on the new contract that no marker counts yet.               *)
Short(r) ==
    LET j == job[r] IN
    CASE j.step = "closing" -> j.told.n
      [] j.step \in {"open", "restore"} -> j.closed
      [] j.step \in {"opening", "restoring"} -> j.closed - j.told.n
      [] j.step = "market" -> j.closed - j.opened
      [] j.step = "marketing" -> j.closed - j.opened - j.told.n
      [] OTHER -> 0

OldOut(r) ==
    LET j == job[r] IN
    CASE j.step = "closing" -> j.told.n
      [] j.step = "restoring" -> -j.told.n
      [] OTHER -> 0

NewIn(r) ==
    LET j == job[r] IN
    CASE j.step = "opening" -> j.told.n
      [] j.step = "market" -> j.opened
      [] j.step = "marketing" -> j.opened + j.told.n
      [] OTHER -> 0

LEMMA ShortType ==
    ASSUME NEW r, job[r] \in Rec
    PROVE Short(r) \in Int /\ OldOut(r) \in Int /\ NewIn(r) \in Int
<1>1. job[r].closed \in Nat /\ job[r].opened \in Nat /\ job[r].told.n \in Nat
    BY RecType
<1>2. Short(r) \in Int
    BY <1>1 DEF Short
<1>3. OldOut(r) \in Int
    BY <1>1 DEF OldOut
<1>4. NewIn(r) \in Int
    BY <1>1 DEF NewIn
<1> QED
    BY <1>2, <1>3, <1>4

(* The bot's contracts as its execution books them on each contract.       *)
Due   == IF Carrying THEN 0 ELSE Lineage
OnNew == IF exec.on = "new" THEN exec.qty ELSE 0

Balanced(short, old, new) ==
    /\ pos["old"] + pos["new"] = story.user + story.bot - sold - lost - short
    /\ pos["old"] = marker["old"] + Due - old
    /\ pos["new"] = marker["new"] + OnNew + new

LEMMA DueType == ASSUME TypeInv PROVE Due \in Nat /\ OnNew \in Nat
BY Numbers DEF Due, OnNew

(* A roll in progress: the user's own has nothing of the bot's, and what   *)
(* it sets out to close is all there is.                                   *)
Going(r) ==
    /\ Balanced(Short(r), OldOut(r), NewIn(r))
    /\ r # "auto" => Lineage = 0
    /\ job[r].step \in {"close", "closing"} => pos["old"] + OldOut(r) = job[r].qty
    /\ job[r].step \notin {"close", "closing"} => job[r].told.st # "thrown"

(* The bot's entries, moved and waiting for the notice, are on the new     *)
(* contract's marker in full.                                              *)
Kept ==
    Carrying /\ job["auto"].step = "done" =>
        job["auto"].opened = Entries /\ job["auto"].result = "rolled" /\ marker["new"] >= Entries

BookInv ==
    ways = {} /\ ~Doomed =>
        /\ (\A r \in Rolls : job[r].step \notin Live) => Balanced(0, 0, 0)
        /\ \A r \in Rolls : job[r].step \in Live => Going(r)
        /\ Kept

LEMMA OneLive ==
    ASSUME LineInv, NEW r \in Jobs, Runs(r), NEW x \in Rolls, x # r
    PROVE job[x].step \notin Live
BY LiveRuns DEF Runs

(* A step that moves no contract and neither starts nor ends a roll.       *)
LEMMA BookSame ==
    ASSUME BookInv, ways = {}, ~Doomed, UNCHANGED <<story, pos, marker, exec, sold, lost>>, Carrying' <=> Carrying,
           \A r \in Rolls : (job'[r].step \in Live <=> job[r].step \in Live) /\ (job[r].step \in Live => job'[r] = job[r]),
           Kept'
    PROVE BookInv'
<1>1. Due' = Due /\ OnNew' = OnNew /\ Lineage' = Lineage
    BY DEF Due, OnNew, Lineage
<1>2. ASSUME \A r \in Rolls : job'[r].step \notin Live PROVE Balanced(0, 0, 0)'
    <2>1. Balanced(0, 0, 0)
        BY <1>2 DEF BookInv
    <2> QED
        BY <1>1, <2>1 DEF Balanced
<1>3. ASSUME NEW r \in Rolls, job'[r].step \in Live PROVE Going(r)'
    <2>1. Going(r) /\ job'[r] = job[r]
        BY <1>3 DEF BookInv
    <2>2. Short(r)' = Short(r) /\ OldOut(r)' = OldOut(r) /\ NewIn(r)' = NewIn(r)
        BY <2>1 DEF Short, OldOut, NewIn
    <2> QED
        BY <1>1, <2>1, <2>2 DEF Going, Balanced
<1> QED
    BY <1>2, <1>3 DEF BookInv

(* The roll at the head goes on, or is over.                               *)
LEMMA BookGoesOn ==
    ASSUME LineInv, NEW r \in Rolls, Runs(r), \A j \in Jobs : j # r => job'[j] = job[j],
           job'[r].step \in Live, Going(r)', Kept'
    PROVE BookInv'
<1>1. \A x \in Rolls : x # r => job'[x].step \notin Live
    BY OneLive, Names
<1> QED
    BY <1>1 DEF BookInv

LEMMA BookEnds ==
    ASSUME LineInv, NEW r \in Jobs, Runs(r), \A j \in Jobs : j # r => job'[j] = job[j],
           job'[r].step \notin Live, Balanced(0, 0, 0)', Kept'
    PROVE BookInv'
<1>1. \A x \in Rolls : job'[x].step \notin Live
    BY OneLive, Names
<1> QED
    BY <1>1 DEF BookInv

(* What holds of the books at a step of a roll.                            *)
LEMMA RollBook ==
    ASSUME TypeInv, LegInv, LineInv, BookInv, ways = {}, ~Doomed, NEW r \in Rolls, Execute(r)
    PROVE /\ Runs(r) /\ \A j \in Jobs : j # r => job'[j] = job[j]
          /\ job[r].step = "queued" => Balanced(0, 0, 0)
          /\ job[r].step \in Live => Going(r)
          /\ Kept /\ OnNew' = OnNew /\ Lineage' = Lineage /\ story' = story /\ sold' = sold
          /\ r # "auto" => (Carrying' <=> Carrying)
          /\ job'["auto"].closed = job["auto"].closed => (Carrying' <=> Carrying)
<1>1. Runs(r)
    BY LiveRuns DEF Execute, Duplicate, Retire, Place, Throws, CloseFails, Closed, Complete, OpenRejected, Rolled,
        Restored, Incomplete, Live, Got
<1>2. job[r].step = "queued" => Balanced(0, 0, 0)
    <2>1. ASSUME job[r].step = "queued" PROVE \A x \in Rolls : job[x].step \notin Live
        BY <1>1, <2>1, Names, OneLive DEF Live
    <2> QED
        BY <2>1 DEF BookInv
<1>3. /\ \A j \in Jobs : j # r => job'[j] = job[j]
      /\ Entries' = Entries /\ Lineage' = Lineage /\ (Waits' <=> Waits) /\ exec' = exec
    BY RollAlone
<1>4. OnNew' = OnNew /\ story' = story /\ sold' = sold
    BY <1>3, RollFrame DEF OnNew
<1>5. job'["auto"].closed = job["auto"].closed => (Carrying' <=> Carrying)
    BY <1>3 DEF Carrying
<1>6. r # "auto" => job'["auto"] = job["auto"]
    BY <1>3, Names
<1> QED
    BY <1>1, <1>2, <1>3, <1>4, <1>5, <1>6 DEF BookInv

(* The bot's entries are on the new contract's marker only at the end of a *)
(* roll that moved them all.                                               *)
LEMMA KeptOther ==
    ASSUME TypeInv, TypeInv', LegInv, LineInv, BookInv, ways = {}, ~Doomed, NEW r \in Rolls, Execute(r), r # "auto",
           marker'["new"] >= marker["new"]
    PROVE Kept'
<1>1. Kept /\ (Carrying' <=> Carrying) /\ job'["auto"] = job["auto"] /\ Entries' = Entries
    BY RollBook, RollAlone, Names
<1>2. marker'["new"] \in Nat /\ marker["new"] \in Nat /\ Entries \in Nat
    BY Numbers DEF TypeInv, Contracts
<1> QED
    BY <1>1, <1>2 DEF Kept

LEMMA KeptWell ==
    ASSUME ~Doomed',
           \/ job'["auto"].step # "done"
           \/ ~(job'["auto"].closed > 0)
           \/ job'["auto"].result \in {"restored", "incomplete", "failed"}
           \/ job'["auto"].result = "rolled" /\ job'["auto"].opened = job'["auto"].closed
              /\ marker'["new"] >= job'["auto"].closed
    PROVE Kept'
<1>1. Carrying' => Waits' /\ Entries' > 0 /\ job'["auto"].closed > 0
    BY DEF Carrying
<1>2. Carrying' => /\ job'["auto"].closed = Entries'
                   /\ job'["auto"].step = "done" => job'["auto"].result \notin {"restored", "incomplete", "failed"}
    BY <1>1 DEF Doomed
<1> QED
    BY <1>1, <1>2 DEF Kept

(* Each step of a roll keeps the books balanced.                           *)
LEMMA BookQuiet ==
    ASSUME TypeInv, TypeInv', LegInv, LineInv, BookInv, ways = {}, ~Doomed, ways' = {}, ~Doomed',
           NEW r \in Rolls, Duplicate(r) \/ Retire(r) \/ Throws(r) \/ CloseFails(r)
    PROVE BookInv'
<1>0. r \in Jobs /\ job[r] \in Rec /\ Leg1(r) /\ Execute(r)
    BY Names, JobType DEF LegInv, Execute
<1>t. /\ job[r].qty \in Nat /\ job[r].closed \in Nat /\ job[r].told.n \in Nat
    BY <1>0, RecType
<1>b. /\ Runs(r) /\ \A j \in Jobs : j # r => job'[j] = job[j]
      /\ job[r].step = "queued" => Balanced(0, 0, 0)
      /\ job[r].step \in Live => Going(r)
      /\ OnNew' = OnNew /\ Lineage' = Lineage /\ story' = story
      /\ r # "auto" => (Carrying' <=> Carrying)
      /\ job'["auto"].closed = job["auto"].closed => (Carrying' <=> Carrying)
    BY <1>0, RollBook
<1>1. UNCHANGED <<pos, marker, sold, lost>>
    BY DEF Duplicate, Retire, Throws, CloseFails, venue, book, ghost
<1>2. CASE Duplicate(r)
    <2>1. Writes(r, [job[r] EXCEPT !.step = "done", !.result = "duplicate"]) /\ job[r].step = "queued"
        BY <1>2, EndsWritten DEF Duplicate
    <2>2. job'[r].step = "done" /\ job'[r].closed = 0 /\ job[r].closed = 0
        BY <1>0, <2>1 DEF Writes, Rec, Leg1, Before
    <2>3. Carrying' <=> Carrying
        BY <1>b, <2>2
    <2>4. Balanced(0, 0, 0)'
        BY <1>1, <1>b, <2>1, <2>3 DEF Balanced, Due
    <2>5. Kept'
        BY <1>0, <1>1, <2>2, KeptOther, KeptWell, Numbers
    <2> QED
        BY <1>0, <1>b, <2>2, <2>4, <2>5, BookEnds DEF Live
<1>3. CASE Retire(r)
    <2>1. Writes(r, [job[r] EXCEPT !.step = "close"]) /\ job[r].step = "queued"
        BY <1>0, <1>3, StepWritten DEF Retire, Steps, Live
    <2>2. job'[r].step = "close" /\ job'[r].closed = job[r].closed /\ job'[r].qty = job[r].qty
        BY <1>0, <2>1 DEF Writes, Rec
    <2>3. Carrying' <=> Carrying
        BY <1>b, <2>2
    <2>4. (r # "auto" => Lineage = 0) /\ job[r].qty = pos["old"]
        <3>1. /\ Way("foreign", r # "auto" /\ exec.on = "old" /\ exec.qty > 0) = {}
              /\ Way("stale", job[r].qty # pos["old"]) = {}
            BY <1>3 DEF Retire, Spoil
        <3>2. ~(r # "auto" /\ exec.on = "old" /\ exec.qty > 0) /\ job[r].qty = pos["old"]
            BY <3>1 DEF Way
        <3> QED
            BY <3>2, Numbers DEF Lineage
    <2>5. Balanced(0, 0, 0)'
        BY <1>1, <1>b, <2>1, <2>3 DEF Balanced, Due
    <2>6. Short(r)' = 0 /\ OldOut(r)' = 0 /\ NewIn(r)' = 0
        BY <2>2 DEF Short, OldOut, NewIn
    <2>7. Going(r)'
        BY <1>1, <1>b, <2>2, <2>4, <2>5, <2>6, Numbers DEF Going
    <2>8. Kept'
        BY <1>0, <1>1, <2>2, KeptOther, KeptWell, Numbers
    <2> QED
        BY <1>b, <2>2, <2>7, <2>8, BookGoesOn DEF Live
<1>4. CASE Throws(r) \/ CloseFails(r)
    <2>1. Going(r) /\ job[r].step = "closing" /\ job[r].told.n = 0
        BY <1>0, <1>4, <1>b, <1>t DEF Throws, CloseFails, Going, Live, Leg1
    <2>2. PICK x \in {"failed", "aborted"} : Writes(r, [job[r] EXCEPT !.step = "done", !.result = x])
        BY <1>4, EndsWritten
    <2>3. job'[r].step = "done" /\ job'[r].closed = 0 /\ job[r].closed = 0
        BY <1>0, <2>1, <2>2 DEF Writes, Rec, Leg1, Before
    <2>4. Carrying' <=> Carrying
        BY <1>b, <2>3
    <2>5. Short(r) = 0 /\ OldOut(r) = 0 /\ NewIn(r) = 0
        BY <2>1 DEF Short, OldOut, NewIn
    <2>6. Balanced(0, 0, 0)'
        BY <1>1, <1>b, <2>1, <2>4, <2>5 DEF Going, Balanced, Due
    <2>7. Kept'
        BY <1>0, <1>1, <2>3, KeptOther, KeptWell, Numbers
    <2> QED
        BY <1>0, <1>b, <2>3, <2>6, <2>7, BookEnds DEF Live
<1> QED
    BY <1>2, <1>3, <1>4

LEMMA BookPlace ==
    ASSUME TypeInv, TypeInv', LegInv, LineInv, BookInv, ways = {}, ~Doomed, ways' = {}, ~Doomed',
           NEW r \in Rolls, Place(r)
    PROVE BookInv'
<1>0. r \in Jobs /\ job[r] \in Rec /\ Leg1(r) /\ Execute(r) /\ job[r].step \in {"close", "open", "market", "restore"}
    BY Names, JobType DEF LegInv, Execute, Place
<1>t. /\ job[r].qty \in Nat /\ job[r].closed \in Nat /\ job[r].opened \in Nat
    BY <1>0, RecType
<1>b. /\ Runs(r) /\ \A j \in Jobs : j # r => job'[j] = job[j]
      /\ Going(r) /\ OnNew' = OnNew /\ Lineage' = Lineage
      /\ r # "auto" => (Carrying' <=> Carrying)
      /\ job'["auto"].closed = job["auto"].closed => (Carrying' <=> Carrying)
    BY <1>0, RollBook DEF Live
<1>1. PICK st \in Told, d \in 0..Leg(r).qty : (d > 0 <=> st \in {"filled", "partially_filled"}) /\ Settles(r, st, d)
    BY <1>0, PlaceDoes
<1>2. d \in Nat
    BY <1>0, <1>1, LegType
<1>3. PICK told : told = [st |-> st, n |-> d]
    OBVIOUS
<1>4. PICK next \in Live : next = Leg(r).next
    BY <1>0, LegType
<1>5. Writes(r, [job[r] EXCEPT !.step = next, !.told = told])
    BY <1>1, <1>3, <1>4 DEF Settles
<1>6. /\ job'[r].step = next /\ job'[r].told = told /\ job'[r].qty = job[r].qty /\ job'[r].closed = job[r].closed
      /\ job'[r].opened = job[r].opened
    BY <1>0, <1>5 DEF Writes, Rec
<1>7. job'[r].told.n = d /\ job'[r].told.st = st
    BY <1>3, <1>6
<1>8. Carrying' <=> Carrying
    BY <1>b, <1>6
<1>9. /\ UNCHANGED <<story, marker, sold, lost>> /\ Due' = Due
    BY <1>1, <1>8, <1>b DEF Settles, ghost, Due
<1>10. st = "thrown" => job[r].step = "close"
    BY <1>1 DEF Settles, Way
<1>11. Kept'
    BY <1>0, <1>4, <1>6, <1>9, KeptOther, KeptWell, Numbers DEF Live
<1>12. pos' = [pos EXCEPT ![Leg(r).on] = @ + Leg(r).side * d]
    BY <1>1 DEF Settles
<1>13. pos["old"] \in Int /\ pos["new"] \in Int /\ pos \in [Contracts -> Int] /\ Lineage \in Nat
    BY Numbers DEF TypeInv
<1>14. CASE job[r].step = "close"
    <2>1. Leg(r).on = "old" /\ Leg(r).side = -1 /\ next = "closing"
        BY <1>4, <1>14, LegIs
    <2>2. pos'["old"] = pos["old"] - d /\ pos'["new"] = pos["new"]
        BY <1>2, <1>12, <1>13, <2>1 DEF Contracts
    <2>3. /\ Short(r) = 0 /\ OldOut(r) = 0 /\ NewIn(r) = 0
          /\ Short(r)' = d /\ OldOut(r)' = d /\ NewIn(r)' = 0
        BY <1>6, <1>7, <1>14, <2>1 DEF Short, OldOut, NewIn
    <2>4. Going(r)'
        <3>1. Balanced(Short(r), OldOut(r), NewIn(r))'
            BY <1>2, <1>9, <1>b, <2>2, <2>3, Numbers, DueType DEF Going, Balanced
        <3>2. pos'["old"] + d = job'[r].qty
            BY <1>2, <1>6, <1>14, <1>b, <2>2, <2>3, Numbers DEF Going
        <3> QED
            BY <1>6, <1>b, <2>1, <2>3, <3>1, <3>2 DEF Going
    <2> QED
        BY <1>6, <1>11, <1>b, <2>4, BookGoesOn
<1>15. CASE job[r].step = "open"
    <2>1. Leg(r).on = "new" /\ Leg(r).side = 1 /\ next = "opening"
        BY <1>4, <1>15, LegIs
    <2>2. pos'["old"] = pos["old"] /\ pos'["new"] = pos["new"] + d
        BY <1>2, <1>12, <1>13, <2>1 DEF Contracts
    <2>3. /\ Short(r) = job[r].closed /\ OldOut(r) = 0 /\ NewIn(r) = 0
          /\ Short(r)' = job[r].closed - d /\ OldOut(r)' = 0 /\ NewIn(r)' = d
        BY <1>6, <1>7, <1>15, <2>1 DEF Short, OldOut, NewIn
    <2>4. Going(r)'
        <3>1. Balanced(Short(r), OldOut(r), NewIn(r))'
            <4>1. pos["old"] + pos["new"] = story.user + story.bot - sold - lost - Short(r)
                BY <1>b DEF Going, Balanced
            <4>2. pos["old"] = marker["old"] + Due - OldOut(r) /\ pos["new"] = marker["new"] + OnNew + NewIn(r)
                BY <1>b DEF Going, Balanced
            <4>3. pos'["old"] + pos'["new"] = story'.user + story'.bot - sold' - lost' - Short(r)'
                BY <1>2, <1>9, <1>t, <2>2, <2>3, <4>1, Numbers
            <4>4. pos'["old"] = marker'["old"] + Due' - OldOut(r)'
                BY <1>2, <1>9, <1>t, <2>2, <2>3, <4>2, Numbers, DueType
            <4>5. pos'["new"] = marker'["new"] + OnNew' + NewIn(r)'
                BY <1>2, <1>9, <1>b, <1>t, <2>2, <2>3, <4>2, Numbers, DueType
            <4> QED
                BY <4>3, <4>4, <4>5 DEF Balanced
        <3> QED
            BY <1>6, <1>7, <1>10, <1>b, <1>15, <2>1, <3>1 DEF Going
    <2> QED
        BY <1>6, <1>11, <1>b, <2>4, BookGoesOn
<1>16. CASE job[r].step = "market"
    <2>1. Leg(r).on = "new" /\ Leg(r).side = 1 /\ next = "marketing"
        BY <1>4, <1>16, LegIs
    <2>2. pos'["old"] = pos["old"] /\ pos'["new"] = pos["new"] + d
        BY <1>2, <1>12, <1>13, <2>1 DEF Contracts
    <2>3. /\ Short(r) = job[r].closed - job[r].opened /\ OldOut(r) = 0 /\ NewIn(r) = job[r].opened
          /\ Short(r)' = job[r].closed - job[r].opened - d /\ OldOut(r)' = 0 /\ NewIn(r)' = job[r].opened + d
        BY <1>6, <1>7, <1>16, <2>1 DEF Short, OldOut, NewIn
    <2>4. Going(r)'
        <3>1. Balanced(Short(r), OldOut(r), NewIn(r))'
            <4>1. pos["old"] + pos["new"] = story.user + story.bot - sold - lost - Short(r)
                BY <1>b DEF Going, Balanced
            <4>2. pos["old"] = marker["old"] + Due - OldOut(r) /\ pos["new"] = marker["new"] + OnNew + NewIn(r)
                BY <1>b DEF Going, Balanced
            <4>3. pos'["old"] + pos'["new"] = story'.user + story'.bot - sold' - lost' - Short(r)'
                BY <1>2, <1>9, <1>t, <2>2, <2>3, <4>1, Numbers
            <4>4. pos'["old"] = marker'["old"] + Due' - OldOut(r)'
                BY <1>2, <1>9, <1>t, <2>2, <2>3, <4>2, Numbers, DueType
            <4>5. pos'["new"] = marker'["new"] + OnNew' + NewIn(r)'
                BY <1>2, <1>9, <1>b, <1>t, <2>2, <2>3, <4>2, Numbers, DueType
            <4> QED
                BY <4>3, <4>4, <4>5 DEF Balanced
        <3> QED
            BY <1>6, <1>7, <1>10, <1>b, <1>16, <2>1, <3>1 DEF Going
    <2> QED
        BY <1>6, <1>11, <1>b, <2>4, BookGoesOn
<1>17. CASE job[r].step = "restore"
    <2>1. Leg(r).on = "old" /\ Leg(r).side = 1 /\ next = "restoring"
        BY <1>4, <1>17, LegIs
    <2>2. pos'["old"] = pos["old"] + d /\ pos'["new"] = pos["new"]
        BY <1>2, <1>12, <1>13, <2>1 DEF Contracts
    <2>3. /\ Short(r) = job[r].closed /\ OldOut(r) = 0 /\ NewIn(r) = 0
          /\ Short(r)' = job[r].closed - d /\ OldOut(r)' = -d /\ NewIn(r)' = 0
        BY <1>6, <1>7, <1>17, <2>1 DEF Short, OldOut, NewIn
    <2>4. Going(r)'
        <3>1. Balanced(Short(r), OldOut(r), NewIn(r))'
            <4>1. pos["old"] + pos["new"] = story.user + story.bot - sold - lost - Short(r)
                BY <1>b DEF Going, Balanced
            <4>2. pos["old"] = marker["old"] + Due - OldOut(r) /\ pos["new"] = marker["new"] + OnNew + NewIn(r)
                BY <1>b DEF Going, Balanced
            <4>3. pos'["old"] + pos'["new"] = story'.user + story'.bot - sold' - lost' - Short(r)'
                BY <1>2, <1>9, <1>t, <2>2, <2>3, <4>1, Numbers
            <4>4. pos'["old"] = marker'["old"] + Due' - OldOut(r)'
                BY <1>2, <1>9, <1>t, <2>2, <2>3, <4>2, Numbers, DueType
            <4>5. pos'["new"] = marker'["new"] + OnNew' + NewIn(r)'
                BY <1>2, <1>9, <1>b, <1>t, <2>2, <2>3, <4>2, Numbers, DueType
            <4> QED
                BY <4>3, <4>4, <4>5 DEF Balanced
        <3> QED
            BY <1>6, <1>7, <1>10, <1>b, <1>17, <2>1, <3>1 DEF Going
    <2> QED
        BY <1>6, <1>11, <1>b, <2>4, BookGoesOn
<1> QED
    BY <1>0, <1>14, <1>15, <1>16, <1>17

LEMMA BookClosed ==
    ASSUME TypeInv, TypeInv', LegInv, LineInv, LineageInv, BookInv, ways = {}, ~Doomed, ways' = {}, ~Doomed',
           NEW r \in Rolls, Closed(r)
    PROVE BookInv'
<1>0. r \in Jobs /\ job[r] \in Rec /\ Leg1(r) /\ Execute(r) /\ job[r].step = "closing" /\ Got(r)
    BY Names, JobType DEF LegInv, Execute, Closed
<1>t. /\ job[r].qty \in Nat /\ job[r].closed \in Nat /\ job[r].opened \in Nat /\ job[r].told.n \in Nat
    BY <1>0, RecType
<1>b. /\ Runs(r) /\ \A j \in Jobs : j # r => job'[j] = job[j]
      /\ Going(r) /\ OnNew' = OnNew /\ Lineage' = Lineage
      /\ r # "auto" => (Carrying' <=> Carrying)
    BY <1>0, RollBook DEF Live
<1>1. Writes(r, [job[r] EXCEPT !.step = "open", !.closed = job[r].told.n])
    BY ClosedWritten
<1>2. PICK n \in Nat : n = job[r].told.n
    BY <1>t
<1>3. /\ job'[r].step = "open" /\ job'[r].told = job[r].told /\ job'[r].qty = job[r].qty /\ job'[r].closed = n
    BY <1>0, <1>1, <1>2 DEF Writes, Rec
<1>4. n > 0 /\ n <= job[r].qty /\ job[r].closed = 0
    BY <1>0, <1>2, <1>t DEF Leg1, Got, Before
<1>5. UNCHANGED <<story, pos, sold, lost>>
    BY DEF Closed, venue, ghost
<1>6. /\ marker'["old"] = (IF marker["old"] > n THEN marker["old"] - n ELSE 0) /\ marker'["new"] = marker["new"]
    BY <1>2, ReducedType DEF Closed, Contracts
<1>7. Short(r) = n /\ OldOut(r) = n /\ NewIn(r) = 0 /\ Short(r)' = n /\ OldOut(r)' = 0 /\ NewIn(r)' = 0
    BY <1>0, <1>2, <1>3 DEF Short, OldOut, NewIn
<1>8. /\ pos["old"] = marker["old"] + Due - n /\ pos["old"] + n = job[r].qty
      /\ pos["old"] + pos["new"] = story.user + story.bot - sold - lost - n
      /\ pos["new"] = marker["new"] + OnNew
    BY <1>0, <1>7, <1>b, Numbers DEF Going, Balanced, OnNew
<1>9. pos["old"] = marker'["old"] + Due'
    <2>1. CASE r # "auto"
        <3>1. Due = 0 /\ Due' = 0
            BY <1>b, <2>1 DEF Going, Due
        <3> QED
            BY <1>2, <1>4, <1>6, <1>8, <3>1, <1>t, Numbers
    <2>2. CASE r = "auto"
        <3>1. Waits /\ Asked /\ Waits' /\ Entries' = Entries /\ exec' = exec
            BY <1>0, <2>2, RollAlone DEF LineInv, Waits, Asked
        <3>2. Due = Lineage
            BY <1>4, <2>2 DEF Due, Carrying
        <3>3. CASE Entries = 0
            <4>1. Lineage = 0 /\ Due' = 0
                BY <1>b, <3>1, <3>3, Numbers DEF LineageInv, Due
            <4> QED
                BY <1>2, <1>4, <1>6, <1>8, <3>2, <4>1, <1>t, Numbers
        <3>4. CASE Entries > 0
            <4>1. exec.qty = Entries /\ job[r].qty = Entries /\ n = Entries
                BY <1>3, <1>4, <2>2, <3>1, <3>4 DEF Doomed
            <4>2. Lineage = Entries
                BY <3>1, <3>4, <4>1 DEF LineageInv, Lineage
            <4>3. Due' = 0
                BY <1>3, <1>4, <2>2, <3>1, <3>4 DEF Due, Carrying
            <4> QED
                BY <1>2, <1>4, <1>6, <1>8, <3>2, <4>1, <4>2, <4>3, Numbers
        <3> QED
            BY <3>3, <3>4, Numbers
    <2> QED
        BY <2>1, <2>2
<1>10. job'[r].told.st # "thrown"
    BY <1>0, <1>3 DEF Got
<1>11. Going(r)'
    <2>1. Balanced(Short(r), OldOut(r), NewIn(r))'
        <3>1. Due' \in Nat
            BY <1>b, Numbers DEF Due
        <3>2. marker'["old"] \in Nat
            BY <1>2, <1>6, Numbers
        <3> QED
            BY <1>2, <1>5, <1>6, <1>7, <1>8, <1>9, <1>b, <3>1, <3>2, Numbers, DueType DEF Balanced
    <2> QED
        BY <1>3, <1>10, <1>b, <2>1 DEF Going
<1>12. Kept'
    BY <1>0, <1>3, <1>6, KeptOther, KeptWell, Numbers
<1> QED
    BY <1>3, <1>11, <1>12, <1>b, BookGoesOn DEF Live

LEMMA BookTurns ==
    ASSUME TypeInv, TypeInv', LegInv, LineInv, BookInv, ways = {}, ~Doomed, ways' = {}, ~Doomed',
           NEW r \in Rolls, Complete(r) \/ OpenRejected(r)
    PROVE BookInv'
<1>0. r \in Jobs /\ job[r] \in Rec /\ Leg1(r) /\ Execute(r) /\ job[r].step \in {"opening", "marketing"}
    BY Names, JobType DEF LegInv, Execute, Complete, OpenRejected
<1>t. /\ job[r].qty \in Nat /\ job[r].closed \in Nat /\ job[r].opened \in Nat /\ job[r].told.n \in Nat
    BY <1>0, RecType
<1>b. /\ Runs(r) /\ \A j \in Jobs : j # r => job'[j] = job[j]
      /\ Going(r) /\ OnNew' = OnNew /\ Lineage' = Lineage
      /\ r # "auto" => (Carrying' <=> Carrying)
      /\ job'["auto"].closed = job["auto"].closed => (Carrying' <=> Carrying)
    BY <1>0, RollBook DEF Live
<1>1. UNCHANGED <<story, pos, marker, sold, lost>>
    BY DEF Complete, OpenRejected, venue, book, ghost
<1>2. CASE Complete(r)
    <2>1. Writes(r, [job[r] EXCEPT !.step = "market", !.opened = job[r].told.n]) /\ job[r].step = "opening"
        BY <1>2, CompleteWritten DEF Complete
    <2>2. /\ job'[r].step = "market" /\ job'[r].told = job[r].told /\ job'[r].closed = job[r].closed
          /\ job'[r].opened = job[r].told.n
        BY <1>0, <2>1 DEF Writes, Rec
    <2>3. Due' = Due
        BY <1>b, <2>2 DEF Due
    <2>4. /\ Short(r)' = Short(r) /\ OldOut(r)' = OldOut(r) /\ NewIn(r)' = NewIn(r)
        BY <2>1, <2>2 DEF Short, OldOut, NewIn
    <2>5. Going(r)'
        BY <1>0, <1>1, <1>b, <2>2, <2>3, <2>4 DEF Going, Balanced
    <2>6. Kept'
        BY <1>0, <1>1, <2>2, KeptOther, KeptWell, Numbers
    <2> QED
        BY <1>b, <2>2, <2>5, <2>6, BookGoesOn DEF Live
<1>3. CASE OpenRejected(r)
    <2>1. /\ Writes(r, [job[r] EXCEPT !.step = "restore"])
          /\ job[r].told.st = "rejected" /\ Opened(r) = 0
        BY <1>0, <1>3, StepWritten DEF OpenRejected, Steps, Live
    <2>2. /\ job'[r].step = "restore" /\ job'[r].told = job[r].told /\ job'[r].closed = job[r].closed
        BY <1>0, <2>1 DEF Writes, Rec
    <2>3. Due' = Due
        BY <1>b, <2>2 DEF Due
    <2>4. job[r].told.n = 0 /\ (job[r].step = "marketing" => job[r].opened = 0)
        BY <1>0, <1>t, <2>1 DEF Leg1, Opened
    <2>5. /\ Short(r)' = Short(r) /\ OldOut(r)' = OldOut(r) /\ NewIn(r)' = NewIn(r)
        BY <1>0, <1>t, <2>2, <2>4 DEF Short, OldOut, NewIn
    <2>6. Going(r)'
        BY <1>0, <1>1, <1>b, <2>2, <2>3, <2>5 DEF Going, Balanced
    <2>7. Kept'
        BY <1>0, <1>1, <2>2, KeptOther, KeptWell, Numbers
    <2> QED
        BY <1>b, <2>2, <2>6, <2>7, BookGoesOn DEF Live
<1> QED
    BY <1>2, <1>3

LEMMA BookOver ==
    ASSUME TypeInv, TypeInv', LegInv, LineInv, BookInv, ways = {}, ~Doomed, ways' = {}, ~Doomed',
           NEW r \in Rolls, Rolled(r) \/ Restored(r) \/ Incomplete(r)
    PROVE BookInv'
<1>0. r \in Jobs /\ job[r] \in Rec /\ Leg1(r) /\ Execute(r) /\ job[r].step \in {"opening", "marketing", "restoring"}
    BY Names, JobType DEF LegInv, Execute, Rolled, Restored, Incomplete
<1>t. /\ job[r].qty \in Nat /\ job[r].closed \in Nat /\ job[r].opened \in Nat /\ job[r].told.n \in Nat
    BY <1>0, RecType
<1>b. /\ Runs(r) /\ \A j \in Jobs : j # r => job'[j] = job[j]
      /\ Going(r) /\ OnNew' = OnNew /\ Lineage' = Lineage
      /\ r # "auto" => (Carrying' <=> Carrying)
      /\ job'["auto"].closed = job["auto"].closed => (Carrying' <=> Carrying)
    BY <1>0, RollBook DEF Live
<1>1. UNCHANGED <<story, pos, sold>>
    BY DEF Rolled, Restored, Incomplete, venue, book, ghost
<1>2. job'["auto"].closed = job["auto"].closed
    <2>1. r # "auto" => job'["auto"] = job["auto"]
        BY <1>b, Names
    <2>2. job'[r].closed = job[r].closed
        BY <1>0, RollKeepsQty
    <2> QED
        BY <2>1, <2>2
<1>3. Due' = Due /\ Due \in Nat /\ OnNew \in Nat
    BY <1>2, <1>b, DueType DEF Due
<1>4. CASE Rolled(r)
    <2>1. /\ Writes(r, [job[r] EXCEPT !.step = "done", !.result = "rolled", !.opened = Moved(r)])
          /\ job[r].step \in {"opening", "marketing"}
        BY <1>4, RolledWritten DEF Rolled
    <2>2. Opened(r) = job[r].closed
        <3>1. /\ Way("killed", job[r].told.st # "unknown" /\ Opened(r) # job[r].closed) = {}
              /\ Way("guessed", job[r].told.st = "unknown") = {}
            BY <1>4 DEF Rolled, Spoil
        <3> QED
            BY <3>1 DEF Way
    <2>3. job[r].closed > 0 /\ Moved(r) = job[r].closed
        BY <1>0, <1>t, <2>1, <2>2 DEF Leg1, Moved, After, Before, Live
    <2>4. /\ job'[r].step = "done" /\ job'[r].result = "rolled" /\ job'[r].opened = job[r].closed
          /\ job'[r].closed = job[r].closed
        BY <1>0, <2>1, <2>3 DEF Writes, Rec
    <2>5. PICK n \in Nat : n = job[r].closed
        BY <1>t
    <2>6. marker'["new"] = marker["new"] + n /\ marker'["old"] = marker["old"]
        BY <1>4, <2>3, <2>5, PlusType DEF Rolled, Contracts
    <2>7. Short(r) = 0 /\ OldOut(r) = 0 /\ NewIn(r) = n
        BY <1>t, <2>1, <2>2, <2>5 DEF Opened, Short, OldOut, NewIn
    <2>8. Balanced(0, 0, 0)'
        <3>1. lost' = lost
            BY <1>4 DEF Rolled, ghost
        <3> QED
            BY <1>1, <1>3, <1>b, <2>6, <2>7, <3>1, Numbers DEF Going, Balanced
    <2>9. Kept'
        <3>1. marker'["new"] >= n
            BY <2>6, Numbers
        <3>2. CASE r = "auto"
            BY <2>4, <2>5, <3>1, <3>2, KeptWell
        <3>3. CASE r # "auto"
            BY <1>0, <2>6, <3>3, KeptOther, Numbers
        <3> QED
            BY <3>2, <3>3
    <2> QED
        BY <1>0, <1>b, <2>4, <2>8, <2>9, BookEnds DEF Live
<1>5. CASE Restored(r)
    <2>1. Writes(r, [job[r] EXCEPT !.step = "done", !.result = "restored"]) /\ job[r].step = "restoring" /\ Got(r)
        BY <1>5, EndsWritten DEF Restored
    <2>2. job[r].told.n = job[r].closed
        BY <1>5 DEF Restored, Spoil, Way
    <2>3. job'[r].step = "done" /\ job'[r].result = "restored"
        BY <1>0, <2>1 DEF Writes, Rec
    <2>4. PICK n \in Nat : n = job[r].told.n
        BY <1>t
    <2>5. marker'["old"] = marker["old"] + n /\ marker'["new"] = marker["new"]
        BY <1>5, <2>4, PlusType DEF Restored, Contracts
    <2>6. Short(r) = 0 /\ OldOut(r) = -n /\ NewIn(r) = 0
        BY <1>t, <2>1, <2>2, <2>4 DEF Short, OldOut, NewIn
    <2>7. Balanced(0, 0, 0)'
        <3>1. lost' = lost
            BY <1>5 DEF Restored, ghost
        <3> QED
            BY <1>1, <1>3, <1>b, <2>5, <2>6, <3>1, Numbers DEF Going, Balanced
    <2>8. Kept'
        BY <1>0, <2>3, <2>5, KeptOther, KeptWell, Numbers
    <2> QED
        BY <1>0, <1>b, <2>3, <2>7, <2>8, BookEnds DEF Live
<1>6. CASE Incomplete(r)
    <2>1. /\ Writes(r, [job[r] EXCEPT !.step = "done", !.result = "incomplete"]) /\ job[r].step = "restoring"
          /\ job[r].told.n = 0
        <3>1. job[r].step = "restoring" /\ job[r].told.st \in {"rejected", "cancelled", "unknown"}
            BY <1>6 DEF Incomplete
        <3>2. job[r].told.n = 0
            BY <1>0, <1>t, <3>1 DEF Leg1
        <3> QED
            BY <1>6, <3>1, <3>2, EndsWritten
    <2>2. job'[r].step = "done" /\ job'[r].result = "incomplete"
        BY <1>0, <2>1 DEF Writes, Rec
    <2>3. PICK n \in Nat : n = job[r].closed
        BY <1>t
    <2>4. lost' = lost + n /\ marker' = marker
        BY <1>6, <2>3 DEF Incomplete, book
    <2>5. Short(r) = n /\ OldOut(r) = 0 /\ NewIn(r) = 0
        <3>1. Short(r) = job[r].closed - job[r].told.n /\ OldOut(r) = -job[r].told.n /\ NewIn(r) = 0
            BY <1>t, <2>1 DEF Short, OldOut, NewIn
        <3>2. PICK k \in Nat : k = job[r].told.n
            BY <1>t
        <3>3. k = 0 /\ Short(r) = n - k /\ OldOut(r) = -k
            BY <2>1, <2>3, <3>1, <3>2
        <3> QED
            BY <3>1, <3>3
    <2>6. Balanced(0, 0, 0)'
        BY <1>1, <1>3, <1>b, <2>4, <2>5, Numbers DEF Going, Balanced
    <2>7. Kept'
        BY <1>0, <2>2, <2>4, KeptOther, KeptWell, Numbers
    <2> QED
        BY <1>0, <1>b, <2>2, <2>6, <2>7, BookEnds DEF Live
<1> QED
    BY <1>4, <1>5, <1>6

LEMMA BookRoll ==
    ASSUME TypeInv, TypeInv', LegInv, LineInv, LineageInv, BookInv, ways = {}, ~Doomed, ways' = {}, ~Doomed',
           NEW r \in Rolls, Execute(r)
    PROVE BookInv'
BY BookQuiet, BookPlace, BookClosed, BookTurns, BookOver DEF Execute

(* The notice's steps move no contract; when it carries the execution over *)
(* the entries are on the new contract's marker.                           *)
LEMMA BookNotice ==
    ASSUME TypeInv, TypeInv', LegInv, LineInv, LineageInv, BookInv, ways = {}, ~Doomed, ways' = {}, ~Doomed',
           Announce \/ SeenLapses \/ Notice
    PROVE BookInv'
<1>0. {"notice", "auto"} \subseteq Jobs /\ "notice" # "auto" /\ "notice" \notin Rolls /\ Rolls \subseteq Jobs /\ "auto" \in Rolls
    BY Names
<1>1. ASSUME ~Waits, ~Waits', UNCHANGED <<story, pos, marker, exec, sold, lost>>,
             \A r \in Rolls : job'[r] = job[r]
      PROVE BookInv'
    BY <1>1, BookSame DEF Carrying, Kept
<1>2. CASE Announce \/ TakeNotice
    <2>1. PICK s \in {"queued", "done", "handling"} : Becomes("notice", s)
        BY <1>2 DEF Announce, TakeNotice
    <2>2. job'["notice"].step = s /\ \A r \in Rolls : job'[r] = job[r]
        BY <1>0, <2>1, NoticeBecomes DEF Steps
    <2>3. UNCHANGED <<story, pos, marker, exec, sold, lost>> /\ ~Waits /\ ~Waits'
        BY <1>2, <2>2 DEF Announce, TakeNotice, venue, book, ghost, Waits
    <2> QED
        BY <1>1, <2>2, <2>3
<1>3. CASE SeenLapses
    BY <1>1, <1>3 DEF SeenLapses, venue, book, ghost, Waits
<1>4. CASE \E result \in {"not_held", "reported"} : HandleNotice(result)
    <2>1. PICK result \in {"not_held", "reported"} : HandleNotice(result)
        BY <1>4
    <2>2. job'["notice"].step = "done" /\ \A r \in Rolls : job'[r] = job[r]
        BY <1>0, <2>1, NoticeEnds DEF HandleNotice, Results
    <2>3. UNCHANGED <<story, pos, marker, exec, sold, lost>> /\ ~Waits /\ ~Waits'
        BY <2>1, <2>2 DEF HandleNotice, venue, book, ghost, Waits
    <2> QED
        BY <1>1, <2>2, <2>3
<1>5. CASE RollHeld
    <2>1. Writes("notice", [job["notice"] EXCEPT !.step = "asking", !.qty = Lineage])
        BY <1>5, HeldWritten
    <2>2. job'["notice"].step = "asking" /\ \A r \in Rolls : job'[r] = job[r]
        BY <1>0, <2>1, NoticeIs DEF Writes, Rec
    <2>3. UNCHANGED <<story, pos, marker, exec, sold, lost>> /\ ~Waits /\ ~Waits'
        BY <1>5, <2>2 DEF RollHeld, book, ghost, Waits
    <2> QED
        BY <1>1, <2>2, <2>3
<1>6. CASE AskAuto
    <2>0. UNCHANGED <<story, pos, marker, exec, sold, lost>> /\ ~Waits
        BY <1>6 DEF AskAuto, venue, book, ghost, Waits
    <2>1. CASE pos["old"] > 0
        <3>1. /\ job'["auto"] = [Idle EXCEPT !.step = "queued", !.qty = pos["old"]]
              /\ \A j \in Jobs : j \notin {"auto", "notice"} => job'[j] = job[j]
            BY <1>6, <2>1, AutoWritten
        <3>2. job'["auto"].step = "queued" /\ job'["auto"].closed = 0
            BY <3>1 DEF Idle
        <3>3. job["auto"].step \in {"idle", "done"}
            BY <2>0 DEF LineInv, Waits
        <3>4. ~Carrying /\ ~Carrying'
            BY <2>0, <3>2 DEF Carrying
        <3>5. \A r \in Rolls : (job'[r].step \in Live <=> job[r].step \in Live) /\ (job[r].step \in Live => job'[r] = job[r])
            BY <1>0, <3>1, <3>2, <3>3 DEF Live
        <3> QED
            BY <2>0, <3>4, <3>5, BookSame DEF Kept
    <2>2. CASE ~(pos["old"] > 0)
        <3>1. job'["notice"].step = "done" /\ \A r \in Rolls : job'[r] = job[r]
            BY <1>0, <1>6, <2>2, NoticeEnds DEF AskAuto, Results
        <3> QED
            BY <1>1, <2>0, <3>1 DEF Waits
    <2> QED
        BY <2>1, <2>2
<1>7. CASE NotMoved \/ BoughtBack \/ Fails \/ CarryOver
    <2>0. /\ job["notice"].step = "waiting" /\ job["auto"].step = "done" /\ job' = Ended("notice", job["auto"].result)
          /\ UNCHANGED <<story, pos, sold, lost>>
        BY <1>7 DEF NotMoved, BoughtBack, Fails, CarryOver, Answered, ghost
    <2>1. job'["notice"].step = "done" /\ \A r \in Rolls : job'[r] = job[r]
        BY <1>0, <2>0, NoticeEnds, ResultIn
    <2>2. ~Waits' /\ ~Carrying'
        BY <2>1 DEF Waits, Carrying
    <2>3. ASSUME ~Carrying, UNCHANGED <<marker, exec>> PROVE BookInv'
        BY <2>0, <2>1, <2>2, <2>3, BookSame DEF Kept
    <2>4. CASE NotMoved
        <3>1. job["auto"].closed = 0
            BY <1>0, <1>7, <2>0, <2>4 DEF NotMoved, Answered, LegInv, Leg1
        <3> QED
            BY <2>3, <2>4, <3>1 DEF NotMoved, Carrying
    <2>5. CASE BoughtBack
        <3>1. Entries = 0
            BY <2>5, Numbers DEF BoughtBack, Rearm, Spoil
        <3> QED
            BY <2>3, <2>5, <3>1 DEF BoughtBack, Carrying
    <2>6. CASE Fails
        <3>1. ~(Entries > 0)
            BY <2>6 DEF Fails, Spoil, Way
        <3> QED
            BY <2>3, <2>6, <3>1 DEF Fails, Carrying
    <2>7. CASE CarryOver
        <3>1. CASE ~(Entries > 0)
            BY <2>3, <2>7, <3>1 DEF CarryOver, Carrying
        <3>2. CASE Entries > 0
            <4>1. job["auto"].closed > 0 /\ job["auto"].result = "rolled"
                BY <1>0, <2>0, <2>7 DEF CarryOver, Answered, LegInv, Leg1
            <4>2. Carrying /\ exec.qty = Entries /\ exec.on = "old"
                BY <2>0, <3>2, <4>1 DEF Carrying, Waits, Doomed, LineageInv, Asked
            <4>3. job["auto"].opened = Entries /\ marker["new"] >= Entries
                BY <2>0, <4>2 DEF BookInv, Kept
            <4>4. PICK n \in Nat : n = Entries
                BY Numbers
            <4>5. marker' = Reduced("new", n)
                BY <2>7, <3>2, <4>3, <4>4 DEF CarryOver
            <4>6. marker'["old"] = marker["old"] /\ marker'["new"] = marker["new"] - n
                <5>1. "old" \in Contracts /\ "new" \in Contracts /\ "old" # "new"
                    BY DEF Contracts
                <5>2. /\ marker'["new"] = IF marker["new"] > n THEN marker["new"] - n ELSE 0
                      /\ marker'["old"] = marker["old"]
                    BY <4>5, <5>1, ReducedType
                <5> QED
                    BY <4>3, <4>4, <5>2, Numbers
            <4>7. exec' = [exec EXCEPT !.on = "new"]
                BY <2>7, <3>2 DEF CarryOver
            <4>8. exec'.on = "new" /\ exec'.qty = n
                BY <4>2, <4>4, <4>7 DEF TypeInv
            <4>9. Due = 0 /\ OnNew = 0 /\ Due' = 0 /\ OnNew' = n /\ Lineage' = 0
                BY <2>2, <4>2, <4>8 DEF Due, OnNew, Lineage
            <4>10. ASSUME \A r \in Rolls : job'[r].step \notin Live PROVE Balanced(0, 0, 0)'
                <5>1. Balanced(0, 0, 0)
                    BY <2>1, <4>10 DEF BookInv
                <5> QED
                    BY <2>0, <4>6, <4>9, <5>1, Numbers DEF Balanced
            <4>11. ASSUME NEW r \in Rolls, job'[r].step \in Live PROVE Going(r)'
                <5>1. Going(r) /\ job'[r] = job[r]
                    BY <2>1, <4>11 DEF BookInv
                <5>2. job[r] \in Rec
                    BY <1>0, JobType
                <5>3. PICK x \in Int, y \in Int, z \in Int : x = Short(r) /\ y = OldOut(r) /\ z = NewIn(r)
                    BY <5>2, ShortType
                <5>4. Short(r)' = x /\ OldOut(r)' = y /\ NewIn(r)' = z
                    BY <5>1, <5>3 DEF Short, OldOut, NewIn
                <5>5. Balanced(Short(r), OldOut(r), NewIn(r))'
                    BY <2>0, <4>6, <4>9, <5>1, <5>3, <5>4, Numbers DEF Going, Balanced
                <5> QED
                    BY <2>0, <4>9, <5>1, <5>3, <5>4, <5>5 DEF Going
            <4> QED
                BY <2>2, <4>10, <4>11 DEF BookInv, Kept
        <3> QED
            BY <3>1, <3>2
    <2> QED
        BY <1>7, <2>4, <2>5, <2>6, <2>7
<1> QED
    BY <1>2, <1>3, <1>4, <1>5, <1>6, <1>7 DEF Notice

LEMMA BookRest ==
    ASSUME TypeInv, TypeInv', LegInv, LineInv, LineageInv, BookInv, ways = {}, ~Doomed, ways' = {}, ~Doomed',
           \/ \E r \in Requests : Ask(r)
           \/ CloseArrives \/ ClosePosition \/ Restart
           \/ \E o \in rest : RestFills(o)
    PROVE BookInv'
<1>0. /\ {"notice", "auto", "close"} \subseteq Jobs /\ "close" \notin Rolls /\ "close" # "notice"
      /\ Rolls \subseteq Jobs /\ "auto" \in Rolls
    BY Names
<1>1. ASSUME UNCHANGED <<story, pos, marker, exec, sold, lost>>, job'["notice"] = job["notice"],
             \A r \in Rolls : job'[r] = job[r]
      PROVE BookInv'
    <2>1. (Carrying' <=> Carrying) /\ job'["auto"] = job["auto"] /\ Entries' = Entries
        BY <1>0, <1>1 DEF Carrying, Waits, Entries
    <2>2. Kept'
        BY <1>1, <2>1 DEF BookInv, Kept
    <2> QED
        BY <1>1, <2>1, <2>2, BookSame
<1>2. ASSUME NEW r \in Requests, Ask(r) PROVE BookInv'
    <2>0. r \in Rolls /\ r # "auto" /\ r # "notice" /\ r \in Jobs
        BY Names
    <2>1. pos["old"] \in Nat
        BY <1>2, Numbers DEF Ask
    <2>2. Writes(r, [Idle EXCEPT !.step = "queued", !.qty = pos["old"]])
        BY <1>2, <2>0, <2>1, QueueWritten DEF Ask
    <2>3. job'[r].step = "queued" /\ job[r].step = "idle" /\ \A j \in Jobs : j # r => job'[j] = job[j]
        BY <1>2, <2>2 DEF Idle, Writes, Ask
    <2>4. job'["auto"] = job["auto"] /\ job'["notice"] = job["notice"]
        BY <1>0, <2>0, <2>3
    <2>5. (Carrying' <=> Carrying) /\ Entries' = Entries
        BY <2>4 DEF Carrying, Waits, Entries
    <2>6. \A x \in Rolls : (job'[x].step \in Live <=> job[x].step \in Live) /\ (job[x].step \in Live => job'[x] = job[x])
        BY <1>0, <2>3 DEF Live
    <2>7. UNCHANGED <<story, pos, marker, exec, sold, lost>>
        BY <1>2 DEF Ask, venue, book, ghost
    <2>8. Kept'
        BY <2>4, <2>5, <2>7 DEF BookInv, Kept
    <2> QED
        BY <2>5, <2>6, <2>7, <2>8, BookSame
<1>3. CASE CloseArrives
    <2>1. Writes("close", [job["close"] EXCEPT !.step = "queued"])
        BY <1>0, <1>3, StepWritten DEF CloseArrives, Steps
    <2>2. job'["notice"] = job["notice"] /\ \A r \in Rolls : job'[r] = job[r]
        BY <1>0, <2>1 DEF Writes
    <2> QED
        BY <1>1, <1>3, <2>2 DEF CloseArrives, venue, book, ghost
<1>4. CASE \E o \in rest : RestFills(o)
    <2>1. UNCHANGED pos /\ UNCHANGED <<story, marker, exec, sold, lost, job>>
        BY <1>4 DEF RestFills, Spoil, book, ghost
    <2> QED
        BY <1>1, <2>1
<1>5. CASE Restart
    <2>0. UNCHANGED <<story, pos, marker, exec, sold, lost>>
        BY <1>5 DEF Restart, venue, book, ghost
    <2>1. /\ \A r \in Rolls : job[r].step \notin Live \ {"close"}
          /\ ~(job["notice"].step \in {"asking", "waiting"} /\ Entries > 0)
        <3>1. /\ Way("crash", \E r \in Rolls : job[r].step \in Live \ {"close"}) = {}
              /\ Way("naked", job["notice"].step \in {"asking", "waiting"} /\ Entries > 0) = {}
            BY <1>5 DEF Restart, Spoil
        <3> QED
            BY <3>1 DEF Way
    <2>2. Balanced(0, 0, 0)
        <3>1. CASE \A r \in Rolls : job[r].step \notin Live
            BY <3>1 DEF BookInv
        <3>2. CASE \E r \in Rolls : job[r].step \in Live
            <4>1. PICK r \in Rolls : job[r].step = "close"
                BY <2>1, <3>2
            <4>2. Going(r) /\ Short(r) = 0 /\ OldOut(r) = 0 /\ NewIn(r) = 0
                BY <4>1 DEF BookInv, Live, Short, OldOut, NewIn
            <4> QED
                BY <4>2 DEF Going
        <3> QED
            BY <3>1, <3>2
    <2>3. \A j \in Jobs : job'[j].step \in {"idle", "done"}
        BY <1>5, RestartStops
    <2>4. ~Carrying /\ ~Carrying'
        BY <1>0, <2>1, <2>3 DEF Carrying, Waits
    <2>5. Due' = Due /\ OnNew' = OnNew
        BY <2>0, <2>4 DEF Due, OnNew, Lineage
    <2>6. Balanced(0, 0, 0)'
        BY <2>0, <2>2, <2>5 DEF Balanced
    <2>7. \A r \in Rolls : job'[r].step \notin Live
        BY <1>0, <2>3 DEF Live
    <2> QED
        BY <2>4, <2>6, <2>7 DEF BookInv, Kept
<1>6. CASE ClosePosition
    <2>0. Runs("close") /\ UNCHANGED <<story, marker, lost>>
        BY <1>6 DEF ClosePosition
    <2>1. /\ exec'.on = exec.on /\ exec'.qty \in Nat /\ exec'.qty <= exec.qty
          /\ job'["notice"] = job["notice"] /\ \A r \in Rolls : job'[r] = job[r]
        BY <1>6, CloseFrame
    <2>2. PICK n \in Nat : CloseSells(n)
        BY <1>6, CloseDoes
    <2>3. \A r \in Rolls : job[r].step \notin Live
        BY <1>0, <2>0, OneLive
    <2>4. Balanced(0, 0, 0)
        BY <2>3 DEF BookInv
    <2>5. PICK c \in Contracts, e \in Nat : c = exec.on /\ e = exec.qty
        BY Numbers
    <2>p. PICK p \in Int : p = pos[c]
        BY <2>5 DEF TypeInv
    <2>6. PICK held \in Nat : held = Positive(pos[c]) /\ (held = 0 => p <= 0)
        BY <2>p DEF Positive
    <2>7. /\ n <= e /\ n <= held /\ (n = e \/ n = held) /\ sold' = sold + n
          /\ exec'.qty = IF held = 0 THEN 0 ELSE e - n
          /\ pos' = [pos EXCEPT ![c] = @ + -n]
        BY <2>2, <2>5, <2>6 DEF CloseSells, Plus
    <2>8. ~Carrying /\ ~Carrying'
        <3>1. ASSUME Carrying PROVE FALSE
            <4>1. Waits /\ Entries > 0 /\ Waits' /\ Entries' = Entries
                BY <2>1, <3>1 DEF Carrying, Waits, Entries
            <4>2. exec.qty = Entries /\ exec'.qty = Entries
                BY <4>1 DEF Doomed
            <4> QED
                BY <2>5, <2>7, <4>1, <4>2, Numbers
        <3>2. job'["auto"] = job["auto"] /\ Entries' = Entries
            BY <1>0, <2>1 DEF Entries
        <3> QED
            BY <2>1, <3>1, <3>2 DEF Carrying, Waits
    <2>9. Due = Lineage /\ Due' = Lineage'
        BY <2>8 DEF Due
    <2>10. exec'.qty = e - n
        <3>1. CASE held # 0
            BY <2>7, <3>1
        <3>2. CASE held = 0
            <4>1. pos[c] <= 0 /\ n = 0
                BY <2>p, <2>6, <2>7, <3>2
            <4>2. e = 0
                <5>1. CASE c = "old"
                    BY <2>4, <2>5, <2>9, <4>1, <5>1, Numbers DEF Balanced, Lineage
                <5>2. CASE c = "new"
                    BY <2>4, <2>5, <4>1, <5>2, Numbers DEF Balanced, OnNew
                <5> QED
                    BY <5>1, <5>2 DEF Contracts
            <4> QED
                BY <2>7, <3>2, <4>1, <4>2
        <3> QED
            BY <3>1, <3>2
    <2>11. Balanced(0, 0, 0)'
        <3>1. CASE c = "old"
            <4>1. pos'["old"] = pos["old"] - n /\ pos'["new"] = pos["new"]
                BY <2>7, <3>1, Numbers DEF TypeInv, Contracts
            <4>2. Lineage = e /\ Lineage' = e - n /\ OnNew = 0 /\ OnNew' = 0
                BY <2>1, <2>5, <2>10, <3>1 DEF Lineage, OnNew
            <4> QED
                BY <2>0, <2>4, <2>7, <2>9, <4>1, <4>2, Numbers DEF Balanced
        <3>2. CASE c = "new"
            <4>1. pos'["new"] = pos["new"] - n /\ pos'["old"] = pos["old"]
                BY <2>7, <3>2, Numbers DEF TypeInv, Contracts
            <4>2. Lineage = 0 /\ Lineage' = 0 /\ OnNew = e /\ OnNew' = e - n
                BY <2>1, <2>5, <2>10, <3>2 DEF Lineage, OnNew
            <4> QED
                BY <2>0, <2>4, <2>7, <2>9, <4>1, <4>2, Numbers DEF Balanced
        <3> QED
            BY <3>1, <3>2 DEF Contracts
    <2>12. \A r \in Rolls : job'[r].step \notin Live
        BY <2>1, <2>3
    <2> QED
        BY <2>8, <2>11, <2>12 DEF BookInv, Kept
<1> QED
    BY <1>2, <1>3, <1>4, <1>5, <1>6

LEMMA BookStep ==
    ASSUME TypeInv, TypeInv', LegInv, LineInv, LineageInv, BookInv, [Next]_vars
    PROVE BookInv'
<1>1. CASE ways' # {} \/ Doomed'
    BY <1>1 DEF BookInv
<1>2. CASE ways' = {} /\ ~Doomed'
    <2>1. ways = {} /\ ~Doomed
        BY <1>2, WaysGrow, DoomedStays
    <2>2. CASE UNCHANGED vars
        <3>1. /\ UNCHANGED <<story, pos, marker, exec, sold, lost, job>> /\ (Carrying' <=> Carrying)
              /\ (Kept' <=> Kept)
            BY <2>2 DEF vars, venue, book, ghost, Carrying, Waits, Entries, Kept
        <3>2. Kept
            BY <2>1 DEF BookInv
        <3> QED
            BY <2>1, <3>1, <3>2, BookSame
    <2> QED
        BY <1>2, <2>1, <2>2, BookRoll, BookNotice, BookRest DEF Next
<1> QED
    BY <1>1, <1>2

LEMMA BookInit == Init => LineageInv /\ BookInv
<1> SUFFICES ASSUME Init PROVE LineageInv /\ BookInv
    OBVIOUS
<1>0. TypeInv /\ Rolls \subseteq Jobs /\ "notice" \in Jobs
    BY TypeInit, Names
<1>1. \A j \in Jobs : job[j].step = "idle"
    BY DEF Init, Idle
<1>2. ~Asked /\ ~Waits /\ ~Carrying
    BY <1>0, <1>1 DEF Asked, Waits, Carrying
<1>3. /\ pos["old"] = story.user + story.bot /\ pos["new"] = 0 /\ marker["old"] = story.user /\ marker["new"] = 0
      /\ exec.on = "old" /\ exec.qty = story.bot /\ sold = 0 /\ lost = 0
    BY DEF Init, Contracts
<1>4. Due = story.bot /\ OnNew = 0
    BY <1>2, <1>3 DEF Due, OnNew, Lineage
<1>5. Balanced(0, 0, 0)
    BY <1>0, <1>3, <1>4, StoryType DEF Balanced
<1>6. \A r \in Rolls : job[r].step \notin Live
    BY <1>0, <1>1 DEF Live
<1> QED
    BY <1>2, <1>5, <1>6 DEF LineageInv, BookInv, Kept

----------------------------------------------------------------------------
(* The user's stop is gone before a contract of the user's moves, and for  *)
(* good; the bot's is away exactly while its notice is about to roll.      *)
UserInv ==
    /\ "user" \notin stop["new"]
    /\ "user" \in stop["old"] => marker["old"] > 0 /\ \A r \in Rolls : job[r].step \notin Live

BotInv ==
    ways = {} =>
        IF Asked /\ Entries > 0 THEN \A c \in Contracts : "bot" \notin stop[c]
        ELSE \A c \in Contracts : "bot" \in stop[c] <=> exec.on = c /\ exec.qty > 0

LEMMA RearmDoes ==
    ASSUME TypeInv, NEW c \in Contracts, NEW ws, Rearm(c, ws)
    PROVE /\ stop' = stop \/ stop' = [stop EXCEPT ![c] = @ \cup {"bot"}]
          /\ ~(Entries > 0) => stop' = stop
          /\ Entries > 0 /\ ways' = {} => /\ stop' = [stop EXCEPT ![c] = @ \cup {"bot"}]
                                          /\ exec.qty = Entries /\ ws = {}
BY Numbers DEF Rearm, Spoil, Way

(* Nobody puts a stop of the user's back.                                  *)
LEMMA UserStops ==
    ASSUME TypeInv, [Next]_vars, NEW c \in Contracts, "user" \in stop'[c] PROVE "user" \in stop[c]
<1>1. CASE UNCHANGED stop
    BY <1>1
<1>2. ASSUME NEW d \in Contracts, NEW who, stop' = [stop EXCEPT ![d] = @ \ who] PROVE "user" \in stop[c]
    BY <1>2 DEF TypeInv
<1>3. ASSUME NEW d \in Contracts, stop' = [stop EXCEPT ![d] = @ \cup {"bot"}] PROVE "user" \in stop[c]
    BY <1>3 DEF TypeInv
<1>4. ASSUME NEW r \in Rolls, Execute(r) PROVE "user" \in stop[c]
    <2>1. CASE Retire(r)
        BY <1>2, <2>1 DEF Retire, Contracts
    <2> QED
        BY <1>1, <1>4, <2>1 DEF Execute, Duplicate, Place, Throws, CloseFails, Closed, Complete, OpenRejected, Rolled,
            Restored, Incomplete, venue
<1>5. CASE RollHeld
    BY <1>1, <1>2, <1>5 DEF RollHeld, Contracts
<1>6. CASE NotMoved \/ BoughtBack \/ CarryOver
    <2>1. PICK d \in Contracts : \E ws : Rearm(d, ws)
        BY <1>6 DEF NotMoved, BoughtBack, CarryOver, Contracts
    <2> QED
        BY <1>1, <1>3, <2>1, RearmDoes
<1>7. CASE ClosePosition
    <2>1. PICK n \in Nat : CloseSells(n)
        BY <1>7, CloseDoes
    <2> QED
        BY <1>1, <1>2, <2>1, Numbers DEF CloseSells
<1> QED
    BY <1>1, <1>4, <1>5, <1>6, <1>7 DEF Next, Notice, vars, venue, Ask, Announce, SeenLapses, TakeNotice, HandleNotice,
        AskAuto, Fails, CloseArrives, RestFills, Restart, Answered

LEMMA UserStep == ASSUME TypeInv, LegInv, LineInv, UserInv, [Next]_vars PROVE UserInv'
<1>0. Rolls \subseteq Jobs /\ Requests \subseteq Rolls /\ "close" \in Jobs /\ "close" \notin Rolls /\ "notice" \notin Rolls
      /\ "auto" \in Jobs
    BY Names
<1>1. "user" \notin stop'["new"]
    BY UserStops DEF UserInv, Contracts
<1>2. ASSUME "user" \in stop'["old"] PROVE marker'["old"] > 0 /\ \A r \in Rolls : job'[r].step \notin Live
    <2>0. /\ "user" \in stop["old"] /\ marker["old"] > 0
          /\ \A r \in Rolls : job[r].step \notin Live
        BY <1>2, UserStops DEF UserInv, Contracts
    <2>1. ASSUME marker'["old"] = marker["old"], \A r \in Rolls : job'[r].step \notin Live
          PROVE marker'["old"] > 0 /\ \A r \in Rolls : job'[r].step \notin Live
        BY <2>0, <2>1
    <2>2. ASSUME NEW r \in Rolls, Execute(r)
          PROVE marker' = marker /\ \A x \in Rolls : job'[x].step \notin Live
        <3>1. Duplicate(r)
            <4>1. ~Retire(r)
                <5>1. ASSUME Retire(r) PROVE "user" \notin stop'["old"]
                    BY <5>1 DEF Retire, TypeInv, Contracts
                <5> QED
                    BY <1>2, <5>1
            <4> QED
                BY <2>0, <2>2, <4>1 DEF Execute, Place, Throws, CloseFails, Closed, Complete, OpenRejected, Rolled,
                    Restored, Incomplete, Live, Got
        <3>2. job'[r].step = "done" /\ \A j \in Jobs : j # r => job'[j] = job[j]
            BY <3>1, RollSteps
        <3> QED
            BY <1>0, <2>0, <3>1, <3>2 DEF Duplicate, book, Live
    <2>3. ASSUME NEW r \in Requests, Ask(r)
          PROVE marker' = marker /\ \A x \in Rolls : job'[x].step \notin Live
        <3>1. pos["old"] \in Nat
            BY <2>3, Numbers DEF Ask
        <3>2. Writes(r, [Idle EXCEPT !.step = "queued", !.qty = pos["old"]])
            BY <1>0, <2>3, <3>1, QueueWritten DEF Ask
        <3>3. job'[r].step = "queued" /\ \A j \in Jobs : j # r => job'[j] = job[j]
            BY <3>2 DEF Idle, Writes
        <3> QED
            BY <1>0, <2>0, <2>3, <3>3 DEF Ask, book, Live
    <2>4. ASSUME NEW s \in Steps, Becomes("notice", s)
          PROVE \A r \in Rolls : job'[r].step \notin Live
        BY <1>0, <2>0, <2>4, NoticeBecomes
    <2>5. ASSUME NEW result \in Results, job' = Ended("notice", result)
          PROVE \A r \in Rolls : job'[r].step \notin Live
        BY <1>0, <2>0, <2>5, NoticeEnds
    <2>6. CASE Announce \/ TakeNotice
        <3>1. \E s \in Steps : Becomes("notice", s)
            BY <2>6 DEF Announce, TakeNotice, Steps
        <3> QED
            BY <2>1, <2>4, <2>6, <3>1 DEF Announce, TakeNotice, book
    <2>7. CASE \E result \in {"not_held", "reported"} : HandleNotice(result)
        BY <2>1, <2>5, <2>7 DEF HandleNotice, Results, book
    <2>8. CASE RollHeld
        <3>1. \A r \in Rolls : job'[r] = job[r]
            BY <1>0, <2>8, HeldWritten DEF Writes
        <3> QED
            BY <2>0, <2>1, <2>8, <3>1 DEF RollHeld, book
    <2>9. CASE AskAuto
        <3>1. CASE pos["old"] > 0
            <4>1. /\ job'["auto"] = [Idle EXCEPT !.step = "queued", !.qty = pos["old"]]
                  /\ \A j \in Jobs : j \notin {"auto", "notice"} => job'[j] = job[j]
                BY <2>9, <3>1, AutoWritten
            <4>2. job'["auto"].step = "queued"
                BY <4>1 DEF Idle
            <4>3. \A r \in Rolls : job'[r].step \notin Live
                BY <1>0, <2>0, <4>1, <4>2 DEF Live
            <4> QED
                BY <2>1, <2>9, <4>3 DEF AskAuto, book
        <3>2. CASE ~(pos["old"] > 0)
            BY <2>1, <2>5, <2>9, <3>2 DEF AskAuto, Results, book
        <3> QED
            BY <3>1, <3>2
    <2>10. CASE NotMoved \/ BoughtBack \/ Fails \/ CarryOver
        <3>1. \A r \in Rolls : job'[r].step \notin Live
            BY <1>0, <2>5, <2>10, ResultIn DEF NotMoved, BoughtBack, Fails, CarryOver, Answered
        <3>2. marker'["old"] = marker["old"]
            <4>1. CASE marker' = Reduced("new", job["auto"].opened)
                <5>1. job["auto"].opened \in Nat
                    BY <1>0, JobType, RecType
                <5>2. "old" \in Contracts /\ "new" \in Contracts /\ "old" # "new"
                    BY DEF Contracts
                <5> QED
                    BY <4>1, <5>1, <5>2, ReducedType
            <4> QED
                BY <2>10, <4>1 DEF NotMoved, BoughtBack, Fails, CarryOver
        <3> QED
            BY <2>1, <3>1, <3>2
    <2>11. CASE CloseArrives \/ ClosePosition
        <3>1. PICK s \in Steps : Becomes("close", s)
            BY <2>11 DEF CloseArrives, ClosePosition, Steps
        <3>2. \A r \in Rolls : job'[r] = job[r]
            BY <1>0, <3>1, StepWritten DEF Writes
        <3> QED
            BY <2>0, <2>1, <2>11, <3>2 DEF CloseArrives, ClosePosition, book
    <2>12. CASE Restart
        BY <1>0, <2>1, <2>12, RestartStops DEF Restart, book, Live
    <2>13. CASE SeenLapses \/ (\E o \in rest : RestFills(o)) \/ UNCHANGED vars
        BY <2>0, <2>13 DEF SeenLapses, RestFills, vars, book
    <2> QED
        BY <2>1, <2>2, <2>3, <2>6, <2>7, <2>8, <2>9, <2>10, <2>11, <2>12, <2>13 DEF Next, Notice
<1> QED
    BY <1>1, <1>2 DEF UserInv

LEMMA BotSame ==
    ASSUME BotInv, ways = {}, exec' = exec, Asked' <=> Asked, Entries' = Entries,
           \A c \in Contracts : "bot" \in stop'[c] <=> "bot" \in stop[c]
    PROVE BotInv'
BY DEF BotInv

LEMMA BotNotice ==
    ASSUME TypeInv, LegInv, LineInv, LineageInv, BotInv, ways = {}, ways' = {}, Announce \/ SeenLapses \/ Notice
    PROVE BotInv'
<1>0. {"notice", "auto"} \subseteq Jobs /\ Entries \in Nat /\ exec.qty \in Nat /\ Lineage \in Nat
    BY Names, Numbers
<1>c. Contracts = {"old", "new"} /\ stop \in [Contracts -> SUBSET {"user", "bot"}]
    BY DEF TypeInv, Contracts
<1>1. ASSUME ~(Asked /\ Entries > 0), ~Asked', exec' = exec, stop' = stop PROVE BotInv'
    BY <1>1 DEF BotInv
<1>2. CASE Announce \/ TakeNotice
    <2>1. PICK s \in {"queued", "done", "handling"} : Becomes("notice", s)
        BY <1>2 DEF Announce, TakeNotice
    <2>2. job'["notice"].step = s
        BY <2>1, NoticeBecomes DEF Steps
    <2> QED
        BY <1>1, <1>2, <2>2 DEF Announce, TakeNotice, venue, book, Asked
<1>3. CASE SeenLapses
    BY <1>1, <1>3 DEF SeenLapses, venue, book, Asked
<1>4. ASSUME NEW result \in {"not_held", "reported"}, HandleNotice(result) PROVE BotInv'
    <2>1. job'["notice"].step = "done"
        BY <1>4, NoticeEnds DEF HandleNotice, Results
    <2> QED
        BY <1>1, <1>4, <2>1 DEF HandleNotice, venue, book, Asked
<1>5. CASE RollHeld
    <2>1. Writes("notice", [job["notice"] EXCEPT !.step = "asking", !.qty = Lineage])
        BY <1>5, HeldWritten
    <2>2. job'["notice"].step = "asking" /\ Entries' = Lineage
        BY <2>1, NoticeIs DEF Writes, Rec, Entries
    <2>3. \A c \in Contracts : "bot" \in stop[c] <=> exec.on = c /\ exec.qty > 0
        BY <1>5 DEF RollHeld, Asked, BotInv
    <2>4. exec' = exec
        BY <1>5 DEF RollHeld, book
    <2>5. CASE Lineage > 0
        <3>1. exec.on = "old" /\ stop' = [stop EXCEPT !["old"] = @ \ {"bot"}]
            BY <1>5, <2>5 DEF RollHeld, Lineage
        <3>2. \A c \in Contracts : "bot" \notin stop'[c]
            BY <1>c, <2>3, <3>1
        <3> QED
            BY <2>2, <2>5, <3>2 DEF BotInv, Asked
    <2>6. CASE ~(Lineage > 0)
        BY <1>5, <2>2, <2>3, <2>4, <2>6 DEF RollHeld, BotInv
    <2> QED
        BY <2>5, <2>6
<1>6. CASE AskAuto
    <2>0. exec' = exec /\ stop' = stop /\ Asked
        BY <1>6 DEF AskAuto, venue, book, Asked
    <2>1. CASE pos["old"] > 0
        <3>1. job'["notice"] = [job["notice"] EXCEPT !.step = "waiting"]
            BY <1>6, <2>1, AutoWritten
        <3>2. job'["notice"].step = "waiting" /\ Entries' = Entries
            BY <3>1, NoticeIs DEF Rec, Entries
        <3>3. Asked'
            BY <3>2 DEF Asked
        <3> QED
            BY <2>0, <3>2, <3>3, BotSame
    <2>2. CASE ~(pos["old"] > 0)
        <3>1. job'["notice"].step = "done"
            BY <1>6, <2>2, NoticeEnds DEF AskAuto, Results
        <3>2. ~(exec.on = "old" /\ exec.qty > 0)
            BY <1>6, <2>2 DEF AskAuto, Spoil, Way
        <3>3. CASE Entries > 0
            <4>1. exec.on = "old" /\ ~(exec.qty > 0) /\ \A c \in Contracts : "bot" \notin stop[c]
                BY <2>0, <3>2, <3>3 DEF LineageInv, BotInv
            <4> QED
                BY <2>0, <4>1, <3>1 DEF BotInv, Asked
        <3>4. CASE ~(Entries > 0)
            BY <1>1, <2>0, <3>1, <3>4 DEF Asked
        <3> QED
            BY <3>3, <3>4
    <2> QED
        BY <2>1, <2>2
<1>7. CASE NotMoved \/ BoughtBack \/ Fails \/ CarryOver
    <2>0. Asked /\ job' = Ended("notice", job["auto"].result)
        BY <1>7 DEF NotMoved, BoughtBack, Fails, CarryOver, Answered, Asked
    <2>1. ~Asked'
        <3>1. job'["notice"].step = "done"
            BY <1>0, <2>0, NoticeEnds, ResultIn
        <3> QED
            BY <3>1 DEF Asked
    <2>2. CASE ~(Entries > 0)
        <3>1. exec' = exec
            BY <1>7, <2>2 DEF NotMoved, BoughtBack, Fails, CarryOver
        <3>2. stop' = stop
            BY <1>7, <2>2, RearmDoes DEF NotMoved, BoughtBack, Fails, CarryOver, Contracts
        <3> QED
            BY <1>1, <2>1, <2>2, <3>1, <3>2
    <2>3. CASE Entries > 0
        <3>0. exec.on = "old" /\ \A c \in Contracts : "bot" \notin stop[c]
            BY <2>0, <2>3 DEF LineageInv, BotInv
        <3>1. CASE NotMoved
            <4>1. stop' = [stop EXCEPT !["old"] = @ \cup {"bot"}] /\ exec.qty = Entries /\ exec' = exec
                BY <2>3, <3>1, RearmDoes DEF NotMoved, Contracts
            <4>2. \A c \in Contracts : "bot" \in stop'[c] <=> c = "old"
                BY <1>c, <3>0, <4>1
            <4> QED
                BY <2>1, <2>3, <3>0, <4>1, <4>2 DEF BotInv
        <3>2. ~BoughtBack
            BY <2>3, RearmDoes DEF BoughtBack, Contracts
        <3>3. ~Fails
            BY <2>3 DEF Fails, Spoil, Way
        <3>4. CASE CarryOver
            <4>1. stop' = [stop EXCEPT !["new"] = @ \cup {"bot"}] /\ exec.qty = Entries
                BY <2>3, <3>4, RearmDoes DEF CarryOver, Contracts
            <4>2. \A c \in Contracts : "bot" \in stop'[c] <=> c = "new"
                BY <1>c, <3>0, <4>1
            <4>3. exec' = [exec EXCEPT !.on = "new"]
                BY <2>3, <3>4 DEF CarryOver
            <4>4. exec'.on = "new" /\ exec'.qty = exec.qty
                BY <4>3 DEF TypeInv
            <4> QED
                BY <2>1, <2>3, <4>1, <4>2, <4>4 DEF BotInv
        <3> QED
            BY <1>7, <3>1, <3>2, <3>3, <3>4
    <2> QED
        BY <2>2, <2>3
<1> QED
    BY <1>2, <1>3, <1>4, <1>5, <1>6, <1>7 DEF Notice

LEMMA BotStep ==
    ASSUME TypeInv, LegInv, LineInv, LineageInv, BotInv, [Next]_vars PROVE BotInv'
<1>0. {"notice", "auto", "close"} \subseteq Jobs /\ "close" # "notice" /\ Contracts = {"old", "new"}
      /\ stop \in [Contracts -> SUBSET {"user", "bot"}]
    BY Names DEF TypeInv, Contracts
<1>1. CASE ways' # {}
    BY <1>1 DEF BotInv
<1>2. CASE ways' = {}
    <2>0. ways = {}
        BY <1>2, WaysGrow
    <2>1. ASSUME exec' = exec, job'["notice"] = job["notice"], \A c \in Contracts : "bot" \in stop'[c] <=> "bot" \in stop[c]
          PROVE BotInv'
        BY <2>0, <2>1, BotSame DEF Asked, Entries
    <2>2. ASSUME NEW r \in Rolls, Execute(r) PROVE BotInv'
        <3>1. exec' = exec /\ job'["notice"] = job["notice"]
            BY <2>2, RollAlone
        <3>2. CASE Retire(r)
            <4>1. stop' = [stop EXCEPT !["old"] = @ \ {"user"}]
                BY <3>2 DEF Retire
            <4>2. \A c \in Contracts : "bot" \in stop'[c] <=> "bot" \in stop[c]
                BY <1>0, <4>1
            <4> QED
                BY <2>1, <3>1, <4>2
        <3>3. CASE UNCHANGED stop
            BY <2>1, <3>1, <3>3
        <3> QED
            BY <2>2, <3>2, <3>3 DEF Execute, Duplicate, Place, Throws, CloseFails, Closed, Complete, OpenRejected, Rolled,
                Restored, Incomplete, venue
    <2>3. ASSUME NEW r \in Requests, Ask(r) PROVE BotInv'
        <3>1. pos["old"] \in Nat /\ r \in Jobs /\ r # "notice"
            BY <2>3, Names, Numbers DEF Ask
        <3>2. job'["notice"] = job["notice"]
            BY <1>0, <2>3, <3>1, QueueWritten DEF Ask, Writes
        <3> QED
            BY <2>1, <2>3, <3>2 DEF Ask, venue, book
    <2>4. CASE CloseArrives
        <3>1. job'["notice"] = job["notice"]
            BY <1>0, <2>4, StepWritten DEF CloseArrives, Writes, Steps
        <3> QED
            BY <2>1, <2>4, <3>1 DEF CloseArrives, venue, book
    <2>5. CASE ClosePosition
        <3>1. PICK n \in Nat : CloseSells(n)
            BY <2>5, CloseDoes
        <3>2. /\ exec'.on = exec.on /\ exec'.qty \in Nat /\ exec'.qty <= exec.qty
              /\ job'["notice"] = job["notice"]
            BY <2>5, CloseFrame
        <3>3. stop' = IF exec'.qty = 0 THEN [stop EXCEPT ![exec.on] = @ \ {"bot"}] ELSE stop
            BY <3>1 DEF CloseSells
        <3>4. \A c \in Contracts : "bot" \in stop'[c] <=> "bot" \in stop[c] /\ ~(c = exec.on /\ exec'.qty = 0)
            BY <1>0, <3>3
        <3>5. (Asked' <=> Asked) /\ Entries' = Entries /\ exec.qty \in Nat
            BY <3>2, Numbers DEF Asked, Entries
        <3>6. exec'.qty > 0 => exec.qty > 0
            BY <3>2, <3>5
        <3>7. exec'.qty > 0 <=> exec'.qty # 0
            BY <3>2
        <3>8. CASE Asked /\ Entries > 0
            BY <2>0, <3>4, <3>5, <3>8 DEF BotInv
        <3>9. CASE ~(Asked /\ Entries > 0)
            <4>1. \A c \in Contracts : "bot" \in stop[c] <=> exec.on = c /\ exec.qty > 0
                BY <2>0, <3>9 DEF BotInv
            <4>2. \A c \in Contracts : "bot" \in stop'[c] <=> exec'.on = c /\ exec'.qty > 0
                BY <3>2, <3>4, <3>6, <3>7, <4>1
            <4> QED
                BY <3>5, <3>9, <4>2 DEF BotInv
        <3> QED
            BY <3>8, <3>9
    <2>6. CASE Restart
        <3>1. ~(job["notice"].step \in {"asking", "waiting"} /\ Entries > 0)
            BY <1>2, <2>6 DEF Restart, Spoil, Way
        <3>2. ~(Asked /\ Entries > 0) /\ ~Asked'
            BY <1>0, <2>6, <3>1, RestartStops DEF Asked
        <3>3. stop' = stop /\ exec' = exec
            BY <2>6 DEF Restart, venue, book
        <3> QED
            BY <2>0, <3>2, <3>3 DEF BotInv
    <2>7. CASE (\E o \in rest : RestFills(o)) \/ UNCHANGED vars
        BY <2>1, <2>7 DEF RestFills, vars, venue, book
    <2> QED
        BY <1>2, <2>0, <2>2, <2>3, <2>4, <2>5, <2>6, <2>7, BotNotice DEF Next
<1> QED
    BY <1>1, <1>2

LEMMA StopsInit == Init => UserInv /\ BotInv
<1> SUFFICES ASSUME Init PROVE UserInv /\ BotInv
    OBVIOUS
<1>0. Rolls \subseteq Jobs /\ "notice" \in Jobs /\ Contracts = {"old", "new"}
    BY Names DEF Contracts
<1>1. \A j \in Jobs : job[j].step = "idle"
    BY DEF Init, Idle
<1>2. ~Asked /\ \A r \in Rolls : job[r].step \notin Live
    BY <1>0, <1>1 DEF Asked, Live
<1>3. /\ stop["old"] = Way("user", story.user > 0) \cup Way("bot", story.bot > 0) /\ stop["new"] = {}
      /\ marker["old"] = story.user /\ exec.on = "old" /\ exec.qty = story.bot
    BY <1>0 DEF Init
<1>4. ("user" \in stop["old"] <=> story.user > 0) /\ ("bot" \in stop["old"] <=> story.bot > 0)
    BY <1>3 DEF Way
<1>5. UserInv
    BY <1>2, <1>3, <1>4 DEF UserInv
<1>6. \A c \in Contracts : "bot" \in stop[c] <=> exec.on = c /\ exec.qty > 0
    BY <1>0, <1>3, <1>4
<1> QED
    BY <1>2, <1>5, <1>6 DEF BotInv

----------------------------------------------------------------------------
IInv == TypeInv /\ LegInv /\ LineInv /\ LineageInv /\ BookInv /\ UserInv /\ BotInv

LEMMA Invariant == Spec => []IInv
<1>1. Init => IInv
    BY TypeInit, LegLineInit, BookInit, StopsInit DEF IInv
<1>2. IInv /\ [Next]_vars => IInv'
    BY TypeStep, LegStep, LineStep, LineageStep, BookStep, UserStep, BotStep DEF IInv
<1> QED
    BY <1>1, <1>2, PTL DEF Spec

LEMMA IInvKeeps == ASSUME IInv PROVE RollKeepsExposure
<1> SUFFICES ASSUME Quiet, ways = {}
             PROVE /\ pos["old"] + pos["new"] = story.user + story.bot - sold - lost
                   /\ \A c \in Contracts : pos[c] = Booked(c)
    BY DEF RollKeepsExposure
<1>1. TypeInv
    BY DEF IInv
<1>2. ~Doomed /\ ~Carrying /\ \A r \in Rolls : job[r].step \notin Live
    BY DEF Quiet, Doomed, Carrying, Waits
<1>3. Balanced(0, 0, 0) /\ Due = Lineage
    BY <1>2 DEF IInv, BookInv, Due
<1>4. pos["old"] = marker["old"] + Lineage /\ pos["new"] = marker["new"] + OnNew
    BY <1>1, <1>3, Numbers, DueType DEF Balanced
<1>5. pos["old"] + pos["new"] = story.user + story.bot - sold - lost
    BY <1>1, <1>3, Numbers DEF Balanced
<1>6. pos["old"] = Booked("old") /\ pos["new"] = Booked("new")
    BY <1>4 DEF Booked, Lineage, OnNew
<1> QED
    BY <1>5, <1>6 DEF Contracts

LEMMA IInvStops == ASSUME IInv PROVE StopsFollow
<1> SUFFICES ASSUME Quiet, ways = {}, NEW c \in Contracts
             PROVE /\ "user" \in stop[c] => marker[c] > 0
                   /\ "bot" \in stop[c] <=> exec.on = c /\ exec.qty > 0
    BY DEF StopsFollow
<1>1. "user" \in stop[c] => marker[c] > 0
    BY DEF IInv, UserInv, Contracts
<1>2. ~Asked
    BY DEF Quiet, Asked
<1> QED
    BY <1>1, <1>2 DEF IInv, BotInv

(* However many rolls, contracts, notices and failures there are: between  *)
(* rolls, unless one came apart in a way that is named, the exposure is    *)
(* what it was less what was closed or reported as left flat, and each     *)
(* contract is held by whom the book says holds it (executeRoll,           *)
(* handleFuturesRollNotice).                                               *)
THEOREM ExposureKept == Spec => []RollKeepsExposure
BY Invariant, IInvKeeps, PTL

(* Then, too, no stop of the user's rests where the user holds nothing,    *)
(* and the bot's rests exactly on the contract its execution is on.        *)
THEOREM StopsFollowRolls == Spec => []StopsFollow
BY Invariant, IInvStops, PTL

(* A roll's quantities shrink from what was asked to what was closed to    *)
(* what was opened, the venue's line holds each operation once, and        *)
(* whoever is between its orders is the line's head.                       *)
THEOREM TypeCorrect == Spec => []TypeOK
<1>1. IInv => TypeOK
    BY TypeGives DEF IInv
<1> QED
    BY <1>1, Invariant, PTL
=============================================================================
